---------------------------- MODULE MemFS_proofs ----------------------------
(***************************************************************************)
(* Proofs about MemFS, for every choice of its constants.  The properties  *)
(* are not inductive one by one: a read finds its handle open because      *)
(* rights, types, the list of littlefs and the numbers of the preopened    *)
(* directories agree with each other, and each of them stays as it is      *)
(* because of the others.                                                  *)
(***************************************************************************)
EXTENDS MemFS, LittleFS_proofs

(* The streams are the descriptors made under 0, 1 and 2, wherever they    *)
(* have been moved.                                                        *)
StreamsInv ==
  \A fd \in DOMAIN fds :
    /\ fds[fd].stream <=> fds[fd].id \in 0 .. 2
    /\ fds[fd].stream => fds[fd].type = "reg"

IInv ==
  TypeOK /\ OwnershipInv /\ PreopensPinned /\ StreamsInv /\ RightsInv /\ AccessorsSafe

(* How a call can end.                                                     *)
Answer == Errno \cup {"assert_truncate", "require_lfs_error", "require_size",
                      "require_emplace", "use_after_free"}

(* Ending like that is well typed and keeps clear of the accessors.        *)
LEMMA AnswerFacts ==
  /\ Errno \subseteq Answer /\ Answer \subseteq Errno \cup Halt
  /\ \A code \in Answer : code \notin {"require_file", "require_dir", "assert_open",
                                       "assert_read", "assert_write"}
BY DEF Answer, Errno, Halt

-----------------------------------------------------------------------------
(* The numbers of a fresh table.                                           *)
LEMMA ConstantFacts ==
  /\ P \in Nat /\ MaxFd \in Nat /\ P + 2 < MaxFd
  /\ BootFd \subseteq Fd /\ 0 .. 2 \subseteq BootFd
  /\ Addr \cap BootFd = {}
  /\ \A fd \in BootFd \ 0 .. 2 : Preopens[fd - 2] \in LfsPath
<1>1. P \in Nat /\ MaxFd \in Nat /\ P + 2 < MaxFd
  BY MemFSAssumption DEF P
<1>2. \A fd \in BootFd \ 0 .. 2 : fd - 2 \in 1 .. Len(Preopens)
  BY <1>1 DEF BootFd, P
<1> QED
  BY <1>1, <1>2, MemFSAssumption DEF BootFd, Fd

(* The descriptors made at the start have their type.                      *)
LEMMA BootType ==
  ASSUME NEW fd \in BootFd
  PROVE  InitialFds[fd] \in FileDescriptor
<1>1. NoPath \in LfsPath
  BY EmptyType DEF NoPath, LfsPath, Root
<1>2. CASE fd > 2
  <2>1. fd \in BootFd \ 0 .. 2
    BY <1>2
  <2>2. make_preopen_fd(fd) \in FileDescriptor
    BY <2>1, ConstantFacts, NoHandleType
       DEF make_preopen_fd, FileDescriptor, Right, WASI_PATH_RIGHTS
  <2> QED
    BY <1>2, <2>2 DEF InitialFds
<1>3. CASE ~ fd > 2
  <2>1. \A right \in {"FD_READ", "FD_WRITE"} : make_stream_fd(fd, right) \in FileDescriptor
    BY <1>1, NoHandleType DEF make_stream_fd, FileDescriptor, Right, WASI_FD_RIGHTS
  <2> QED
    BY <1>3, <2>1 DEF InitialFds
<1> QED
  BY <1>2, <1>3

(* The volume that initialize_internal fills is one.                       *)
LEMMA InitialTreeType == IsVolume(InitialTree, FileMetadata)
<1> DEFINE paths == {Root} \cup UNION {{SubSeq(f, 1, n) : n \in 1 .. Len(f)} : f \in DOMAIN Fs}
           entry(p) == IF p \in DOMAIN Fs THEN [NewEntry("reg") EXCEPT !.data = Fs[p]]
                       ELSE NewEntry("dir")
<1>1. paths \subseteq Path
  <2>1. ASSUME NEW f \in DOMAIN Fs, NEW n \in 1 .. Len(f)
        PROVE  SubSeq(f, 1, n) \in Path
    <3>1. f \in Path /\ n \in Int /\ \A i \in 1 .. n : f[i] \in Name
      BY FsAssumption DEF Path
    <3> QED
      BY <3>1, SubSeqProperties DEF Path
  <2>2. ASSUME NEW q \in UNION {{SubSeq(f, 1, n) : n \in 1 .. Len(f)} : f \in DOMAIN Fs}
        PROVE  q \in Path
    <3>1. PICK f \in DOMAIN Fs : q \in {SubSeq(f, 1, n) : n \in 1 .. Len(f)}
      OBVIOUS
    <3>2. PICK n \in 1 .. Len(f) : q = SubSeq(f, 1, n)
      BY <3>1
    <3> QED
      BY <2>1, <3>2
  <2> QED
    BY <2>2, EmptyType
<1>2. \A p : entry(p) \in Entry(FileMetadata)
  <2>1. \A data \in Data : [NewEntry("reg") EXCEPT !.data = data] \in Entry(FileMetadata)
    BY NewEntryType DEF Entry
  <2> QED
    BY <2>1, NewEntryType, FsAssumption
<1>3. IsVolume([p \in paths |-> entry(p)], FileMetadata)
  <2> HIDE DEF paths, entry
  <2> QED
    BY <1>1, <1>2 DEF IsVolume
<1> QED
  BY <1>3 DEF InitialTree

(* The invariant holds when the guest starts.                              *)
LEMMA InitIInv == Init => IInv
<1> SUFFICES ASSUME Init PROVE IInv
  OBVIOUS
<1> USE DEF Init
<1>1. DOMAIN fds = BootFd /\ \A fd \in BootFd : fds[fd].id = fd
  BY DEF InitialFds, make_preopen_fd, make_stream_fd
<1>2. TypeOK
  <2>1. \A fd \in DOMAIN fds : fds[fd] \in FileDescriptor
    BY <1>1, BootType
  <2>2. fds = [fd \in DOMAIN fds |-> fds[fd]]
    BY DEF InitialFds
  <2>3. ret \in Errno
    BY DEF Errno
  <2> QED
    BY <1>1, <2>1, <2>2, <2>3, ConstantFacts, InitialTreeType DEF TypeOK, Fd
<1>3. OwnershipInv
  BY <1>1, ConstantFacts DEF OwnershipInv
<1>4. PreopensPinned
  BY <1>1, ConstantFacts DEF PreopensPinned, InitialFds, make_preopen_fd, BootFd
<1>5. StreamsInv
  BY <1>1 DEF StreamsInv, InitialFds, make_preopen_fd, make_stream_fd, BootFd
<1>6. RightsInv
  BY <1>1 DEF RightsInv, InitialFds, make_preopen_fd, make_stream_fd,
              WASI_PATH_RIGHTS, WASI_FD_RIGHTS
<1>7. AccessorsSafe
  BY DEF AccessorsSafe
<1> QED
  BY <1>2, <1>3, <1>4, <1>5, <1>6, <1>7 DEF IInv

-----------------------------------------------------------------------------
(* What the checks at the head of a call establish.                        *)

(* A looked-up descriptor exists, is of the type and has the rights.       *)
LEMMA LookupFacts ==
  ASSUME NEW fd, NEW type, NEW rights, NEW allow_streams \in BOOLEAN
  PROVE  LET err == lookup_fd(fd, type, rights, allow_streams)
         IN  /\ err \in Errno
             /\ err = "SUCCESS" =>
                  /\ fd \in DOMAIN fds
                  /\ fds[fd].stream => allow_streams
                  /\ type \in {"any", fds[fd].type}
                  /\ rights \subseteq fds[fd].rights_base
BY DEF lookup_fd, OrElse, Check, Errno

(* Every error of littlefs is answered or ends the guest in from_lfs_error.*)
LEMMA LfsErrorFacts ==
  ASSUME NEW error
  PROVE  /\ from_lfs_error(error) \in Answer
         /\ from_lfs_error(error) = "SUCCESS" => error = "OK"
BY DEF from_lfs_error, Answer, Errno

(* A file that passes has a handle of its own, which littlefs has open.    *)
LEMMA FileErrorFacts ==
  ASSUME IInv, NEW fd, NEW rights,
         fd \in DOMAIN fds /\ rights \subseteq fds[fd].rights_base => fds[fd].type = "reg"
  PROVE  /\ FileError(fd, rights) \in Errno
         /\ FileError(fd, rights) = "SUCCESS" =>
              /\ fd \in DOMAIN fds /\ fds[fd].type = "reg" /\ ~fds[fd].stream
              /\ rights \subseteq fds[fd].rights_base
              /\ fds[fd].id \in mlist
              /\ fds[fd].file \in Handle
<1> DEFINE err == lookup_fd(fd, "any", rights, FALSE)
<1>1. err \in Errno
  BY LookupFacts
<1>2. CASE err # "SUCCESS"
  BY <1>1, <1>2 DEF FileError, OrElse
<1>3. CASE err = "SUCCESS"
  <2>1. /\ fd \in DOMAIN fds /\ ~fds[fd].stream
        /\ rights \subseteq fds[fd].rights_base
    BY <1>3, LookupFacts
  <2>2. fds[fd].type = "reg" /\ fds[fd].file \in Handle /\ fds[fd].id \in Addr \cup BootFd
    BY <2>1 DEF IInv, TypeOK, FileDescriptor
  <2>3. fds[fd].id \in Addr
    BY <2>1, <2>2, ConstantFacts DEF IInv, StreamsInv, PreopensPinned, OwnershipInv
  <2>4. fds[fd].id \in mlist
    BY <2>1, <2>3 DEF IInv, OwnershipInv
  <2>5. FileError(fd, rights) = "SUCCESS"
    BY <1>3, <2>1, <2>2, <2>4 DEF FileError, OrElse, Check
  <2> QED
    BY <2>1, <2>2, <2>4, <2>5 DEF Errno
<1> QED
  BY <1>2, <1>3

(* A right to a file is a right of files only.                             *)
LEMMA FdRight ==
  ASSUME IInv, NEW fd, NEW right \in WASI_FD_RIGHTS
  PROVE  fd \in DOMAIN fds /\ {right} \subseteq fds[fd].rights_base => fds[fd].type = "reg"
BY DEF IInv, RightsInv, TypeOK, FileDescriptor

-----------------------------------------------------------------------------
(* Steps that leave the table as it is.                                    *)

(* Such a step: every number keeps its descriptor, and rights only shrink. *)
Quiet ==
  /\ DOMAIN fds' = DOMAIN fds /\ mlist' = mlist
  /\ \A fd \in DOMAIN fds :
       /\ fds'[fd].id = fds[fd].id
       /\ fds'[fd].rights_base \subseteq fds[fd].rights_base
       /\ fds'[fd].rights_inheriting \subseteq fds[fd].rights_inheriting

(* A call that only answers keeps the invariant.                           *)
LEMMA ReplyStep ==
  ASSUME IInv, NEW code \in Answer, Reply(code)
  PROVE  IInv' /\ Quiet
<1>1. UNCHANGED <<fds, next_fd, mlist, tree>> /\ ret' = code
  BY DEF Reply
<1>2. TypeOK'
  BY <1>1, AnswerFacts DEF IInv, TypeOK
<1>3. OwnershipInv' /\ PreopensPinned' /\ StreamsInv' /\ RightsInv'
  BY <1>1 DEF IInv, OwnershipInv, PreopensPinned, StreamsInv, RightsInv
<1>4. AccessorsSafe'
  BY <1>1, AnswerFacts DEF AccessorsSafe
<1>5. Quiet
  BY <1>1 DEF Quiet
<1> QED
  BY <1>2, <1>3, <1>4, <1>5 DEF IInv

(* What a step may do to a descriptor that keeps its number.               *)
Same(desc, new) ==
  /\ new \in FileDescriptor
  /\ new.id = desc.id /\ new.path = desc.path
  /\ new.type = desc.type /\ new.stream = desc.stream
  /\ new.rights_base \subseteq desc.rights_base
  /\ new.rights_inheriting \subseteq desc.rights_inheriting
  /\ new.file.flags = desc.file.flags

(* A step that keeps every number, and of the descriptors what Same says,  *)
(* keeps the invariant.                                                    *)
LEMMA InPlaceStep ==
  ASSUME IInv, DOMAIN fds' = DOMAIN fds, fds' \in [DOMAIN fds -> FileDescriptor],
         \A fd \in DOMAIN fds : Same(fds[fd], fds'[fd]),
         UNCHANGED <<next_fd, mlist>>, IsVolume(tree', FileMetadata), ret' \in Answer
  PROVE  IInv' /\ Quiet
<1>1. TypeOK'
  BY AnswerFacts DEF IInv, TypeOK
<1>2. OwnershipInv'
  BY DEF IInv, OwnershipInv, Same
<1>3. PreopensPinned'
  BY DEF IInv, PreopensPinned, Same
<1>4. StreamsInv'
  BY DEF IInv, StreamsInv, Same
<1>5. RightsInv'
  BY DEF IInv, RightsInv, Same
<1>6. AccessorsSafe'
  BY AnswerFacts DEF AccessorsSafe
<1>7. Quiet
  BY DEF Quiet, Same
<1> QED
  BY <1>1, <1>2, <1>3, <1>4, <1>5, <1>6, <1>7 DEF IInv

(* Giving one descriptor another handle that is open for the same keeps    *)
(* the descriptor.                                                         *)
LEMMA SameExceptFile ==
  ASSUME NEW desc \in FileDescriptor, NEW h \in Handle, h.flags = desc.file.flags
  PROVE  Same(desc, [desc EXCEPT !.file = h])
BY DEF Same, FileDescriptor

(* So does a call that changes one handle, and syncs it.                   *)
LEMMA SynchroniseStep ==
  ASSUME IInv, NEW fd \in DOMAIN fds, NEW h \in Handle,
         h.flags = fds[fd].file.flags, Synchronise(fd, h)
  PROVE  IInv' /\ Quiet
<1>1. /\ fds' = [fds EXCEPT ![fd].file = Clean(h)] /\ tree' = Synced(tree, h)
      /\ UNCHANGED <<next_fd, mlist>> /\ ret' = "SUCCESS"
  BY DEF Synchronise, Succeed
<1>2. Clean(h) \in Handle /\ Clean(h).flags = fds[fd].file.flags
  BY CleanType DEF SameFile
<1>3. \A other \in DOMAIN fds : fds[other] \in FileDescriptor
  BY DEF IInv, TypeOK
<1>4. Same(fds[fd], [fds[fd] EXCEPT !.file = Clean(h)])
  BY <1>2, <1>3, SameExceptFile
<1>5. DOMAIN fds' = DOMAIN fds /\ \A other \in DOMAIN fds : Same(fds[other], fds'[other])
  BY <1>1, <1>3, <1>4 DEF Same
<1>6. fds' \in [DOMAIN fds -> FileDescriptor]
  BY <1>1, <1>5 DEF Same, IInv, TypeOK
<1>7. IsVolume(tree', FileMetadata)
  BY <1>1, SyncedType DEF IInv, TypeOK
<1>8. ret' \in Answer
  BY <1>1 DEF Answer, Errno
<1> QED
  BY <1>1, <1>5, <1>6, <1>7, <1>8, InPlaceStep

(* A call that changes one descriptor, not its handle, and what follows    *)
(* from Same, keeps the invariant.                                         *)
LEMMA DescriptorStep ==
  ASSUME IInv, NEW fd \in DOMAIN fds, NEW desc, Same(fds[fd], desc),
         fds' = [fds EXCEPT ![fd] = desc], UNCHANGED <<next_fd, mlist, tree>>,
         ret' = "SUCCESS"
  PROVE  IInv' /\ Quiet
<1>1. \A other \in DOMAIN fds : fds[other] \in FileDescriptor
  BY DEF IInv, TypeOK
<1>2. DOMAIN fds' = DOMAIN fds /\ \A other \in DOMAIN fds : Same(fds[other], fds'[other])
  BY <1>1 DEF Same
<1>3. fds' \in [DOMAIN fds -> FileDescriptor]
  BY <1>2 DEF Same, IInv, TypeOK
<1>4. ret' \in Answer /\ IsVolume(tree', FileMetadata)
  BY DEF Answer, Errno, IInv, TypeOK
<1> QED
  BY <1>2, <1>3, <1>4, InPlaceStep

(* fd_fdstat_set_flags keeps the invariant.                                *)
LEMMA SetFlagsStep ==
  ASSUME IInv, NEW fd, NEW append \in BOOLEAN, fd_fdstat_set_flags(fd, append)
  PROVE  IInv' /\ Quiet
<1> DEFINE err == lookup_fd(fd, "any", {"FD_FDSTAT_SET_FLAGS"}, TRUE)
           desc == [fds[fd] EXCEPT !.append = append]
<1>1. err \in Answer
  BY LookupFacts, AnswerFacts
<1>2. CASE err # "SUCCESS"
  BY <1>1, <1>2, ReplyStep DEF fd_fdstat_set_flags
<1>3. CASE err = "SUCCESS"
  <2>1. fd \in DOMAIN fds /\ fds[fd] \in FileDescriptor
    BY <1>3, LookupFacts DEF IInv, TypeOK
  <2>2. /\ fds' = [fds EXCEPT ![fd] = desc]
        /\ UNCHANGED <<next_fd, mlist, tree>> /\ ret' = "SUCCESS"
    <3>1. /\ fds' = [fds EXCEPT ![fd].append = append]
          /\ UNCHANGED <<next_fd, mlist, tree>> /\ ret' = "SUCCESS"
      BY <1>3, AnswerFacts DEF fd_fdstat_set_flags, Succeed, Reply
    <3> QED
      BY <3>1
  <2>3. Same(fds[fd], desc)
    BY <2>1 DEF Same, FileDescriptor
  <2> QED
    BY <2>1, <2>2, <2>3, DescriptorStep
<1> QED
  BY <1>2, <1>3

(* fd_fdstat_set_rights keeps the invariant: rights only shrink.           *)
LEMMA SetRightsStep ==
  ASSUME IInv, NEW fd, NEW base \in SUBSET Right, NEW inheriting \in SUBSET Right,
         fd_fdstat_set_rights(fd, base, inheriting)
  PROVE  IInv' /\ Quiet
<1> DEFINE err == set_rights_error(fd, base, inheriting)
           desc == [fds[fd] EXCEPT !.rights_base = base, !.rights_inheriting = inheriting]
<1>1. err \in Answer
  BY LookupFacts DEF set_rights_error, OrElse, Check, Answer, Errno
<1>2. CASE err # "SUCCESS"
  BY <1>1, <1>2, ReplyStep DEF fd_fdstat_set_rights
<1>3. CASE err = "SUCCESS"
  <2>1. /\ lookup_fd(fd, "any", {}, TRUE) = "SUCCESS"
        /\ base \subseteq fds[fd].rights_base
        /\ inheriting \subseteq fds[fd].rights_inheriting
    BY <1>3 DEF set_rights_error, OrElse, Check
  <2>2. fd \in DOMAIN fds /\ fds[fd] \in FileDescriptor
    BY <2>1, LookupFacts DEF IInv, TypeOK
  <2>3. /\ fds' = [fds EXCEPT ![fd] = desc]
        /\ UNCHANGED <<next_fd, mlist, tree>> /\ ret' = "SUCCESS"
    <3>1. /\ fds' = [fds EXCEPT ![fd].rights_base = base,
                               ![fd].rights_inheriting = inheriting]
          /\ UNCHANGED <<next_fd, mlist, tree>> /\ ret' = "SUCCESS"
      BY <1>3 DEF fd_fdstat_set_rights, Succeed, Reply
    <3> QED
      BY <2>2, <3>1
  <2>4. Same(fds[fd], desc)
    BY <2>1, <2>2 DEF Same, FileDescriptor
  <2> QED
    BY <2>2, <2>3, <2>4, DescriptorStep
<1> QED
  BY <1>2, <1>3

-----------------------------------------------------------------------------
(* Calls on open files.                                                    *)

(* Sizes that reach littlefs are natural numbers.                          *)
LEMMA SizeType ==
  /\ \A n \in Int : lfs_off_t(n) \in Nat
  /\ \A n \in Int : n % (Word * Word) \in Nat
<1>1. Word \in Nat /\ Word > 0
  BY LittleFSAssumption DEF Word
<1>2. Word * Word \in Nat /\ Word * Word > 0
  <2>1. \A m \in Nat : m > 0 => m * m \in Nat /\ m * m > 0
    OBVIOUS
  <2> QED
    BY <1>1, <2>1
<1>3. \A m \in Nat : m > 0 => \A n \in Int : n % m \in Nat
  OBVIOUS
<1> QED
  BY <1>1, <1>2, <1>3 DEF lfs_off_t

(* A handle put back to a position it could have is a handle.              *)
LEMMA PutBackType ==
  ASSUME NEW h \in Handle, NEW pos \in 0 .. FileMax
  PROVE  [h EXCEPT !.pos = pos] \in Handle /\ SameFile(h, [h EXCEPT !.pos = pos])
BY DEF Handle, SameFile

(* Reading is safe with FD_READ and leaves a handle.                       *)
LEMMA ReadFacts ==
  ASSUME IInv, NEW fd, FileError(fd, {"FD_READ"}) = "SUCCESS", NEW iovs \in IovsArg,
         NEW h \in Handle
  PROVE  /\ ReadError(fd, iovs) = "SUCCESS"
         /\ AfterRead(h, iovs) \in Handle /\ SameFile(h, AfterRead(h, iovs))
<1>1. "RD" \in fds[fd].file.flags
  <2>1. "FD_READ" \in WASI_FD_RIGHTS
    BY DEF WASI_FD_RIGHTS
  <2>2. /\ fd \in DOMAIN fds /\ fds[fd].type = "reg" /\ ~fds[fd].stream
        /\ {"FD_READ"} \subseteq fds[fd].rights_base
    BY <2>1, FdRight, FileErrorFacts
  <2> QED
    BY <2>2 DEF IInv, RightsInv
<1>2. iovs # <<>> => Len(iovs[1]) \in Nat
  <2>1. iovs # <<>> => iovs[1] \in Data
    BY MemFSAssumption, EmptySeq
  <2> QED
    BY <2>1 DEF Data
<1>3. AfterRead(h, iovs) \in Handle /\ SameFile(h, AfterRead(h, iovs))
  BY <1>2, FileReadType DEF AfterRead, SameFile
<1> QED
  BY <1>1, <1>3 DEF ReadError, Check

(* Writing is safe with FD_WRITE and leaves a handle when it succeeds.     *)
LEMMA WriteFacts ==
  ASSUME IInv, NEW fd, FileError(fd, {"FD_WRITE"}) = "SUCCESS", NEW iovs \in IovsArg,
         NEW h \in Handle, h.flags = fds[fd].file.flags
  PROVE  /\ WriteError(fd, h, iovs) \in Answer
         /\ WriteError(fd, h, iovs) = "SUCCESS" =>
              AfterWrite(h, iovs) \in Handle /\ SameFile(h, AfterWrite(h, iovs))
<1>1. "WR" \in h.flags
  <2>1. "FD_WRITE" \in WASI_FD_RIGHTS
    BY DEF WASI_FD_RIGHTS
  <2>2. /\ fd \in DOMAIN fds /\ fds[fd].type = "reg" /\ ~fds[fd].stream
        /\ {"FD_WRITE"} \subseteq fds[fd].rights_base
    BY <2>1, FdRight, FileErrorFacts
  <2> QED
    BY <2>2 DEF IInv, RightsInv
<1>2. CASE iovs = <<>>
  BY <1>2 DEF WriteError, AfterWrite, SameFile, Answer, Errno
<1>3. CASE iovs # <<>>
  <2>1. iovs[1] \in Data
    BY <1>3, MemFSAssumption, EmptySeq
  <2>2. WriteError(fd, h, iovs) = from_lfs_error(FileWriteError(tree, h, iovs[1]))
    BY <1>1, <1>3 DEF WriteError, OrElse, Check
  <2>3. FileWriteError(tree, h, iovs[1]) = "OK" =>
          FileWritten(h, iovs[1]) \in Handle /\ SameFile(h, FileWritten(h, iovs[1]))
    BY <2>1, FileWrittenType
  <2>4. AfterWrite(h, iovs) = FileWritten(h, iovs[1])
    BY <1>3 DEF AfterWrite
  <2> QED
    BY <2>2, <2>3, <2>4, LfsErrorFacts
<1> QED
  BY <1>2, <1>3

(* Changing the size ends well or not, but leaves a handle when it does.   *)
LEMMA TruncateFacts ==
  ASSUME IInv, NEW fd \in DOMAIN fds, NEW size \in Nat
  PROVE  /\ TruncateError(fd, size) \in Answer
         /\ TruncateError(fd, size) = "SUCCESS" =>
              /\ FileTruncated(fds[fd].file, size) \in Handle
              /\ SameFile(fds[fd].file, FileTruncated(fds[fd].file, size))
<1>1. fds[fd].file \in Handle
  BY DEF IInv, TypeOK, FileDescriptor
<1>2. TruncateError(fd, size) = "SUCCESS" =>
        FileTruncateError(tree, fds[fd].file, size) = "OK"
  BY LfsErrorFacts DEF TruncateError, OrElse, Check
<1>3. TruncateError(fd, size) \in Answer
  BY LfsErrorFacts DEF TruncateError, OrElse, Check, Answer
<1> QED
  BY <1>1, <1>2, <1>3, FileTruncatedType

(* A seek that succeeds leaves a handle.                                   *)
LEMMA SeekFacts ==
  ASSUME IInv, NEW fd \in DOMAIN fds, NEW offset, NEW whence
  PROVE  LET h == FileSought(fds[fd].file, lfs_soff_t(offset), whence)
         IN  /\ SeekError(fd, offset, whence) \in Answer
             /\ SeekError(fd, offset, whence) = "SUCCESS" =>
                  h \in Handle /\ SameFile(fds[fd].file, h)
<1>1. fds[fd].file \in Handle
  BY DEF IInv, TypeOK, FileDescriptor
<1> QED
  BY <1>1, LfsErrorFacts, FileSoughtType DEF SeekError

(* A call that answers, or changes one handle and syncs it.                *)
LEMMA FileStep ==
  ASSUME IInv, NEW fd, NEW err \in Answer, NEW h,
         err = "SUCCESS" =>
           fd \in DOMAIN fds /\ h \in Handle /\ SameFile(fds[fd].file, h),
         \/ err # "SUCCESS" /\ Reply(err)
         \/ err = "SUCCESS" /\ Synchronise(fd, h)
  PROVE  IInv' /\ Quiet
<1>1. CASE err # "SUCCESS" /\ Reply(err)
  BY <1>1, ReplyStep
<1>2. CASE err = "SUCCESS" /\ Synchronise(fd, h)
  BY <1>2, SynchroniseStep DEF SameFile
<1> QED
  BY <1>1, <1>2

(* fd_allocate keeps the invariant.                                        *)
LEMMA AllocateStep ==
  ASSUME IInv, NEW fd, NEW offset \in Int, NEW len \in Int, fd_allocate(fd, offset, len)
  PROVE  IInv' /\ Quiet
<1> DEFINE required_size == (offset + len) % (Word * Word)
           size == lfs_off_t(required_size)
           enough == Len(fds[fd].file.data) >= required_size
           found == FileError(fd, {"FD_ALLOCATE"})
           err == OrElse(found, IF enough THEN "SUCCESS" ELSE TruncateError(fd, size))
           h == FileTruncated(fds[fd].file, size)
<1>1. size \in Nat
  BY SizeType, \A m \in Nat : m \in Int
<1>2. "FD_ALLOCATE" \in WASI_FD_RIGHTS
  BY DEF WASI_FD_RIGHTS
<1>3. found \in Errno /\ (found = "SUCCESS" => fd \in DOMAIN fds)
  BY <1>2, FdRight, FileErrorFacts
<1> HIDE DEF size, found, enough, h
<1>4. /\ err \in Answer
      /\ err = "SUCCESS" /\ ~enough =>
           fd \in DOMAIN fds /\ h \in Handle /\ SameFile(fds[fd].file, h)
  BY <1>1, <1>3, TruncateFacts, AnswerFacts DEF OrElse, Answer, h
<1>5. \/ err # "SUCCESS" /\ Reply(err)
      \/ err = "SUCCESS" /\ enough /\ Reply(err)
      \/ err = "SUCCESS" /\ ~enough /\ Synchronise(fd, h)
  BY DEF fd_allocate, size, found, enough, h
<1> HIDE DEF err
<1> QED
  BY <1>4, <1>5, ReplyStep, FileStep

(* fd_filestat_set_size keeps the invariant.                               *)
LEMMA SetSizeStep ==
  ASSUME IInv, NEW fd, NEW size \in Int, fd_filestat_set_size(fd, size)
  PROVE  IInv' /\ Quiet
<1> DEFINE found == FileError(fd, {"FD_FILESTAT_SET_SIZE"})
           err == OrElse(found, TruncateError(fd, lfs_off_t(size)))
           h == FileTruncated(fds[fd].file, lfs_off_t(size))
<1>1. "FD_FILESTAT_SET_SIZE" \in WASI_FD_RIGHTS
  BY DEF WASI_FD_RIGHTS
<1>2. found \in Errno /\ (found = "SUCCESS" => fd \in DOMAIN fds)
  BY <1>1, FdRight, FileErrorFacts
<1> HIDE DEF found
<1>3. /\ err \in Answer
      /\ err = "SUCCESS" => fd \in DOMAIN fds /\ h \in Handle /\ SameFile(fds[fd].file, h)
  BY <1>2, SizeType, TruncateFacts, AnswerFacts DEF OrElse
<1>4. \/ err # "SUCCESS" /\ Reply(err)
      \/ err = "SUCCESS" /\ Synchronise(fd, h)
  BY DEF fd_filestat_set_size, found
<1> HIDE DEF err, h
<1> QED
  BY <1>3, <1>4, FileStep

(* fd_read keeps the invariant.                                            *)
LEMMA ReadStep ==
  ASSUME IInv, NEW fd, NEW iovs \in IovsArg, fd_read(fd, iovs)
  PROVE  IInv' /\ Quiet
<1> DEFINE found == FileError(fd, {"FD_READ"})
           err == OrElse(found, ReadError(fd, iovs))
           h == AfterRead(fds[fd].file, iovs)
<1>1. "FD_READ" \in WASI_FD_RIGHTS
  BY DEF WASI_FD_RIGHTS
<1>2. /\ found \in Errno
      /\ found = "SUCCESS" => fd \in DOMAIN fds /\ fds[fd].file \in Handle
  BY <1>1, FdRight, FileErrorFacts
<1>3. /\ err \in Answer
      /\ err = "SUCCESS" => fd \in DOMAIN fds /\ h \in Handle /\ SameFile(fds[fd].file, h)
  BY <1>2, ReadFacts, AnswerFacts DEF OrElse
<1>4. \/ err # "SUCCESS" /\ Reply(err)
      \/ err = "SUCCESS" /\ Synchronise(fd, h)
  BY DEF fd_read
<1> HIDE DEF err, h
<1> QED
  BY <1>3, <1>4, FileStep

(* fd_pread keeps the invariant.                                           *)
LEMMA PreadStep ==
  ASSUME IInv, NEW fd, NEW iovs \in IovsArg, NEW offset \in Int,
         fd_pread(fd, iovs, offset)
  PROVE  IInv' /\ Quiet
<1> DEFINE found == FileError(fd, {"FD_READ"})
           file == fds[fd].file
           err == OrElse(found, OrElse(SeekError(fd, offset, "SET"), ReadError(fd, iovs)))
           moved == FileSought(file, lfs_soff_t(offset), "SET")
           h == [AfterRead(moved, iovs) EXCEPT !.pos = file.pos]
<1>1. "FD_READ" \in WASI_FD_RIGHTS
  BY DEF WASI_FD_RIGHTS
<1>2. /\ found \in Errno
      /\ found = "SUCCESS" => fd \in DOMAIN fds /\ file \in Handle
  BY <1>1, FdRight, FileErrorFacts
<1>3. ASSUME found = "SUCCESS", SeekError(fd, offset, "SET") = "SUCCESS"
      PROVE  h \in Handle /\ SameFile(file, h)
  <2>1. moved \in Handle /\ SameFile(file, moved)
    BY <1>2, <1>3, SeekFacts
  <2>2. AfterRead(moved, iovs) \in Handle /\ SameFile(moved, AfterRead(moved, iovs))
    BY <1>3, <2>1, ReadFacts
  <2>3. file.pos \in 0 .. FileMax
    BY <1>2, <1>3 DEF Handle
  <2> QED
    BY <2>1, <2>2, <2>3, PutBackType DEF SameFile
<1>4. /\ err \in Answer
      /\ err = "SUCCESS" => fd \in DOMAIN fds /\ h \in Handle /\ SameFile(file, h)
  <2>1. found = "SUCCESS" => /\ SeekError(fd, offset, "SET") \in Answer
                             /\ ReadError(fd, iovs) = "SUCCESS"
    BY <1>2, SeekFacts, ReadFacts
  <2> HIDE DEF found, file, h
  <2> QED
    BY <1>2, <1>3, <2>1, AnswerFacts DEF OrElse
<1>5. \/ err # "SUCCESS" /\ Reply(err)
      \/ err = "SUCCESS" /\ Synchronise(fd, h)
  BY DEF fd_pread
<1> HIDE DEF err, h
<1> QED
  BY <1>4, <1>5, FileStep

(* fd_pwrite keeps the invariant.                                          *)
LEMMA PwriteStep ==
  ASSUME IInv, NEW fd, NEW iovs \in IovsArg, NEW offset \in Int,
         fd_pwrite(fd, iovs, offset)
  PROVE  IInv' /\ Quiet
<1> DEFINE found == FileError(fd, {"FD_WRITE"})
           file == fds[fd].file
           moved == FileSought(file, lfs_soff_t(offset), "SET")
           err == OrElse(found, OrElse(SeekError(fd, offset, "SET"),
                                       WriteError(fd, moved, iovs)))
           h == [AfterWrite(moved, iovs) EXCEPT !.pos = file.pos]
<1>1. "FD_WRITE" \in WASI_FD_RIGHTS
  BY DEF WASI_FD_RIGHTS
<1>2. /\ found \in Errno
      /\ found = "SUCCESS" => fd \in DOMAIN fds /\ file \in Handle
  BY <1>1, FdRight, FileErrorFacts
<1>3. ASSUME found = "SUCCESS", SeekError(fd, offset, "SET") = "SUCCESS"
      PROVE  moved \in Handle /\ SameFile(file, moved)
  BY <1>2, <1>3, SeekFacts
<1>4. ASSUME found = "SUCCESS", SeekError(fd, offset, "SET") = "SUCCESS"
      PROVE  /\ WriteError(fd, moved, iovs) \in Answer
             /\ WriteError(fd, moved, iovs) = "SUCCESS" =>
                  h \in Handle /\ SameFile(file, h)
  <2>1. /\ WriteError(fd, moved, iovs) \in Answer
        /\ WriteError(fd, moved, iovs) = "SUCCESS" =>
             AfterWrite(moved, iovs) \in Handle /\ SameFile(moved, AfterWrite(moved, iovs))
    BY <1>3, <1>4, WriteFacts DEF SameFile
  <2>2. file.pos \in 0 .. FileMax
    BY <1>2, <1>4 DEF Handle
  <2> QED
    BY <1>3, <1>4, <2>1, <2>2, PutBackType DEF SameFile
<1>5. /\ err \in Answer
      /\ err = "SUCCESS" => fd \in DOMAIN fds /\ h \in Handle /\ SameFile(file, h)
  <2>1. found = "SUCCESS" => SeekError(fd, offset, "SET") \in Answer
    BY <1>2, SeekFacts
  <2> HIDE DEF found, file, moved, h
  <2> QED
    BY <1>2, <1>4, <2>1, AnswerFacts DEF OrElse
<1>6. \/ err # "SUCCESS" /\ Reply(err)
      \/ err = "SUCCESS" /\ Synchronise(fd, h)
  BY DEF fd_pwrite
<1> HIDE DEF err, h
<1> QED
  BY <1>5, <1>6, FileStep

(* fd_write keeps the invariant.                                           *)
LEMMA WriteStep ==
  ASSUME IInv, NEW fd, NEW iovs \in IovsArg, fd_write(fd, iovs)
  PROVE  IInv' /\ Quiet
<1> DEFINE desc == fds[fd]
           file == desc.file
           from == IF desc.append
                   THEN [file EXCEPT !.pos = Larger(@, Len(file.data))] ELSE file
           found == FileError(fd, {"FD_WRITE"})
           err == OrElse(found, WriteError(fd, from, iovs))
           written == AfterWrite(from, iovs)
           h == IF desc.append THEN [written EXCEPT !.pos = file.pos] ELSE written
<1>1. "FD_WRITE" \in WASI_FD_RIGHTS
  BY DEF WASI_FD_RIGHTS
<1>2. /\ found \in Errno
      /\ found = "SUCCESS" => fd \in DOMAIN fds /\ file \in Handle
  BY <1>1, FdRight, FileErrorFacts
<1>3. ASSUME found = "SUCCESS" PROVE from \in Handle /\ SameFile(file, from)
  <2>1. file.pos \in 0 .. FileMax /\ Len(file.data) \in 0 .. FileMax
    BY <1>2, <1>3, LittleFSAssumption DEF Handle, Data
  <2>2. Larger(file.pos, Len(file.data)) \in 0 .. FileMax
    BY <2>1 DEF Larger
  <2>3. CASE desc.append
    <3>1. from = [file EXCEPT !.pos = Larger(file.pos, Len(file.data))]
      BY <2>3
    <3> QED
      BY <1>2, <1>3, <2>2, <3>1, PutBackType
  <2>4. CASE ~desc.append
    BY <1>2, <1>3, <2>4 DEF SameFile
  <2> QED
    BY <2>3, <2>4
<1>4. ASSUME found = "SUCCESS"
      PROVE  /\ WriteError(fd, from, iovs) \in Answer
             /\ WriteError(fd, from, iovs) = "SUCCESS" => h \in Handle /\ SameFile(file, h)
  <2>1. /\ WriteError(fd, from, iovs) \in Answer
        /\ WriteError(fd, from, iovs) = "SUCCESS" =>
             written \in Handle /\ SameFile(from, written)
    <3>1. found = "SUCCESS" /\ from \in Handle /\ from.flags = file.flags
      BY <1>3, <1>4 DEF SameFile
    <3> HIDE DEF from
    <3> QED
      BY <3>1, WriteFacts
  <2>2. file.pos \in 0 .. FileMax
    BY <1>2, <1>4 DEF Handle
  <2> HIDE DEF from, written, file
  <2> QED
    BY <1>3, <1>4, <2>1, <2>2, PutBackType DEF SameFile
<1>5. /\ err \in Answer
      /\ err = "SUCCESS" => fd \in DOMAIN fds /\ h \in Handle /\ SameFile(file, h)
  <2> HIDE DEF found, file, from, h
  <2> QED
    BY <1>2, <1>4, AnswerFacts DEF OrElse
<1>6. \/ err # "SUCCESS" /\ Reply(err)
      \/ err = "SUCCESS" /\ Synchronise(fd, h)
  BY DEF fd_write
<1> HIDE DEF err, h
<1> QED
  BY <1>5, <1>6, FileStep

(* fd_seek, and fd_tell by it, keep the invariant.                         *)
LEMMA SeekStep ==
  ASSUME IInv, NEW fd, NEW offset \in Int, NEW whence, fd_seek(fd, offset, whence)
  PROVE  IInv' /\ Quiet
<1> DEFINE is_read_only == whence = "CUR" /\ offset = 0
           rights == {"FD_SEEK"} \cup IF is_read_only THEN {"FD_TELL"} ELSE {}
           found == lookup_fd(fd, "reg", rights, TRUE)
           opened == FileError(fd, {})
           sought == SeekError(fd, offset, whence)
           err == OrElse(found,
                  OrElse(Check(~fds[fd].stream, "SPIPE"),
                  OrElse(opened,
                  OrElse(Check(whence \in {"SET", "CUR", "END"}, "INVAL"), sought))))
           h == FileSought(fds[fd].file, lfs_soff_t(offset), whence)
<1>1. found \in Errno /\ (found = "SUCCESS" => fd \in DOMAIN fds /\ fds[fd].type = "reg")
  BY DEF lookup_fd, OrElse, Check, Errno
<1>2. found = "SUCCESS" => opened \in Errno
  BY <1>1, FileErrorFacts
<1>3. found = "SUCCESS" =>
        sought \in Answer /\ (sought = "SUCCESS" => h \in Handle /\ SameFile(fds[fd].file, h))
  BY <1>1, SeekFacts
<1>4. /\ err \in Answer
      /\ err = "SUCCESS" => found = "SUCCESS" /\ sought = "SUCCESS"
  <2> HIDE DEF found, opened, sought
  <2> QED
    BY <1>1, <1>2, <1>3, AnswerFacts DEF OrElse, Check, Errno, Answer
<1>5. \/ err # "SUCCESS" /\ Reply(err)
      \/ /\ err = "SUCCESS"
         /\ fds' = [fds EXCEPT ![fd].file = FileSought(@, lfs_soff_t(offset), whence)]
         /\ UNCHANGED <<next_fd, mlist, tree>> /\ ret' = "SUCCESS"
  BY DEF fd_seek, Succeed
<1>6. CASE err # "SUCCESS" /\ Reply(err)
  BY <1>4, <1>6, ReplyStep
<1>7. CASE err = "SUCCESS"
  <2>1. fd \in DOMAIN fds /\ fds[fd] \in FileDescriptor
    BY <1>1, <1>4, <1>7 DEF IInv, TypeOK
  <2>2. Same(fds[fd], [fds[fd] EXCEPT !.file = h])
    BY <1>3, <1>4, <1>7, <2>1, SameExceptFile DEF SameFile
  <2>3. /\ fds' = [fds EXCEPT ![fd] = [fds[fd] EXCEPT !.file = h]]
        /\ UNCHANGED <<next_fd, mlist, tree>> /\ ret' = "SUCCESS"
    BY <1>5, <1>7, <2>1
  <2> HIDE DEF h
  <2> QED
    BY <2>1, <2>2, <2>3, DescriptorStep
<1> QED
  BY <1>5, <1>6, <1>7

-----------------------------------------------------------------------------
(* Calls that do nothing but answer.                                       *)

(* fd_advise, fd_datasync, fd_sync and fd_fdstat_get keep the invariant.   *)
LEMMA LookupStep ==
  ASSUME IInv, NEW fd,
         fd_advise(fd) \/ fd_datasync(fd) \/ fd_sync(fd) \/ fd_fdstat_get(fd)
  PROVE  IInv' /\ Quiet
<1>1. \A rights : \A allow_streams \in BOOLEAN :
        lookup_fd(fd, "any", rights, allow_streams) \in Answer
  BY LookupFacts, AnswerFacts
<1> QED
  BY <1>1, ReplyStep DEF fd_advise, fd_datasync, fd_sync, fd_fdstat_get

(* fd_filestat_get and path_filestat_get keep the invariant.               *)
LEMMA FilestatStep ==
  ASSUME IInv, NEW fd, NEW path, fd_filestat_get(fd) \/ path_filestat_get(fd, path)
  PROVE  IInv' /\ Quiet
<1>1. \A to : filestat_get(to) \in Answer
  BY LfsErrorFacts DEF filestat_get
<1>2. CASE fd_filestat_get(fd)
  <2>1. OrElse(lookup_fd(fd, "any", {"FD_FILESTAT_GET"}, TRUE),
               IF fds[fd].stream THEN "SUCCESS" ELSE filestat_get(fds[fd].path)) \in Answer
    BY <1>1, LookupFacts, AnswerFacts DEF OrElse, Answer, Errno
  <2> QED
    BY <1>2, <2>1, ReplyStep DEF fd_filestat_get
<1>3. CASE path_filestat_get(fd, path)
  <2>1. OrElse(lookup_fd(fd, "dir", {"PATH_FILESTAT_GET"}, FALSE),
               filestat_get(resolve_path(fd, path))) \in Answer
    BY <1>1, LookupFacts, AnswerFacts DEF OrElse
  <2> QED
    BY <1>3, <2>1, ReplyStep DEF path_filestat_get
<1> QED
  BY <1>2, <1>3

(* fd_prestat_get and fd_prestat_dir_name keep the invariant.              *)
LEMMA PrestatStep ==
  ASSUME IInv, NEW fd, NEW fits \in BOOLEAN,
         fd_prestat_get(fd) \/ fd_prestat_dir_name(fd, fits)
  PROVE  IInv' /\ Quiet
<1>1. /\ fd_prestat_get_error(fd) \in Answer
      /\ OrElse(fd_prestat_get_error(fd), Check(fits, "require_size")) \in Answer
  BY DEF fd_prestat_get_error, OrElse, Check, Answer, Errno
<1> QED
  BY <1>1, ReplyStep DEF fd_prestat_get, fd_prestat_dir_name

(* The calls that answer NOSYS keep the invariant.                         *)
LEMMA UnsupportedStep ==
  ASSUME IInv, UnsupportedCall
  PROVE  IInv' /\ Quiet
<1>1. "NOSYS" \in Answer
  BY DEF Answer, Errno
<1> QED
  BY <1>1, ReplyStep
     DEF UnsupportedCall, fd_readdir, path_link, path_readlink, path_symlink

-----------------------------------------------------------------------------
(* Steps of the table.                                                     *)

(* What the rest of the table may rely on in a new descriptor.             *)
Fresh(desc, id, dir) ==
  /\ desc \in FileDescriptor
  /\ desc.id = id /\ ~desc.stream
  /\ desc.rights_base \subseteq dir.rights_inheriting
  /\ desc.type = "dir" => desc.rights_base \cap WASI_FD_RIGHTS = {}
  /\ desc.type = "reg" =>
       /\ "FD_READ" \in desc.rights_base => "RD" \in desc.file.flags
       /\ "FD_WRITE" \in desc.rights_base => "WR" \in desc.file.flags

(* How the table changes: a descriptor leaves it,                          *)
Pinned == BootFd \ 0 .. 2

Closing(fd) ==
  /\ fd \in DOMAIN fds \ Pinned /\ fds[fd].id \in mlist
  /\ fds' = Without(fd) /\ mlist' = mlist \ {fds[fd].id}

(* gets another number, where one may leave the table,                     *)
Moving(fd, to) ==
  /\ fd \in DOMAIN fds \ Pinned /\ to \notin Pinned \cup {fd}
  /\ fds' = Put(Without(fd), to, fds[fd])
  /\ IF to \in DOMAIN fds THEN fds[to].id \in mlist /\ mlist' = mlist \ {fds[to].id}
     ELSE mlist' = mlist

(* or is new, opened below the directory dir.                              *)
Opening(fd, id, dir) ==
  /\ fd \in Fd \ DOMAIN fds /\ id \in Addr \ {fds[other].id : other \in DOMAIN fds}
  /\ dir \in DOMAIN fds /\ fds[dir].type = "dir" /\ "PATH_OPEN" \in fds[dir].rights_base
  /\ \E desc : Fresh(desc, id, fds[dir]) /\ fds' = Put(fds, fd, desc)
  /\ mlist' = mlist \cup {id}

(* fd_close answers, and reaches littlefs only for a descriptor that       *)
(* path_open made.                                                         *)
LEMMA CloseFacts ==
  ASSUME IInv, NEW fd \in Fd
  PROVE  /\ fd_close_error(fd) \in Answer
         /\ fd_close_error(fd) = "SUCCESS" => fd \notin BootFd \ 0 .. 2
         /\ Closes(fd) => fd \in DOMAIN fds /\ ~fds[fd].stream
<1> DEFINE pinned == require_not_preopen(fd)
           found == lookup_fd(fd, "any", {}, FALSE)
<1>1. pinned \in Errno /\ (pinned = "SUCCESS" => fd \notin BootFd \ 0 .. 2)
  BY ConstantFacts DEF require_not_preopen, Check, Errno, BootFd
<1>2. found \in Errno /\ (found = "SUCCESS" => fd \in DOMAIN fds /\ ~fds[fd].stream)
  BY LookupFacts
<1>3. ASSUME found = "SUCCESS"
      PROVE  (IF fds[fd].type = "dir" THEN Check(~fds[fd].stream, "require_dir")
              ELSE FileError(fd, {})) \in Errno
  <2>1. CASE fds[fd].type = "dir"
    BY <1>2, <1>3, <2>1 DEF Check, Errno
  <2>2. CASE fds[fd].type # "dir"
    <3>1. fds[fd].type = "reg"
      BY <1>2, <1>3, <2>2 DEF IInv, TypeOK, FileDescriptor
    <3> QED
      BY <2>2, <3>1, FileErrorFacts
  <2> QED
    BY <2>1, <2>2
<1> HIDE DEF pinned, found
<1>4. fd_close_error(fd) =
        OrElse(pinned,
        IF fd < 3 THEN "SUCCESS"
        ELSE OrElse(found,
             IF fds[fd].type = "dir" THEN Check(~fds[fd].stream, "require_dir")
             ELSE FileError(fd, {})))
  BY DEF fd_close_error, pinned, found
<1>5. fd_close_error(fd) \in Errno
  BY <1>1, <1>2, <1>3, <1>4 DEF OrElse, Errno
<1>6. fd_close_error(fd) = "SUCCESS" => pinned = "SUCCESS" /\ (fd < 3 \/ found = "SUCCESS")
  BY <1>4 DEF OrElse
<1>7. Closes(fd) => found = "SUCCESS"
  BY <1>6, ConstantFacts DEF Closes, Fd
<1> QED
  BY <1>1, <1>2, <1>5, <1>6, <1>7, AnswerFacts

(* Littlefs has open what is neither a stream nor a preopened directory.   *)
LEMMA OwnedFacts ==
  ASSUME IInv, NEW fd \in DOMAIN fds \ Pinned, ~fds[fd].stream
  PROVE  fds[fd].id \in mlist
<1>1. fds[fd].id \in Addr \cup BootFd
  BY DEF IInv, TypeOK, FileDescriptor
<1>2. fds[fd].id \notin 0 .. 2
  BY DEF IInv, StreamsInv
<1>3. fds[fd].id \notin Pinned
  BY DEF IInv, OwnershipInv, PreopensPinned, Pinned
<1> QED
  BY <1>1, <1>2, <1>3 DEF IInv, OwnershipInv, Pinned

(* fd_close keeps the invariant.                                           *)
LEMMA CloseStep ==
  ASSUME IInv, NEW fd \in Fd, fd_close(fd)
  PROVE  IInv' /\ (Quiet \/ Closing(fd))
<1>1. CASE ~Closes(fd) /\ Reply(fd_close_error(fd))
  BY <1>1, CloseFacts, ReplyStep
<1>2. CASE Closes(fd) /\ fds' = Without(fd) /\ Closed(fd) /\ UNCHANGED next_fd /\ Succeed
  <2>1. fd \in DOMAIN fds /\ fd \notin BootFd \ 0 .. 2 /\ ~fds[fd].stream
    BY <1>2, CloseFacts DEF Closes
  <2>2. /\ DOMAIN fds' = DOMAIN fds \ {fd}
        /\ \A other \in DOMAIN fds' : fds'[other] = fds[other]
        /\ fds' = [other \in DOMAIN fds' |-> fds'[other]]
    BY <1>2 DEF Without
  <2>3. mlist' = mlist \ {fds[fd].id} /\ ret' = "SUCCESS" /\ next_fd' = next_fd
    BY <1>2 DEF Closed, Succeed
  <2>4. IsVolume(tree', FileMetadata)
    <3>1. fds[fd].file \in Handle
      BY <2>1 DEF IInv, TypeOK, FileDescriptor
    <3>2. tree' = tree \/ tree' = Synced(tree, fds[fd].file)
      BY <1>2 DEF Closed
    <3> QED
      BY <3>1, <3>2, SyncedType DEF IInv, TypeOK
  <2>5. TypeOK'
    BY <2>2, <2>3, <2>4 DEF IInv, TypeOK, Errno
  <2>6. OwnershipInv'
    BY <2>1, <2>2, <2>3 DEF IInv, OwnershipInv
  <2>7. PreopensPinned' /\ StreamsInv' /\ RightsInv'
    BY <2>1, <2>2 DEF IInv, PreopensPinned, StreamsInv, RightsInv
  <2>8. AccessorsSafe'
    BY <2>3 DEF AccessorsSafe
  <2>9. Closing(fd)
    BY <1>2, <2>1, <2>3, OwnedFacts DEF Closing, Pinned
  <2> QED
    BY <2>5, <2>6, <2>7, <2>8, <2>9 DEF IInv
<1> QED
  BY <1>1, <1>2 DEF fd_close

(* fd_renumber answers, and moves no preopened directory and to none.      *)
LEMMA RenumberFacts ==
  ASSUME IInv, NEW fd \in Fd, NEW to \in Fd
  PROVE  /\ fd_renumber_error(fd, to) \in Answer
         /\ fd_renumber_error(fd, to) = "SUCCESS" =>
              /\ fd \in DOMAIN fds \ (BootFd \ 0 .. 2)
              /\ to \notin BootFd \ 0 .. 2
              /\ to \in DOMAIN fds => fds[to].id \in mlist
<1> DEFINE pinned == require_not_preopen(fd)
           closing == fd_close_error(to)
<1>1. pinned \in Errno /\ (pinned = "SUCCESS" => fd \notin BootFd \ 0 .. 2)
  BY ConstantFacts DEF require_not_preopen, Check, Errno, BootFd
<1>2. /\ closing \in Answer
      /\ closing = "SUCCESS" => to \notin BootFd \ 0 .. 2
  BY CloseFacts
<1>3. to \in BootFd \ 0 .. 2 => to \in DOMAIN fds
  BY DEF IInv, PreopensPinned
<1> HIDE DEF pinned
<1>4. fd_renumber_error(fd, to) =
        OrElse(pinned,
        OrElse(Check(fd \in DOMAIN fds, "BADF"),
               IF to \in DOMAIN fds THEN OrElse(closing, Check(to >= 3, "require_emplace"))
               ELSE "SUCCESS"))
  BY DEF fd_renumber_error, pinned
<1>5. to \in DOMAIN fds /\ closing = "SUCCESS" /\ to >= 3 => fds[to].id \in mlist
  BY <1>2, CloseFacts, OwnedFacts DEF Closes, Pinned
<1> HIDE DEF closing
<1> QED
  BY <1>1, <1>2, <1>3, <1>4, <1>5, AnswerFacts DEF OrElse, Check, Errno, Answer

(* fd_renumber keeps the invariant.                                        *)
LEMMA RenumberStep ==
  ASSUME IInv, NEW fd \in Fd, NEW to \in Fd, fd_renumber(fd, to)
  PROVE  IInv' /\ (Quiet \/ Closing(fd) \/ Moving(fd, to))
<1> DEFINE err == fd_renumber_error(fd, to)
<1>1. CASE err # "SUCCESS" /\ Reply(err)
  BY <1>1, RenumberFacts, ReplyStep
<1>2. CASE Reply("use_after_free")
  BY <1>2, ReplyStep DEF Answer
<1>3. CASE /\ err = "SUCCESS"
           /\ fds' = IF to = fd THEN Without(fd) ELSE Put(Without(fd), to, fds[fd])
           /\ IF to \in DOMAIN fds THEN Closed(to) ELSE UNCHANGED <<mlist, tree>>
           /\ UNCHANGED next_fd
           /\ Succeed
  <2>1. /\ fd \in DOMAIN fds \ (BootFd \ 0 .. 2)
        /\ to \notin BootFd \ 0 .. 2
        /\ to \in DOMAIN fds => fds[to].id \in mlist
    BY <1>3, RenumberFacts
  <2>2. /\ DOMAIN fds' = (DOMAIN fds \ {fd}) \cup {n \in {to} : to # fd}
        /\ \A n \in DOMAIN fds' : fds'[n] = IF n = to THEN fds[fd] ELSE fds[n]
        /\ fds' = [n \in DOMAIN fds' |-> fds'[n]]
    <3>1. CASE to = fd
      BY <1>3, <3>1 DEF Without
    <3>2. CASE to # fd
      <4>1. fds' = Put(Without(fd), to, fds[fd])
        BY <1>3, <3>2
      <4>2. /\ DOMAIN Without(fd) = DOMAIN fds \ {fd}
            /\ \A n \in DOMAIN fds \ {fd} : Without(fd)[n] = fds[n]
        BY DEF Without
      <4>3. fds' = [n \in (DOMAIN fds \ {fd}) \cup {to} |->
                      IF n = to THEN fds[fd] ELSE Without(fd)[n]]
        BY <4>1, <4>2 DEF Put
      <4> QED
        BY <3>2, <4>2, <4>3
    <3> QED
      BY <3>1, <3>2
  <2>3. /\ mlist' = IF to \in DOMAIN fds THEN mlist \ {fds[to].id} ELSE mlist
        /\ ret' = "SUCCESS" /\ next_fd' = next_fd
    BY <1>3 DEF Closed, Succeed
  <2>4. IsVolume(tree', FileMetadata)
    <3>1. to \in DOMAIN fds => fds[to].file \in Handle
      BY DEF IInv, TypeOK, FileDescriptor
    <3>2. tree' = tree \/ (to \in DOMAIN fds /\ tree' = Synced(tree, fds[to].file))
      BY <1>3 DEF Closed
    <3> QED
      BY <3>1, <3>2, SyncedType DEF IInv, TypeOK
  <2>5. TypeOK'
    BY <2>1, <2>2, <2>3, <2>4 DEF IInv, TypeOK, Errno
  <2>6. OwnershipInv'
    BY <2>1, <2>2, <2>3 DEF IInv, OwnershipInv
  <2>7. PreopensPinned'
    BY <2>1, <2>2 DEF IInv, PreopensPinned
  <2>8. StreamsInv' /\ RightsInv'
    BY <2>1, <2>2 DEF IInv, StreamsInv, RightsInv
  <2>9. AccessorsSafe'
    BY <2>3 DEF AccessorsSafe
  <2>10. Closing(fd) \/ Moving(fd, to)
    BY <1>3, <2>1, <2>3 DEF Closing, Moving, Pinned
  <2> QED
    BY <2>5, <2>6, <2>7, <2>8, <2>9, <2>10 DEF IInv
<1> QED
  BY <1>1, <1>2, <1>3 DEF fd_renumber

-----------------------------------------------------------------------------
(* Calls on paths.                                                         *)

(* A path resolved from a descriptor is a path.                            *)
LEMMA ResolveType ==
  ASSUME IInv, NEW fd \in DOMAIN fds, NEW path \in LfsPath
  PROVE  resolve_path(fd, path) \in LfsPath /\ resolve_path(fd, path).comps \in Path
<1>1. fds[fd].path \in LfsPath
  BY DEF IInv, TypeOK, FileDescriptor
<1>2. fds[fd].path.comps \o path.comps \in Path
  BY <1>1, ConcatProperties DEF LfsPath, Path
<1> QED
  BY <1>1, <1>2 DEF resolve_path, LfsPath

(* A lookup of a directory that succeeds.                                  *)
LEMMA DirFacts ==
  ASSUME NEW fd, NEW rights
  PROVE  LET err == lookup_fd(fd, "dir", rights, FALSE)
         IN  err \in Errno /\ (err = "SUCCESS" => fd \in DOMAIN fds)
BY DEF lookup_fd, OrElse, Check, Errno

(* Setting the times of an entry leaves a volume.                          *)
LEMMA MetadataType ==
  ASSUME NEW vol, IsVolume(vol, FileMetadata), NEW p \in DOMAIN vol
  PROVE  /\ get_metadata(vol, p) \in FileMetadata
         /\ \A m \in FileMetadata : IsVolume(set_metadata(vol, p, m), FileMetadata)
<1>1. vol[p].attr \in Seq(FileMetadata) /\ Len(vol[p].attr) <= 1
  BY DEF IsVolume, Entry
<1>2. vol[p].attr # <<>> => vol[p].attr[1] \in FileMetadata
  BY <1>1, EmptySeq
<1>3. DefaultMetadata \in FileMetadata
  BY MemFSAssumption DEF DefaultMetadata, FileMetadata
<1>4. \A m \in FileMetadata : <<m>> \in {s \in Seq(FileMetadata) : Len(s) <= 1}
  OBVIOUS
<1>5. \A m \in FileMetadata : [vol[p] EXCEPT !.attr = <<m>>] \in Entry(FileMetadata)
  BY <1>4 DEF IsVolume, Entry
<1>6. ASSUME NEW m \in FileMetadata
      PROVE  IsVolume([vol EXCEPT ![p] = [vol[p] EXCEPT !.attr = <<m>>]], FileMetadata)
  BY <1>5, <1>6 DEF IsVolume
<1>7. \A m : set_metadata(vol, p, m) = [vol EXCEPT ![p] = [vol[p] EXCEPT !.attr = <<m>>]]
  BY DEF set_metadata
<1> QED
  BY <1>2, <1>3, <1>6, <1>7 DEF get_metadata

(* A call that answers, or changes nothing but the tree, keeps the         *)
(* invariant.                                                              *)
LEMMA TreeStep ==
  ASSUME IInv, NEW err \in Answer,
         \/ err # "SUCCESS" /\ Reply(err)
         \/ /\ err = "SUCCESS" /\ IsVolume(tree', FileMetadata)
            /\ UNCHANGED <<fds, next_fd, mlist>> /\ ret' = "SUCCESS"
  PROVE  IInv' /\ Quiet
<1>1. CASE err # "SUCCESS" /\ Reply(err)
  BY <1>1, ReplyStep
<1>2. CASE /\ err = "SUCCESS" /\ IsVolume(tree', FileMetadata)
           /\ UNCHANGED <<fds, next_fd, mlist>> /\ ret' = "SUCCESS"
  <2>1. fds \in [DOMAIN fds -> FileDescriptor]
    BY DEF IInv, TypeOK
  <2>2. \A fd \in DOMAIN fds : Same(fds[fd], fds[fd])
    BY <2>1 DEF Same
  <2>3. ret' \in Answer
    BY <1>2 DEF Answer, Errno
  <2> QED
    BY <1>2, <2>1, <2>2, <2>3, InPlaceStep
<1> QED
  BY <1>1, <1>2

(* path_create_directory keeps the invariant.                              *)
LEMMA MkdirStep ==
  ASSUME IInv, NEW fd, NEW path \in LfsPath, path_create_directory(fd, path)
  PROVE  IInv' /\ Quiet
<1> DEFINE found == lookup_fd(fd, "dir", {"PATH_CREATE_DIRECTORY"}, FALSE)
           to == resolve_path(fd, path)
           err == OrElse(found, from_lfs_error(MkdirError(tree, to.comps, to.slash)))
<1>1. err \in Answer /\ (err = "SUCCESS" => fd \in DOMAIN fds)
  BY DirFacts, LfsErrorFacts, AnswerFacts DEF OrElse
<1>2. \/ err # "SUCCESS" /\ Reply(err)
      \/ /\ err = "SUCCESS"
         /\ tree' = Put(tree, to.comps, NewEntry("dir"))
         /\ UNCHANGED <<fds, next_fd, mlist>> /\ ret' = "SUCCESS"
  BY DEF path_create_directory, Succeed
<1>3. fd \in DOMAIN fds => IsVolume(Put(tree, to.comps, NewEntry("dir")), FileMetadata)
  BY ResolveType, NewEntryType, PutType DEF IInv, TypeOK
<1> HIDE DEF err, to
<1> QED
  BY <1>1, <1>2, <1>3, TreeStep

(* fd_filestat_set_times and path_filestat_set_times keep the invariant.   *)
LEMMA SetTimesStep ==
  ASSUME IInv, NEW found \in Errno, NEW path, NEW atim \in Stamp, NEW mtim \in Stamp,
         NEW fst, set_file_times(found, path, atim, mtim, fst)
  PROVE  IInv' /\ Quiet
<1> DEFINE err == OrElse(found, times_error(fst))
           p == path.comps
<1>1. err \in Answer
  BY AnswerFacts DEF OrElse, times_error, Check, Answer, Errno
<1>2. CASE err # "SUCCESS" /\ Reply(err)
  BY <1>1, <1>2, ReplyStep
<1>3. CASE err = "SUCCESS"
  <2>1. PICK now \in FileMetadata :
          tree' = IF p \notin DOMAIN tree THEN tree
                  ELSE set_metadata(tree, p, Times(get_metadata(tree, p), atim, mtim, fst, now))
    BY <1>3 DEF set_file_times, Reply
  <2>2. \A m \in FileMetadata : Times(m, atim, mtim, fst, now) \in FileMetadata
    BY DEF Times, FileMetadata
  <2>3. IsVolume(tree, FileMetadata)
    BY DEF IInv, TypeOK
  <2>4. IsVolume(tree', FileMetadata)
    BY <2>1, <2>2, <2>3, MetadataType
  <2>5. UNCHANGED <<fds, next_fd, mlist>> /\ ret' = "SUCCESS"
    BY <1>3 DEF set_file_times, Reply, Succeed
  <2> QED
    BY <1>1, <1>3, <2>4, <2>5, TreeStep
<1> QED
  BY <1>2, <1>3 DEF set_file_times

(* Telling every handle of a change of the directory, which leaves it open *)
(* for what it was open for, keeps the invariant.                          *)
LEMMA EntryStep ==
  ASSUME IInv, NEW err \in Answer, NEW handles,
         \A fd \in DOMAIN fds :
           handles[fd] \in Handle /\ handles[fd].flags = fds[fd].file.flags,
         \/ err # "SUCCESS" /\ Reply(err)
         \/ /\ IsVolume(tree', FileMetadata)
            /\ fds' = [fd \in DOMAIN fds |-> [fds[fd] EXCEPT !.file = handles[fd]]]
            /\ UNCHANGED <<next_fd, mlist>> /\ ret' = "SUCCESS"
  PROVE  IInv' /\ Quiet
<1>1. CASE err # "SUCCESS" /\ Reply(err)
  BY <1>1, ReplyStep
<1>2. CASE /\ IsVolume(tree', FileMetadata)
           /\ fds' = [fd \in DOMAIN fds |-> [fds[fd] EXCEPT !.file = handles[fd]]]
           /\ UNCHANGED <<next_fd, mlist>> /\ ret' = "SUCCESS"
  <2>1. \A fd \in DOMAIN fds : fds[fd] \in FileDescriptor
    BY DEF IInv, TypeOK
  <2>2. \A fd \in DOMAIN fds : Same(fds[fd], [fds[fd] EXCEPT !.file = handles[fd]])
    BY <2>1, SameExceptFile
  <2>3. /\ DOMAIN fds' = DOMAIN fds
        /\ \A fd \in DOMAIN fds : fds'[fd] = [fds[fd] EXCEPT !.file = handles[fd]]
        /\ fds' = [fd \in DOMAIN fds |-> fds'[fd]]
    BY <1>2
  <2>4. fds' \in [DOMAIN fds -> FileDescriptor]
    BY <2>2, <2>3 DEF Same
  <2>5. ret' \in Answer
    BY <1>2 DEF Answer, Errno
  <2> QED
    BY <1>2, <2>2, <2>3, <2>4, <2>5, InPlaceStep
<1> QED
  BY <1>1, <1>2

(* A call that removes an entry keeps the invariant.                       *)
LEMMA RemoveStep ==
  ASSUME IInv, NEW fd, NEW path, NEW err \in Answer, RemoveEntry(fd, path, err)
  PROVE  IInv' /\ Quiet
<1> DEFINE p == resolve_path(fd, path).comps
           handles == [other \in DOMAIN fds |-> Unlinked(fds[other].file, p)]
<1>1. \A other \in DOMAIN fds :
        handles[other] \in Handle /\ handles[other].flags = fds[other].file.flags
  BY UnlinkedType DEF IInv, TypeOK, FileDescriptor
<1>2. IsVolume(Removed(tree, p), FileMetadata)
  BY RemovedType DEF IInv, TypeOK
<1>3. \/ err # "SUCCESS" /\ Reply(err)
      \/ /\ tree' = Removed(tree, p)
         /\ fds' = [other \in DOMAIN fds |-> [fds[other] EXCEPT !.file = Unlinked(@, p)]]
         /\ UNCHANGED <<next_fd, mlist>> /\ ret' = "SUCCESS"
  BY DEF RemoveEntry, Succeed
<1>4. fds' = [other \in DOMAIN fds |-> [fds[other] EXCEPT !.file = Unlinked(@, p)]] =>
        fds' = [other \in DOMAIN fds |-> [fds[other] EXCEPT !.file = handles[other]]]
  OBVIOUS
<1> HIDE DEF handles
<1> QED
  BY <1>1, <1>2, <1>3, <1>4, EntryStep

(* path_remove_directory and path_unlink_file keep the invariant.          *)
LEMMA UnlinkStep ==
  ASSUME IInv, NEW fd, NEW path,
         path_remove_directory(fd, path) \/ path_unlink_file(fd, path)
  PROVE  IInv' /\ Quiet
<1> DEFINE to == resolve_path(fd, path)
           removed == from_lfs_error(RemoveError(tree, to.comps))
           rmdir == OrElse(lookup_fd(fd, "dir", {"PATH_REMOVE_DIRECTORY"}, FALSE),
                    OrElse(Check(to.comps \in DOMAIN tree => IsDir(tree, to.comps), "NOTDIR"),
                           removed))
           unlink == OrElse(lookup_fd(fd, "dir", {"PATH_UNLINK_FILE"}, FALSE),
                     OrElse(Check(~IsDir(tree, to.comps), "ISDIR"),
                     OrElse(verify_is_valid_file_path(to), removed)))
<1>1. removed \in Answer
  BY LfsErrorFacts
<1>2. rmdir \in Answer /\ unlink \in Answer
  <2> HIDE DEF removed, to
  <2> QED
    BY <1>1, DirFacts, AnswerFacts
       DEF OrElse, Check, verify_is_valid_file_path, Answer, Errno
<1>3. RemoveEntry(fd, path, rmdir) \/ RemoveEntry(fd, path, unlink)
  BY DEF path_remove_directory, path_unlink_file
<1> HIDE DEF rmdir, unlink
<1> QED
  BY <1>2, <1>3, RemoveStep

(* path_rename keeps the invariant.                                        *)
LEMMA RenameStep ==
  ASSUME IInv, NEW old_fd, NEW old_path \in LfsPath, NEW new_fd, NEW new_path \in LfsPath,
         path_rename(old_fd, old_path, new_fd, new_path)
  PROVE  IInv' /\ Quiet
<1> DEFINE old == resolve_path(old_fd, old_path)
           new == resolve_path(new_fd, new_path)
           valid(path) == IF is_regular_file(old) THEN verify_is_valid_file_path(path)
                          ELSE "SUCCESS"
           found_old == lookup_fd(old_fd, "dir", {"PATH_RENAME_SOURCE"}, FALSE)
           found_new == lookup_fd(new_fd, "dir", {"PATH_RENAME_TARGET"}, FALSE)
           renamed == rename_error(old.comps, new.comps)
           err == OrElse(found_old, OrElse(valid(old),
                  OrElse(found_new, OrElse(valid(new), renamed))))
           handles == [fd \in DOMAIN fds |-> Relinked(fds[fd].file, old.comps, new.comps)]
<1>1. found_old \in Errno /\ found_new \in Errno
      /\ (found_old = "SUCCESS" => old_fd \in DOMAIN fds)
      /\ (found_new = "SUCCESS" => new_fd \in DOMAIN fds)
  BY DirFacts
<1>2. renamed \in Answer
  BY LfsErrorFacts DEF rename_error, Answer, Errno
<1>3. \A path : valid(path) \in Errno
  BY DEF verify_is_valid_file_path, Check, Errno
<1>4. err \in Answer /\ (err = "SUCCESS" => old_fd \in DOMAIN fds /\ new_fd \in DOMAIN fds)
  <2> HIDE DEF found_old, found_new, valid, renamed
  <2> QED
    BY <1>1, <1>2, <1>3, AnswerFacts DEF OrElse
<1>5. \/ err # "SUCCESS" /\ Reply(err)
      \/ /\ err = "SUCCESS"
         /\ tree' = Renamed(tree, old.comps, new.comps)
         /\ fds' = [fd \in DOMAIN fds |->
                      [fds[fd] EXCEPT !.file = Relinked(@, old.comps, new.comps)]]
         /\ UNCHANGED <<next_fd, mlist>> /\ ret' = "SUCCESS"
  BY DEF path_rename, Succeed
<1>6. CASE err # "SUCCESS" /\ Reply(err)
  BY <1>4, <1>6, ReplyStep
<1>7. CASE /\ err = "SUCCESS"
           /\ tree' = Renamed(tree, old.comps, new.comps)
           /\ fds' = [fd \in DOMAIN fds |->
                        [fds[fd] EXCEPT !.file = Relinked(@, old.comps, new.comps)]]
           /\ UNCHANGED <<next_fd, mlist>> /\ ret' = "SUCCESS"
  <2>1. old.comps \in Path /\ new.comps \in Path
    BY <1>4, <1>7, ResolveType
  <2>2. \A fd \in DOMAIN fds :
          handles[fd] \in Handle /\ handles[fd].flags = fds[fd].file.flags
    BY <2>1, RelinkedType DEF IInv, TypeOK, FileDescriptor
  <2>3. IsVolume(tree', FileMetadata)
    BY <1>7, <2>1, RenamedType DEF IInv, TypeOK
  <2>4. fds' = [fd \in DOMAIN fds |-> [fds[fd] EXCEPT !.file = handles[fd]]]
    BY <1>7
  <2>5. UNCHANGED <<next_fd, mlist>> /\ ret' = "SUCCESS"
    BY <1>7
  <2> HIDE DEF handles, err, old, new
  <2> QED
    BY <1>4, <2>2, <2>3, <2>4, <2>5, EntryStep
<1> QED
  BY <1>5, <1>6, <1>7

(* path_open answers, and opens only below an open directory.              *)
LEMMA OpenFacts ==
  ASSUME NEW fd, NEW path, NEW oflags, NEW base
  PROVE  LET err == path_open_error(fd, path, oflags, base)
         IN  /\ err \in Answer
             /\ err = "SUCCESS" =>
                  /\ fd \in DOMAIN fds
                  /\ fds[fd].type = "dir" /\ "PATH_OPEN" \in fds[fd].rights_base
                  /\ resolve_path(fd, path).comps \notin DOMAIN tree =>
                       "DIRECTORY" \notin oflags
<1> DEFINE found == lookup_fd(fd, "dir", required_rights(oflags), FALSE)
           to == resolve_path(fd, path)
           opened == IF "DIRECTORY" \in oflags THEN DirOpenError(tree, to.comps)
                     ELSE FileOpenError(tree, to.comps, to.slash, oflags)
<1>1. /\ found \in Errno
      /\ found = "SUCCESS" =>
           /\ fd \in DOMAIN fds
           /\ fds[fd].type = "dir" /\ required_rights(oflags) \subseteq fds[fd].rights_base
  BY DEF lookup_fd, OrElse, Check, Errno
<1>2. "PATH_OPEN" \in required_rights(oflags)
  BY DEF required_rights
<1>3. opened = "OK" /\ to.comps \notin DOMAIN tree => "DIRECTORY" \notin oflags
  BY DEF DirOpenError, Find
<1> HIDE DEF found, opened
<1>4. path_open_error(fd, path, oflags, base) = OrElse(found, from_lfs_error(opened))
  BY DEF path_open_error, found, opened
<1>5. /\ path_open_error(fd, path, oflags, base) \in Answer
      /\ path_open_error(fd, path, oflags, base) = "SUCCESS" => found = "SUCCESS" /\ opened = "OK"
  BY <1>1, <1>4, LfsErrorFacts, AnswerFacts DEF OrElse
<1> QED
  BY <1>1, <1>2, <1>3, <1>5

(* path_open makes such a descriptor.                                      *)
LEMMA NewDescriptorFacts ==
  ASSUME IInv, NEW id \in Addr, NEW fd \in DOMAIN fds, NEW path \in LfsPath, NEW oflags,
         NEW base \in SUBSET Right, NEW inheriting \in SUBSET Right,
         NEW append \in BOOLEAN
  PROVE  Fresh(NewDescriptor(id, fd, path, oflags, base, inheriting, append), id, fds[fd])
<1> DEFINE desc == NewDescriptor(id, fd, path, oflags, base, inheriting, append)
           to == resolve_path(fd, path)
           rights == rights_granted(fd, oflags, base)
           opened == FileOpened(tree, to.comps, to_lfs_open_flags(oflags, rights))
           isdir == "DIRECTORY" \in oflags
           file == IF isdir THEN NoHandle ELSE opened
<1>1. to \in LfsPath /\ to.comps \in Path
  BY ResolveType
<1>2. /\ rights \in SUBSET Right /\ rights \subseteq fds[fd].rights_inheriting
      /\ isdir => rights \cap WASI_FD_RIGHTS = {}
  BY DEF rights_granted
<1>3. opened \in Handle
  BY <1>1, FileOpenedType DEF IInv, TypeOK
<1>4. /\ "FD_READ" \in rights => "RD" \in opened.flags
      /\ "FD_WRITE" \in rights => "WR" \in opened.flags
  BY DEF FileOpened, to_lfs_open_flags
<1>5. file \in Handle
  BY <1>3, NoHandleType
<1> HIDE DEF to, rights, opened, file
<1>6. desc = [id |-> id, path |-> to, rights_base |-> rights,
              rights_inheriting |-> inheriting, append |-> append, stream |-> FALSE,
              type |-> IF isdir THEN "dir" ELSE "reg", file |-> file]
  BY DEF NewDescriptor, to, rights, opened, file
<1>7. desc.type = "reg" => file = opened
  BY <1>6 DEF file
<1> HIDE DEF desc
<1>8. desc \in FileDescriptor
  BY <1>1, <1>2, <1>5, <1>6 DEF FileDescriptor
<1>9. /\ desc.id = id /\ ~desc.stream /\ desc.rights_base = rights
      /\ desc.file = file /\ (desc.type = "dir" => isdir)
  BY <1>6
<1> QED
  BY <1>2, <1>4, <1>7, <1>8, <1>9 DEF desc, Fresh

(* The number that allocate_fd hands out is a free one.                    *)
LEMMA AllocateFacts ==
  ASSUME IInv, NEW fd, allocate_fd(fd)
  PROVE  fd \in Fd \ DOMAIN fds /\ next_fd' \in P .. MaxFd
BY ConstantFacts DEF allocate_fd, Fd

(* path_open keeps the invariant.                                          *)
LEMMA OpenStep ==
  ASSUME IInv, NEW fd, NEW path \in LfsPath, NEW oflags,
         NEW base \in SUBSET Right, NEW inheriting \in SUBSET Right,
         NEW append \in BOOLEAN,
         path_open(fd, path, oflags, base, inheriting, append)
  PROVE  IInv' /\ (Quiet \/ \E new_fd, id : Opening(new_fd, id, fd))
<1> DEFINE err == path_open_error(fd, path, oflags, base)
           desc(id) == NewDescriptor(id, fd, path, oflags, base, inheriting, append)
           p == resolve_path(fd, path).comps
           made == IF p \in DOMAIN tree THEN tree ELSE Put(tree, p, NewEntry("reg"))
<1>1. CASE err # "SUCCESS" /\ Reply(err)
  BY <1>1, OpenFacts, ReplyStep
<1>2. CASE err = "SUCCESS"
  <2>1. fd \in DOMAIN fds /\ fds[fd].type = "dir" /\ "PATH_OPEN" \in fds[fd].rights_base
    BY <1>2, OpenFacts
  <2>2. PICK id \in Addr \ {fds[other].id : other \in DOMAIN fds}, new_fd \in Fd :
          /\ allocate_fd(new_fd)
          /\ fds' = Put(fds, new_fd, desc(id))
          /\ mlist' = mlist \cup {id}
          /\ tree' = set_metadata(made, p, get_metadata(made, p))
    <3>1. \A id : desc(id).path.comps = p
      BY DEF NewDescriptor
    <3> HIDE DEF desc
    <3> QED
      BY <1>2, <3>1 DEF path_open, desc
  <2>3. new_fd \in Fd \ DOMAIN fds /\ next_fd' \in P .. MaxFd
    BY <2>2, AllocateFacts
  <2>4. Fresh(desc(id), id, fds[fd])
    <3>1. id \in Addr
      BY <2>2
    <3> QED
      BY <2>1, <3>1, NewDescriptorFacts
  <2> HIDE DEF desc
  <2>5. /\ DOMAIN fds' = DOMAIN fds \cup {new_fd}
        /\ fds'[new_fd] = desc(id) /\ \A other \in DOMAIN fds : fds'[other] = fds[other]
        /\ fds' = [other \in DOMAIN fds' |-> fds'[other]]
    BY <2>2, <2>3 DEF Put
  <2>6. ret' = "SUCCESS"
    BY <1>2 DEF path_open, Succeed
  <2>7. IsVolume(tree', FileMetadata)
    <3>1. p \in Path
      BY <2>1, ResolveType
    <3>2. IsVolume(made, FileMetadata) /\ p \in DOMAIN made
      BY <3>1, PutType, NewEntryType DEF IInv, TypeOK, Put
    <3> QED
      BY <2>2, <3>2, MetadataType
  <2>8. TypeOK'
    <3>1. \A other \in DOMAIN fds' : fds'[other] \in FileDescriptor
      BY <2>4, <2>5 DEF IInv, TypeOK, Fresh
    <3> QED
      BY <2>2, <2>3, <2>5, <2>6, <2>7, <3>1 DEF IInv, TypeOK, Errno
  <2>9. OwnershipInv'
    BY <2>2, <2>3, <2>4, <2>5 DEF IInv, OwnershipInv, Fresh
  <2>10. PreopensPinned'
    BY <2>3, <2>5 DEF IInv, PreopensPinned
  <2>11. StreamsInv'
    <3>1. id \notin 0 .. 2
      BY <2>2, ConstantFacts
    <3> QED
      BY <2>3, <2>4, <2>5, <3>1 DEF IInv, StreamsInv, Fresh
  <2>12. RightsInv'
    BY <2>3, <2>4, <2>5 DEF IInv, RightsInv, Fresh
  <2>13. AccessorsSafe'
    BY <2>6 DEF AccessorsSafe
  <2>14. Opening(new_fd, id, fd)
    BY <2>1, <2>2, <2>3, <2>4 DEF Opening
  <2> QED
    BY <2>8, <2>9, <2>10, <2>11, <2>12, <2>13, <2>14 DEF IInv
<1> QED
  BY <1>1, <1>2 DEF path_open

-----------------------------------------------------------------------------
(* Every step.                                                             *)

TableStep ==
  \/ Quiet
  \/ \E fd \in Fd : Closing(fd)
  \/ \E fd, to \in Fd : Moving(fd, to)
  \/ \E fd, id, dir : Opening(fd, id, dir)

(* The arguments of the calls have their types.                            *)
LEMMA ArgumentFacts ==
  /\ FdArg \subseteq Fd /\ ToArg \subseteq Fd
  /\ PathArg \subseteq LfsPath /\ EntryArg \subseteq LfsPath
  /\ AppendArg \subseteq BOOLEAN /\ OffsetArg \subseteq Int
  /\ \A rights \in RightsArg : rights.base \in SUBSET Right /\ rights.inheriting \in SUBSET Right
BY MemFSAssumption

(* A call on a descriptor keeps the invariant.                             *)
LEMMA DescriptorCallStep ==
  ASSUME IInv, NEW fd \in FdArg, DescriptorCall(fd)
  PROVE  IInv' /\ TableStep
<1>1. CASE fd_close(fd)
  BY <1>1, ArgumentFacts, CloseStep DEF TableStep
<1>2. CASE \E to \in ToArg : fd_renumber(fd, to)
  BY <1>2, ArgumentFacts, RenumberStep DEF TableStep
<1>3. CASE \E append \in AppendArg : fd_fdstat_set_flags(fd, append)
  BY <1>3, ArgumentFacts, SetFlagsStep DEF TableStep
<1>4. CASE \E rights \in RightsArg : fd_fdstat_set_rights(fd, rights.base, rights.inheriting)
  BY <1>4, ArgumentFacts, SetRightsStep DEF TableStep
<1>5. CASE fd_advise(fd) \/ fd_datasync(fd) \/ fd_sync(fd) \/ fd_fdstat_get(fd)
  BY <1>5, LookupStep DEF TableStep
<1>6. CASE fd_filestat_get(fd)
  BY <1>6, FilestatStep DEF TableStep
<1>7. CASE fd_prestat_get(fd) \/ \E fits \in BOOLEAN : fd_prestat_dir_name(fd, fits)
  BY <1>7, PrestatStep, TRUE \in BOOLEAN DEF TableStep
<1> QED
  BY <1>1, <1>2, <1>3, <1>4, <1>5, <1>6, <1>7 DEF DescriptorCall

(* A call on an open file keeps the invariant.                             *)
LEMMA FileCallStep ==
  ASSUME IInv, NEW fd \in FdArg, FileCall(fd)
  PROVE  IInv' /\ TableStep
<1>1. CASE \E offset, len \in OffsetArg : fd_allocate(fd, offset, len)
  BY <1>1, ArgumentFacts, AllocateStep DEF TableStep
<1>2. CASE \E size \in OffsetArg : fd_filestat_set_size(fd, size)
  BY <1>2, ArgumentFacts, SetSizeStep DEF TableStep
<1>3. CASE \E iovs \in IovsArg : fd_read(fd, iovs)
  BY <1>3, ReadStep DEF TableStep
<1>4. CASE \E iovs \in IovsArg : fd_write(fd, iovs)
  BY <1>4, WriteStep DEF TableStep
<1>5. CASE \E iovs \in IovsArg, offset \in OffsetArg : fd_pread(fd, iovs, offset)
  BY <1>5, ArgumentFacts, PreadStep DEF TableStep
<1>6. CASE \E iovs \in IovsArg, offset \in OffsetArg : fd_pwrite(fd, iovs, offset)
  BY <1>6, ArgumentFacts, PwriteStep DEF TableStep
<1>7. CASE \E offset \in OffsetArg, whence \in {"SET", "CUR", "END", "?"} :
             fd_seek(fd, offset, whence)
  BY <1>7, ArgumentFacts, SeekStep DEF TableStep
<1>8. CASE fd_tell(fd)
  BY <1>8, SeekStep DEF TableStep, fd_tell
<1>9. CASE \E atim, mtim \in Stamp, fst \in FstArg : fd_filestat_set_times(fd, atim, mtim, fst)
  BY <1>9, LookupFacts, SetTimesStep DEF TableStep, fd_filestat_set_times
<1> QED
  BY <1>1, <1>2, <1>3, <1>4, <1>5, <1>6, <1>7, <1>8, <1>9 DEF FileCall

(* A call on a path to open or to look at keeps the invariant.             *)
LEMMA PathCallStep ==
  ASSUME IInv, NEW fd \in FdArg, NEW path \in PathArg, PathCall(fd, path)
  PROVE  IInv' /\ TableStep
<1>1. CASE \E oflags \in OflagsArg, rights \in RightsArg, append \in AppendArg :
             path_open(fd, path, oflags, rights.base, rights.inheriting, append)
  BY <1>1, ArgumentFacts, OpenStep DEF TableStep
<1>2. CASE path_filestat_get(fd, path)
  BY <1>2, FilestatStep DEF TableStep
<1>3. CASE \E atim, mtim \in Stamp, fst \in FstArg :
             path_filestat_set_times(fd, path, atim, mtim, fst)
  BY <1>3, DirFacts, SetTimesStep DEF TableStep, path_filestat_set_times
<1> QED
  BY <1>1, <1>2, <1>3 DEF PathCall

(* A call on an entry of a directory keeps the invariant.                  *)
LEMMA EntryCallStep ==
  ASSUME IInv, NEW fd \in FdArg, NEW path \in EntryArg, EntryCall(fd, path)
  PROVE  IInv' /\ TableStep
<1>1. CASE path_create_directory(fd, path)
  BY <1>1, ArgumentFacts, MkdirStep DEF TableStep
<1>2. CASE path_remove_directory(fd, path) \/ path_unlink_file(fd, path)
  BY <1>2, UnlinkStep DEF TableStep
<1>3. CASE \E new_fd \in FdArg, new_path \in EntryArg :
             path_rename(fd, path, new_fd, new_path)
  BY <1>3, ArgumentFacts, RenameStep DEF TableStep
<1> QED
  BY <1>1, <1>2, <1>3 DEF EntryCall

(* The invariant is inductive, and the table changes in no other way.      *)
LEMMA NextIInv == IInv /\ [Next]_vars => IInv' /\ TableStep
<1> SUFFICES ASSUME IInv, [Next]_vars PROVE IInv' /\ TableStep
  OBVIOUS
<1>1. ASSUME NEW fd \in FdArg, DescriptorCall(fd) PROVE IInv' /\ TableStep
  BY <1>1, DescriptorCallStep
<1>2. ASSUME NEW fd \in FdArg, FileCall(fd) PROVE IInv' /\ TableStep
  BY <1>2, FileCallStep
<1>3. ASSUME NEW fd \in FdArg, NEW path \in PathArg, PathCall(fd, path)
      PROVE  IInv' /\ TableStep
  BY <1>3, PathCallStep
<1>4. ASSUME NEW fd \in FdArg, NEW path \in EntryArg, EntryCall(fd, path)
      PROVE  IInv' /\ TableStep
  BY <1>4, EntryCallStep
<1>5. CASE UnsupportedCall
  BY <1>5, UnsupportedStep DEF TableStep
<1>6. CASE UNCHANGED vars
  <2>1. UNCHANGED <<fds, next_fd, mlist, tree, ret>>
    BY <1>6 DEF vars
  <2>2. IInv'
    BY <2>1 DEF IInv, TypeOK, OwnershipInv, PreopensPinned, StreamsInv, RightsInv,
                AccessorsSafe
  <2>3. Quiet
    BY <2>1 DEF Quiet
  <2> QED
    BY <2>2, <2>3 DEF TableStep
<1> QED
  BY <1>1, <1>2, <1>3, <1>4, <1>5, <1>6 DEF Next

-----------------------------------------------------------------------------
(* The theorems.                                                           *)

(* The inductive invariant always holds.                                   *)
THEOREM Invariance == Spec => []IInv
<1>1. Init => IInv
  BY InitIInv
<1>2. IInv /\ [Next]_vars => IInv'
  BY NextIInv
<1> QED
  BY <1>1, <1>2, PTL DEF Spec

(* The variables of memfs.cc always have their types.                      *)
THEOREM TypeCorrectness == Spec => []TypeOK
<1>1. IInv => TypeOK
  BY DEF IInv
<1> QED
  BY <1>1, Invariance, PTL

(* One owner per descriptor, and littlefs has open what the table has.     *)
THEOREM Ownership == Spec => []OwnershipInv
<1>1. IInv => OwnershipInv
  BY DEF IInv
<1> QED
  BY <1>1, Invariance, PTL

(* fd_close and fd_renumber leave the preopened directories where they are.*)
THEOREM PreopensStay == Spec => []PreopensPinned
<1>1. IInv => PreopensPinned
  BY DEF IInv
<1> QED
  BY <1>1, Invariance, PTL

(* No call reaches file(), dir() or an assertion of littlefs on reading    *)
(* and writing in a state that fails it.                                   *)
THEOREM AccessorSafety == Spec => []AccessorsSafe
<1>1. IInv => AccessorsSafe
  BY DEF IInv
<1> QED
  BY <1>1, Invariance, PTL

(* The right to read or write comes with a handle opened for it.           *)
THEOREM RightsMatchHandles == Spec => []RightsInv
<1>1. IInv => RightsInv
  BY DEF IInv
<1> QED
  BY <1>1, Invariance, PTL

-----------------------------------------------------------------------------
(* RightsAttenuate, as the relation between two states that it is.         *)
Attenuates ==
  \A new \in DOMAIN fds' :
    LET desc == fds'[new]
    IN  IF \E fd \in DOMAIN fds : fds[fd].id = desc.id
        THEN \A fd \in DOMAIN fds : fds[fd].id = desc.id =>
               /\ desc.rights_base \subseteq fds[fd].rights_base
               /\ desc.rights_inheriting \subseteq fds[fd].rights_inheriting
        ELSE \E fd \in DOMAIN fds :
               /\ fds[fd].type = "dir" /\ "PATH_OPEN" \in fds[fd].rights_base
               /\ desc.rights_base \subseteq fds[fd].rights_inheriting

(* No descriptor gains rights: fd_fdstat_set_rights only takes some away,  *)
(* fd_renumber takes them along, and path_open hands on those of an open   *)
(* directory.                                                              *)
THEOREM RightsOnlyShrink == Spec => RightsAttenuate
<1>1. ASSUME IInv, TableStep PROVE Attenuates
  <2>1. \A fd, other \in DOMAIN fds : fds[fd].id = fds[other].id => fd = other
    BY <1>1 DEF IInv, OwnershipInv
  <2>2. CASE Quiet
    BY <2>1, <2>2 DEF Quiet, Attenuates
  <2>3. ASSUME NEW fd \in Fd, Closing(fd) PROVE Attenuates
    BY <2>1, <2>3 DEF Closing, Without, Attenuates
  <2>4. ASSUME NEW fd \in Fd, NEW to \in Fd, Moving(fd, to) PROVE Attenuates
    <3>1. /\ fd \in DOMAIN fds
          /\ \A new \in DOMAIN fds' :
               \E old \in DOMAIN fds : fds'[new] = fds[old]
      BY <2>4 DEF Moving, Put, Without
    <3> QED
      BY <2>1, <3>1 DEF Attenuates
  <2>5. ASSUME NEW fd, NEW id, NEW dir, Opening(fd, id, dir) PROVE Attenuates
    <3>1. PICK desc : Fresh(desc, id, fds[dir]) /\ fds' = Put(fds, fd, desc)
      BY <2>5 DEF Opening
    <3>2. /\ dir \in DOMAIN fds /\ fds[dir].type = "dir"
          /\ "PATH_OPEN" \in fds[dir].rights_base
          /\ desc.id = id /\ desc.rights_base \subseteq fds[dir].rights_inheriting
          /\ \A other \in DOMAIN fds : fds[other].id # id
      BY <2>5, <3>1 DEF Opening, Fresh
    <3>3. /\ DOMAIN fds' = DOMAIN fds \cup {fd} /\ fds'[fd] = desc
          /\ \A other \in DOMAIN fds \ {fd} : fds'[other] = fds[other]
      BY <3>1 DEF Put
    <3> QED
      BY <2>1, <3>2, <3>3 DEF Attenuates
  <2> QED
    BY <1>1, <2>2, <2>3, <2>4, <2>5 DEF TableStep
<1>2. IInv /\ [Next]_vars => [Attenuates]_vars
  BY <1>1, NextIInv
<1>3. [][Attenuates]_vars <=> RightsAttenuate
  BY PTL DEF Attenuates, RightsAttenuate
<1> QED
  BY <1>2, <1>3, Invariance, PTL DEF Spec

-----------------------------------------------------------------------------
(* The table of the implementation starts as that of the specification.    *)
LEMMA TableInit == Init => Table!Init
<1> SUFFICES ASSUME Init PROVE Table!Init
  OBVIOUS
<1>1. DOMAIN fds = BootFd /\ \A fd \in BootFd : fds[fd].id = fd
  BY DEF Init, InitialFds, make_preopen_fd, make_stream_fd
<1>2. [fd \in DOMAIN fds |-> fds[fd].id] = [fd \in BootFd |-> fd]
  BY <1>1
<1> QED
  BY <1>2 DEF Table!Init, Init

(* Every change of the table is one of the specification, or none.         *)
LEMMA TableNext ==
  ASSUME IInv, TableStep
  PROVE  [Table!Next]_<<[fd \in DOMAIN fds |-> fds[fd].id], mlist>>
<1> DEFINE table == [fd \in DOMAIN fds |-> fds[fd].id]
<1>1. CASE Quiet
  BY <1>1 DEF Quiet
<1>2. ASSUME NEW fd \in Fd, Closing(fd) PROVE Table!Close(fd)
  BY <1>2 DEF Closing, Without, Pinned, Table!Close, Table!Drop, Table!Keep
<1>3. ASSUME NEW fd \in Fd, NEW to \in Fd, Moving(fd, to) PROVE Table!Move(fd, to)
  BY <1>3 DEF Moving, Without, Put, Pinned, Table!Move, Table!Drop, Table!Keep, Table!Enter
<1>4. ASSUME NEW fd, NEW id, NEW dir, Opening(fd, id, dir) PROVE Table!Open(fd, id)
  BY <1>4 DEF IInv, OwnershipInv, Opening, Fresh, Put, Table!Open, Table!Enter
<1>5. ASSUME NEW fd, NEW id, NEW dir, Opening(fd, id, dir) PROVE fd \in Fd /\ id \in Addr
  BY <1>5 DEF Opening
<1> QED
  BY <1>1, <1>2, <1>3, <1>4, <1>5 DEF TableStep, Table!Next

(* memfs.cc implements DescriptorTable, with mlist as what is open.        *)
THEOREM Refinement == Spec => TableSpec
<1>1. Init => Table!Init
  BY TableInit
<1>2. IInv /\ [Next]_vars => [Table!Next]_<<[fd \in DOMAIN fds |-> fds[fd].id], mlist>>
  BY NextIInv, TableNext
<1> QED
  BY <1>1, <1>2, Invariance, PTL DEF Spec, TableSpec, Table!Spec
=============================================================================
