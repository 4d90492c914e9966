------------------------- MODULE MemFS_tree_proofs -------------------------
(***************************************************************************)
(* Proofs about the volume behind MemFS, for every choice of its constants.*)
(* That the tree keeps its shape is no property of the tree alone: a sync  *)
(* writes where its handle says, so it depends on handles being attached   *)
(* to regular files only; what a sync may overwrite depends in turn on     *)
(* which handles can be dirty.  The three are proved together, on top of   *)
(* the invariant of the descriptor table.                                  *)
(***************************************************************************)
EXTENDS MemFS_proofs, LittleFS_tree_proofs

TreeInv == Nested(tree) /\ AttachedHandles /\ PendingOnlyTruncation

(* CommitsOwnCopy and TimesKept, as the relations between two states that  *)
(* they are, and what WritesAreFlushed follows from.                       *)
Flushes ==
  \A fd \in DOMAIN fds \cap DOMAIN fds' :
    LET h == fds'[fd].file
    IN  fds'[fd].id = fds[fd].id /\ h.data # fds[fd].file.data =>
          h.at = Detached \/ tree'[h.at].data = h.data

Commits ==
  \A p \in DOMAIN tree \cap DOMAIN tree' :
    tree'[p].data # tree[p].data =>
      \/ \E fd \in DOMAIN fds :
           /\ fds[fd].file.at = p
           /\ \/ \E new \in DOMAIN fds' :
                   fds'[new].id = fds[fd].id /\ tree'[p].data = fds'[new].file.data
              \/ /\ \A new \in DOMAIN fds' : fds'[new].id # fds[fd].id
                 /\ tree'[p].data = fds[fd].file.data
      \/ \E old \in DOMAIN tree \ DOMAIN tree' : tree'[p].data = tree[old].data

Keeps ==
  \A p \in DOMAIN tree \cap DOMAIN tree' :
    tree[p].attr # <<>> /\ tree'[p].attr # tree[p].attr =>
      \/ tree' = [tree EXCEPT ![p].attr = tree'[p].attr] /\ fds' = fds
      \/ \E old \in DOMAIN tree \ DOMAIN tree' : tree'[p] = tree[old]

Lawful == Flushes /\ Commits /\ Keeps

-----------------------------------------------------------------------------
(* A descriptor, and what its handle has of a file, as it was.             *)
SameCopy(desc, new) ==
  /\ new.id = desc.id
  /\ new.file.at = desc.file.at /\ new.file.data = desc.file.data
  /\ new.file.dirty = desc.file.dirty

(* A number that has a copy of an old descriptor under the number's old id *)
(* has its own.                                                            *)
LEMMA OwnCopy ==
  ASSUME IInv, NEW fd \in DOMAIN fds \cap DOMAIN fds',
         fds'[fd].id = fds[fd].id,
         \E other \in DOMAIN fds : SameCopy(fds[other], fds'[fd])
  PROVE  fds'[fd].file.data = fds[fd].file.data
BY DEF IInv, OwnershipInv, SameCopy

(* A step that leaves the tree, and what the handles have of it, is lawful.*)
LEMMA StillTree ==
  ASSUME IInv, TreeInv, tree' = tree,
         \A new \in DOMAIN fds' : \E fd \in DOMAIN fds : SameCopy(fds[fd], fds'[new])
  PROVE  TreeInv' /\ Lawful
<1>1. Nested(tree')
  BY DEF TreeInv
<1>2. AttachedHandles' /\ PendingOnlyTruncation'
  BY DEF TreeInv, AttachedHandles, PendingOnlyTruncation, SameCopy
<1>3. Flushes
  BY OwnCopy DEF Flushes
<1>4. Commits /\ Keeps
  BY DEF Commits, Keeps
<1> QED
  BY <1>1, <1>2, <1>3, <1>4 DEF TreeInv, Lawful

(* The types that the lemmas about volumes ask for.                        *)
LEMMA VolumeFacts ==
  ASSUME IInv
  PROVE  /\ IsVolume(tree, FileMetadata) /\ DOMAIN tree \subseteq Path
         /\ \A fd \in DOMAIN fds : fds[fd].file \in Handle
BY DEF IInv, TypeOK, IsVolume, FileDescriptor

(* A handle that is synced stores what it changed, and is clean afterwards *)
(* unless its file is gone.                                                *)
LEMMA SyncTree ==
  ASSUME IInv, TreeInv, NEW fd \in DOMAIN fds, NEW h, Advances(fds[fd].file, h),
         Synchronise(fd, h)
  PROVE  TreeInv' /\ Lawful
<1>1. fds' = [fds EXCEPT ![fd].file = Clean(h)] /\ tree' = Synced(tree, h)
  BY DEF Synchronise
<1>2. fds[fd] \in FileDescriptor
  BY DEF IInv, TypeOK
<1>3. /\ Clean(h).at = h.at /\ Clean(h).data = h.data /\ (Clean(h).dirty => h.at = Detached)
      /\ h.at = fds[fd].file.at /\ (h.data # fds[fd].file.data => h.dirty)
  <2>1. {"at", "data", "dirty"} \subseteq DOMAIN h
    BY VolumeFacts DEF Advances, Handle
  <2> QED
    BY <2>1 DEF Clean, Advances
<1>4. /\ DOMAIN fds' = DOMAIN fds
      /\ fds'[fd].id = fds[fd].id /\ fds'[fd].file = Clean(h)
      /\ \A other \in DOMAIN fds \ {fd} : fds'[other] = fds[other]
  BY <1>1, <1>2 DEF FileDescriptor
<1>5. h.at # Detached => IsReg(tree, h.at)
  BY <1>3 DEF TreeInv, AttachedHandles
<1>6. /\ Nested(tree') /\ DOMAIN tree' = DOMAIN tree
      /\ \A p \in DOMAIN tree :
           /\ tree'[p].type = tree[p].type
           /\ tree'[p].attr = tree[p].attr
           /\ tree'[p].data = IF h.dirty /\ h.at # Detached /\ p = h.at
                              THEN h.data ELSE tree[p].data
  BY <1>1, <1>5, SyncedFacts, VolumeFacts DEF TreeInv
<1>7. AttachedHandles'
  BY <1>3, <1>4, <1>6 DEF TreeInv, AttachedHandles, IsReg
<1>8. PendingOnlyTruncation'
  BY <1>3, <1>4 DEF TreeInv, PendingOnlyTruncation
<1>9. Flushes
  BY <1>3, <1>4, <1>5, <1>6 DEF Flushes, IsReg
<1>10. Commits
  BY <1>3, <1>4, <1>6 DEF Commits
<1>11. Keeps
  BY <1>6 DEF Keeps
<1> QED
  BY <1>6, <1>7, <1>8, <1>9, <1>10, <1>11 DEF TreeInv, Lawful

(* A descriptor that is freed stores what its handle had left to store.    *)
LEMMA FreeTree ==
  ASSUME IInv, TreeInv, NEW gone \in DOMAIN fds, tree' = Synced(tree, fds[gone].file),
         \A new \in DOMAIN fds' : \E fd \in DOMAIN fds \ {gone} : fds'[new] = fds[fd]
  PROVE  TreeInv' /\ Lawful
<1> DEFINE h == fds[gone].file
<1>1. h \in Handle /\ (h.at # Detached => IsReg(tree, h.at))
  BY VolumeFacts DEF TreeInv, AttachedHandles
<1>2. /\ Nested(tree') /\ DOMAIN tree' = DOMAIN tree
      /\ \A p \in DOMAIN tree :
           /\ tree'[p].type = tree[p].type
           /\ tree'[p].attr = tree[p].attr
           /\ tree'[p].data = IF h.dirty /\ h.at # Detached /\ p = h.at
                              THEN h.data ELSE tree[p].data
  BY <1>1, SyncedFacts, VolumeFacts DEF TreeInv
<1>3. \A new \in DOMAIN fds' : fds'[new].id # fds[gone].id
  BY DEF IInv, OwnershipInv
<1>4. AttachedHandles'
  BY <1>2 DEF TreeInv, AttachedHandles, IsReg
<1>5. PendingOnlyTruncation'
  BY DEF TreeInv, PendingOnlyTruncation
<1>6. Flushes
  BY OwnCopy DEF Flushes, SameCopy
<1>7. Commits
  BY <1>2, <1>3 DEF Commits
<1>8. Keeps
  BY <1>2 DEF Keeps
<1> QED
  BY <1>2, <1>4, <1>5, <1>6, <1>7, <1>8 DEF TreeInv, Lawful

-----------------------------------------------------------------------------
(* Calls that leave tree and handles as they are.                          *)
LEMMA ReplyTree ==
  ASSUME IInv, TreeInv, NEW code, Reply(code)
  PROVE  TreeInv' /\ Lawful
<1>1. fds' = fds /\ tree' = tree
  BY DEF Reply
<1> QED
  BY <1>1, StillTree DEF SameCopy

(* fd_fdstat_set_flags and fd_fdstat_set_rights leave the handles alone.   *)
LEMMA SetFlagsTree ==
  ASSUME IInv, TreeInv, NEW fd, NEW append, fd_fdstat_set_flags(fd, append)
  PROVE  TreeInv' /\ Lawful
<1> DEFINE err == lookup_fd(fd, "any", {"FD_FDSTAT_SET_FLAGS"}, TRUE)
<1>1. CASE err # "SUCCESS"
  BY <1>1, ReplyTree DEF fd_fdstat_set_flags
<1>2. CASE err = "SUCCESS"
  <2>1. fds' = [fds EXCEPT ![fd].append = append] /\ tree' = tree
    BY <1>2 DEF fd_fdstat_set_flags, Reply
  <2>2. \A other \in DOMAIN fds : fds[other] \in FileDescriptor
    BY DEF IInv, TypeOK
  <2>3. \A other \in DOMAIN fds' : SameCopy(fds[other], fds'[other])
    BY <2>1, <2>2 DEF SameCopy, FileDescriptor
  <2>4. DOMAIN fds' = DOMAIN fds
    BY <2>1
  <2> QED
    BY <2>1, <2>3, <2>4, StillTree
<1> QED
  BY <1>1, <1>2

(* fd_fdstat_set_rights touches no file.                                   *)
LEMMA SetRightsTree ==
  ASSUME IInv, TreeInv, NEW fd, NEW base, NEW inheriting,
         fd_fdstat_set_rights(fd, base, inheriting)
  PROVE  TreeInv' /\ Lawful
<1> DEFINE err == set_rights_error(fd, base, inheriting)
<1>1. CASE err # "SUCCESS"
  BY <1>1, ReplyTree DEF fd_fdstat_set_rights
<1>2. CASE err = "SUCCESS"
  <2>1. /\ fds' = [fds EXCEPT ![fd].rights_base = base,
                              ![fd].rights_inheriting = inheriting]
        /\ tree' = tree
    BY <1>2 DEF fd_fdstat_set_rights, Reply
  <2>2. \A other \in DOMAIN fds : fds[other] \in FileDescriptor
    BY DEF IInv, TypeOK
  <2>3. DOMAIN fds' = DOMAIN fds
    BY <2>1
  <2>4. \A other \in DOMAIN fds : SameCopy(fds[other], fds'[other])
    BY <2>1, <2>2 DEF SameCopy, FileDescriptor
  <2> QED
    BY <2>1, <2>3, <2>4, StillTree
<1> QED
  BY <1>1, <1>2

(* fd_seek, and fd_tell by it, move a handle's position only.              *)
LEMMA SeekTree ==
  ASSUME IInv, TreeInv, NEW fd, NEW offset, NEW whence, fd_seek(fd, offset, whence)
  PROVE  TreeInv' /\ Lawful
<1>1. CASE \E err : Reply(err)
  BY <1>1, ReplyTree
<1>2. CASE /\ fds' = [fds EXCEPT ![fd].file = FileSought(@, lfs_soff_t(offset), whence)]
           /\ tree' = tree
  <2>1. \A other \in DOMAIN fds : fds[other] \in FileDescriptor
    BY DEF IInv, TypeOK
  <2>2. \A other \in DOMAIN fds : LET h == FileSought(fds[other].file, lfs_soff_t(offset), whence)
                                  IN  /\ h.at = fds[other].file.at
                                      /\ h.data = fds[other].file.data
                                      /\ h.dirty = fds[other].file.dirty
    BY VolumeFacts DEF FileSought, Handle
  <2>3. DOMAIN fds' = DOMAIN fds
    BY <1>2
  <2>4. \A other \in DOMAIN fds : SameCopy(fds[other], fds'[other])
    BY <1>2, <2>1, <2>2 DEF SameCopy, FileDescriptor
  <2> QED
    BY <1>2, <2>3, <2>4, StillTree
<1> QED
  BY <1>1, <1>2 DEF fd_seek

-----------------------------------------------------------------------------
(* Calls on open files.                                                    *)

(* A file that passes is in the table.                                     *)
LEMMA FileFacts ==
  ASSUME IInv, NEW fd, NEW rights, FileError(fd, rights) = "SUCCESS"
  PROVE  fd \in DOMAIN fds /\ fds[fd].file \in Handle
<1>1. lookup_fd(fd, "any", rights, FALSE) = "SUCCESS"
  BY DEF FileError, OrElse
<1> QED
  BY <1>1, LookupFacts, VolumeFacts

(* A call that answers, or advances a handle and syncs it, is lawful.      *)
LEMMA FileTree ==
  ASSUME IInv, TreeInv, NEW fd, NEW err, NEW h,
         err = "SUCCESS" => fd \in DOMAIN fds /\ Advances(fds[fd].file, h),
         \/ err # "SUCCESS" /\ Reply(err)
         \/ err = "SUCCESS" /\ Synchronise(fd, h)
  PROVE  TreeInv' /\ Lawful
BY ReplyTree, SyncTree

(* fd_allocate and fd_filestat_set_size are lawful,                        *)
LEMMA AllocateTree ==
  ASSUME IInv, TreeInv, NEW fd, NEW offset \in Int, NEW len \in Int,
         fd_allocate(fd, offset, len)
  PROVE  TreeInv' /\ Lawful
<1> DEFINE size == lfs_off_t((offset + len) % (Word * Word))
           h == FileTruncated(fds[fd].file, size)
<1>1. CASE \E err : Reply(err)
  BY <1>1, ReplyTree
<1>2. CASE Synchronise(fd, h) /\ FileError(fd, {"FD_ALLOCATE"}) = "SUCCESS"
  <2>1. size \in Nat
    BY SizeType, \A m \in Nat : m \in Int
  <2>2. fd \in DOMAIN fds /\ fds[fd].file \in Handle
    BY <1>2, FileFacts
  <2> HIDE DEF size
  <2>3. Advances(fds[fd].file, h)
    BY <2>1, <2>2, FileAdvances
  <2> QED
    BY <1>2, <2>2, <2>3, SyncTree
<1>3. (\E err : Reply(err)) \/ (Synchronise(fd, h) /\ FileError(fd, {"FD_ALLOCATE"}) = "SUCCESS")
  BY DEF fd_allocate, OrElse
<1> QED
  BY <1>1, <1>2, <1>3

(* fd_filestat_set_size resizes a file and stores it.                      *)
LEMMA SetSizeTree ==
  ASSUME IInv, TreeInv, NEW fd, NEW size \in Int, fd_filestat_set_size(fd, size)
  PROVE  TreeInv' /\ Lawful
<1> DEFINE err == OrElse(FileError(fd, {"FD_FILESTAT_SET_SIZE"}),
                         TruncateError(fd, lfs_off_t(size)))
           h == FileTruncated(fds[fd].file, lfs_off_t(size))
<1>1. err = "SUCCESS" => fd \in DOMAIN fds /\ Advances(fds[fd].file, h)
  BY SizeType, FileFacts, FileAdvances DEF OrElse
<1>2. \/ err # "SUCCESS" /\ Reply(err)
      \/ err = "SUCCESS" /\ Synchronise(fd, h)
  BY DEF fd_filestat_set_size
<1> HIDE DEF err, h
<1> QED
  BY <1>1, <1>2, FileTree

(* and so are reads                                                        *)
LEMMA ReadAdvances ==
  ASSUME NEW h \in Handle, NEW iovs
  PROVE  Advances(h, AfterRead(h, iovs))
BY FileAdvances DEF AfterRead

(* fd_read is a read of one file, which is synced all the same.            *)
LEMMA ReadTree ==
  ASSUME IInv, TreeInv, NEW fd, NEW iovs, fd_read(fd, iovs)
  PROVE  TreeInv' /\ Lawful
<1> DEFINE err == OrElse(FileError(fd, {"FD_READ"}), ReadError(fd, iovs))
           h == AfterRead(fds[fd].file, iovs)
<1>1. err = "SUCCESS" => fd \in DOMAIN fds /\ Advances(fds[fd].file, h)
  BY FileFacts, ReadAdvances DEF OrElse
<1>2. \/ err # "SUCCESS" /\ Reply(err)
      \/ err = "SUCCESS" /\ Synchronise(fd, h)
  BY DEF fd_read
<1> HIDE DEF err, h
<1> QED
  BY <1>1, <1>2, FileTree

(* fd_pread seeks, reads and seeks back on one handle.                     *)
LEMMA PreadTree ==
  ASSUME IInv, TreeInv, NEW fd, NEW iovs, NEW offset, fd_pread(fd, iovs, offset)
  PROVE  TreeInv' /\ Lawful
<1> DEFINE file == fds[fd].file
           found == FileError(fd, {"FD_READ"})
           sought == SeekError(fd, offset, "SET")
           err == OrElse(found, OrElse(sought, ReadError(fd, iovs)))
           moved == FileSought(file, lfs_soff_t(offset), "SET")
           h == [AfterRead(moved, iovs) EXCEPT !.pos = file.pos]
<1>1. err = "SUCCESS" => found = "SUCCESS" /\ sought = "SUCCESS"
  BY DEF OrElse
<1>2. ASSUME found = "SUCCESS", sought = "SUCCESS"
      PROVE  fd \in DOMAIN fds /\ Advances(file, h)
  <2>1. fd \in DOMAIN fds /\ file \in Handle /\ "pos" \in DOMAIN file
    BY <1>2, FileFacts DEF Handle
  <2>2. moved \in Handle /\ Advances(file, moved)
    BY <1>2, <2>1, SeekFacts, FileAdvances
  <2>3. Advances(moved, AfterRead(moved, iovs))
    BY <2>2, ReadAdvances
  <2> HIDE DEF moved, file
  <2> QED
    BY <2>1, <2>2, <2>3, AdvancesOn
<1>3. \/ err # "SUCCESS" /\ Reply(err)
      \/ err = "SUCCESS" /\ Synchronise(fd, h)
  BY DEF fd_pread
<1> HIDE DEF err, h, found, sought
<1> QED
  BY <1>1, <1>2, <1>3, FileTree

(* and writes.                                                             *)
LEMMA WriteAdvances ==
  ASSUME NEW h \in Handle, NEW iovs \in IovsArg
  PROVE  Advances(h, AfterWrite(h, iovs))
<1>1. iovs # <<>> => iovs[1] \in Data
  BY MemFSAssumption, EmptySeq
<1> QED
  BY <1>1, FileAdvances DEF AfterWrite

(* fd_pwrite seeks, writes and seeks back on one handle, and stores.       *)
LEMMA PwriteTree ==
  ASSUME IInv, TreeInv, NEW fd, NEW iovs \in IovsArg, NEW offset,
         fd_pwrite(fd, iovs, offset)
  PROVE  TreeInv' /\ Lawful
<1> DEFINE file == fds[fd].file
           found == FileError(fd, {"FD_WRITE"})
           sought == SeekError(fd, offset, "SET")
           moved == FileSought(file, lfs_soff_t(offset), "SET")
           err == OrElse(found, OrElse(sought, WriteError(fd, moved, iovs)))
           h == [AfterWrite(moved, iovs) EXCEPT !.pos = file.pos]
<1>1. err = "SUCCESS" => found = "SUCCESS" /\ sought = "SUCCESS"
  BY DEF OrElse
<1>2. ASSUME found = "SUCCESS", sought = "SUCCESS"
      PROVE  fd \in DOMAIN fds /\ Advances(file, h)
  <2>1. fd \in DOMAIN fds /\ file \in Handle /\ "pos" \in DOMAIN file
    BY <1>2, FileFacts DEF Handle
  <2>2. moved \in Handle /\ Advances(file, moved)
    BY <1>2, <2>1, SeekFacts, FileAdvances
  <2>3. Advances(moved, AfterWrite(moved, iovs))
    BY <2>2, WriteAdvances
  <2> HIDE DEF moved, file
  <2> QED
    BY <2>1, <2>2, <2>3, AdvancesOn
<1>3. \/ err # "SUCCESS" /\ Reply(err)
      \/ err = "SUCCESS" /\ Synchronise(fd, h)
  BY DEF fd_pwrite
<1> HIDE DEF err, h, found, sought
<1> QED
  BY <1>1, <1>2, <1>3, FileTree

(* fd_write writes, at the end with APPEND, and stores.                    *)
LEMMA WriteTree ==
  ASSUME IInv, TreeInv, NEW fd, NEW iovs \in IovsArg, fd_write(fd, iovs)
  PROVE  TreeInv' /\ Lawful
<1> DEFINE file == fds[fd].file
           append == fds[fd].append
           from == IF append THEN [file EXCEPT !.pos = Larger(@, Len(file.data))] ELSE file
           found == FileError(fd, {"FD_WRITE"})
           err == OrElse(found, WriteError(fd, from, iovs))
           written == AfterWrite(from, iovs)
           h == IF append THEN [written EXCEPT !.pos = file.pos] ELSE written
<1>1. err = "SUCCESS" => found = "SUCCESS"
  BY DEF OrElse
<1>2. ASSUME found = "SUCCESS" PROVE fd \in DOMAIN fds /\ Advances(file, h)
  <2>1. fd \in DOMAIN fds /\ file \in Handle /\ "pos" \in DOMAIN file
    BY <1>2, FileFacts DEF Handle
  <2>2. Advances(file, file)
    BY <2>1, FileAdvances
  <2>3. from \in Handle /\ Advances(file, from)
    <3>1. file.pos \in 0 .. FileMax /\ Len(file.data) \in 0 .. FileMax
      BY <2>1, LittleFSAssumption DEF Handle, Data
    <3>2. Larger(file.pos, Len(file.data)) \in 0 .. FileMax
      BY <3>1 DEF Larger
    <3>3. CASE append
      <4>1. from = [file EXCEPT !.pos = Larger(file.pos, Len(file.data))]
        BY <3>3
      <4> HIDE DEF from, file
      <4> QED
        BY <2>1, <2>2, <3>2, <4>1, PutBackType, AdvancesOn
    <3>4. CASE ~append
      BY <2>1, <2>2, <3>4
    <3> QED
      BY <3>3, <3>4
  <2>4. Advances(from, written)
    BY <2>3, WriteAdvances
  <2> HIDE DEF from, written, file
  <2> QED
    BY <2>1, <2>3, <2>4, AdvancesOn
<1>3. \/ err # "SUCCESS" /\ Reply(err)
      \/ err = "SUCCESS" /\ Synchronise(fd, h)
  BY DEF fd_write
<1> HIDE DEF err, h, found
<1> QED
  BY <1>1, <1>2, <1>3, FileTree

-----------------------------------------------------------------------------
(* Calls that free a descriptor.                                           *)

(* What closing stores is what the handle of a file has left to store.     *)
LEMMA ClosedTree ==
  ASSUME IInv, TreeInv, NEW gone \in DOMAIN fds, Closed(gone),
         \A new \in DOMAIN fds' : \E fd \in DOMAIN fds \ {gone} : fds'[new] = fds[fd]
  PROVE  TreeInv' /\ Lawful
<1>1. CASE tree' = Synced(tree, fds[gone].file)
  BY <1>1, FreeTree
<1>2. CASE tree' = tree
  BY <1>2, StillTree DEF SameCopy
<1> QED
  BY <1>1, <1>2 DEF Closed

(* fd_close is lawful,                                                     *)
LEMMA CloseTree ==
  ASSUME IInv, TreeInv, NEW fd \in Fd, fd_close(fd)
  PROVE  TreeInv' /\ Lawful
<1>1. CASE Reply(fd_close_error(fd))
  BY <1>1, ReplyTree
<1>2. CASE Closes(fd) /\ fds' = Without(fd) /\ Closed(fd)
  <2>1. fd \in DOMAIN fds
    BY <1>2, CloseFacts
  <2>2. \A new \in DOMAIN fds' : new \in DOMAIN fds \ {fd} /\ fds'[new] = fds[new]
    BY <1>2 DEF Without
  <2> QED
    BY <1>2, <2>1, <2>2, ClosedTree
<1> QED
  BY <1>1, <1>2 DEF fd_close

(* and so is fd_renumber, under whatever number a descriptor goes on.      *)
LEMMA RenumberTree ==
  ASSUME IInv, TreeInv, NEW fd \in Fd, NEW to \in Fd, fd_renumber(fd, to)
  PROVE  TreeInv' /\ Lawful
<1>1. CASE \E code : Reply(code)
  BY <1>1, ReplyTree
<1>2. CASE /\ fd_renumber_error(fd, to) = "SUCCESS"
           /\ fds' = IF to = fd THEN Without(fd) ELSE Put(Without(fd), to, fds[fd])
           /\ IF to \in DOMAIN fds THEN Closed(to) ELSE UNCHANGED <<mlist, tree>>
  <2>1. fd \in DOMAIN fds
    BY <1>2, RenumberFacts
  <2>2. \A new \in DOMAIN fds' : \E other \in DOMAIN fds \ {to} : fds'[new] = fds[other]
    <3>1. CASE to = fd
      BY <1>2, <3>1 DEF Without
    <3>2. CASE to # fd
      <4>1. fds' = Put(Without(fd), to, fds[fd])
        BY <1>2, <3>2
      <4>2. /\ DOMAIN fds' = (DOMAIN fds \ {fd}) \cup {to}
            /\ fds'[to] = fds[fd]
            /\ \A new \in DOMAIN fds \ {fd, to} : fds'[new] = fds[new]
        BY <4>1 DEF Put, Without
      <4> QED
        BY <2>1, <3>2, <4>2
    <3> QED
      BY <3>1, <3>2
  <2>3. CASE to \in DOMAIN fds
    BY <1>2, <2>2, <2>3, ClosedTree
  <2>4. CASE to \notin DOMAIN fds
    <3>1. tree' = tree
      BY <1>2, <2>4
    <3> QED
      BY <2>2, <3>1, StillTree DEF SameCopy
  <2> QED
    BY <2>3, <2>4
<1> QED
  BY <1>1, <1>2 DEF fd_renumber

-----------------------------------------------------------------------------
(* Calls on paths.                                                         *)

(* Leaving the handles alone is flushing.                                  *)
LEMMA FlushedStill ==
  ASSUME \A fd \in DOMAIN fds : fd \in DOMAIN fds' => fds'[fd].file.data = fds[fd].file.data
  PROVE  Flushes
BY DEF Flushes

(* path_create_directory makes an entry, in a directory.                   *)
LEMMA MkdirTree ==
  ASSUME IInv, TreeInv, NEW fd, NEW path \in LfsPath, path_create_directory(fd, path)
  PROVE  TreeInv' /\ Lawful
<1> DEFINE found == lookup_fd(fd, "dir", {"PATH_CREATE_DIRECTORY"}, FALSE)
           to == resolve_path(fd, path)
           made == MkdirError(tree, to.comps, to.slash)
           err == OrElse(found, from_lfs_error(made))
<1>1. \/ err # "SUCCESS" /\ Reply(err)
      \/ /\ err = "SUCCESS" /\ tree' = Put(tree, to.comps, NewEntry("dir")) /\ fds' = fds
  BY DEF path_create_directory
<1>2. CASE Reply(err)
  BY <1>2, ReplyTree
<1>3. CASE /\ err = "SUCCESS" /\ tree' = Put(tree, to.comps, NewEntry("dir")) /\ fds' = fds
  <2>1. found = "SUCCESS" /\ made = "OK"
    BY <1>3, LfsErrorFacts DEF OrElse
  <2>2. to.comps \in Path
    BY <2>1, DirFacts, ResolveType
  <2> DEFINE p == to.comps
  <2>3. p \notin DOMAIN tree /\ p # Root /\ IsDir(tree, Front(p))
    <3>1. p \notin DOMAIN tree /\ CreateError(tree, p, to.slash) = "OK"
      BY <2>1 DEF MkdirError
    <3> HIDE DEF to
    <3> QED
      BY <2>2, <3>1, CreateFacts DEF TreeInv
  <2> HIDE DEF p, to
  <2>4. Nested(tree')
    BY <1>3, <2>2, <2>3, PutNested, VolumeFacts DEF TreeInv, p
  <2>5. \A q \in DOMAIN tree : q \in DOMAIN tree' /\ tree'[q] = tree[q]
    BY <1>3, <2>3 DEF Put, p
  <2>6. AttachedHandles' /\ PendingOnlyTruncation'
    BY <1>3, <2>5 DEF TreeInv, AttachedHandles, PendingOnlyTruncation, IsReg
  <2>7. Flushes /\ Commits /\ Keeps
    BY <1>3, <2>5, FlushedStill DEF Commits, Keeps
  <2> QED
    BY <2>4, <2>6, <2>7 DEF TreeInv, Lawful
<1> QED
  BY <1>1, <1>2, <1>3

(* Setting the times of an entry leaves it otherwise as it is.             *)
LEMMA MetadataFacts ==
  ASSUME NEW vol, IsVolume(vol, FileMetadata), NEW p \in DOMAIN vol, NEW m
  PROVE  LET after == set_metadata(vol, p, m)
         IN  /\ after = [vol EXCEPT ![p].attr = <<m>>]
             /\ DOMAIN after = DOMAIN vol
             /\ \A q \in DOMAIN vol : /\ after[q].type = vol[q].type
                                     /\ after[q].data = vol[q].data
             /\ \A q \in DOMAIN vol \ {p} : after[q] = vol[q]
             /\ after[p].attr = <<m>>
<1>1. \A q \in DOMAIN vol : vol[q] \in Entry(FileMetadata)
  BY DEF IsVolume
<1> QED
  BY <1>1 DEF set_metadata, Entry

(* So do fd_filestat_set_times and path_filestat_set_times.                *)
LEMMA SetTimesTree ==
  ASSUME IInv, TreeInv, NEW found, NEW path, NEW atim, NEW mtim, NEW fst,
         set_file_times(found, path, atim, mtim, fst)
  PROVE  TreeInv' /\ Lawful
<1> DEFINE p == path.comps
<1>1. CASE \E err : Reply(err)
  BY <1>1, ReplyTree
<1>2. CASE fds' = fds /\ tree' = tree
  BY <1>2, StillTree DEF SameCopy
<1>3. ASSUME NEW m, p \in DOMAIN tree, fds' = fds, tree' = set_metadata(tree, p, m)
      PROVE  TreeInv' /\ Lawful
  <2>1. /\ tree' = [tree EXCEPT ![p].attr = <<m>>]
        /\ DOMAIN tree' = DOMAIN tree
        /\ \A q \in DOMAIN tree : /\ tree'[q].type = tree[q].type
                                 /\ tree'[q].data = tree[q].data
        /\ \A q \in DOMAIN tree \ {p} : tree'[q] = tree[q]
        /\ tree'[p].attr = <<m>>
    BY <1>3, VolumeFacts, MetadataFacts
  <2>2. Nested(tree')
    BY <2>1, SameShape DEF TreeInv
  <2>3. AttachedHandles' /\ PendingOnlyTruncation'
    BY <1>3, <2>1 DEF TreeInv, AttachedHandles, PendingOnlyTruncation, IsReg
  <2>4. Flushes /\ Commits
    BY <1>3, <2>1, FlushedStill DEF Commits
  <2>5. Keeps
    <3>1. tree' = [tree EXCEPT ![p].attr = tree'[p].attr]
      BY <2>1
    <3> QED
      BY <1>3, <2>1, <3>1 DEF Keeps
  <2> QED
    BY <2>2, <2>3, <2>4, <2>5 DEF TreeInv, Lawful
<1> QED
  BY <1>1, <1>2, <1>3 DEF set_file_times

(* A call that removes an entry tells the handles of it.                   *)
LEMMA RemoveTree ==
  ASSUME IInv, TreeInv, NEW fd, NEW path, NEW err, RemoveEntry(fd, path, err),
         err = "SUCCESS" => /\ resolve_path(fd, path).comps \in Path
                            /\ RemoveError(tree, resolve_path(fd, path).comps) = "OK"
  PROVE  TreeInv' /\ Lawful
<1> DEFINE p == resolve_path(fd, path).comps
<1>1. CASE Reply(err)
  BY <1>1, ReplyTree
<1>2. CASE /\ err = "SUCCESS" /\ tree' = Removed(tree, p)
           /\ fds' = [other \in DOMAIN fds |-> [fds[other] EXCEPT !.file = Unlinked(@, p)]]
  <2> HIDE DEF p
  <2>1. /\ p \in Path /\ p # Root /\ Nested(tree')
    BY <1>2, VolumeFacts, RemovedNested DEF p, TreeInv, RemoveError, Find
  <2>2. /\ DOMAIN tree' = DOMAIN tree \ {p}
        /\ \A q \in DOMAIN tree' : tree'[q] = tree[q]
    BY <1>2 DEF Removed
  <2>3. /\ DOMAIN fds' = DOMAIN fds
        /\ \A other \in DOMAIN fds : fds'[other].file = Unlinked(fds[other].file, p)
    <3>1. \A other \in DOMAIN fds : fds[other] \in FileDescriptor
      BY DEF IInv, TypeOK
    <3> QED
      BY <1>2, <3>1 DEF FileDescriptor
  <2>4. ASSUME NEW other \in DOMAIN fds
        PROVE  LET h == fds[other].file
                   g == fds'[other].file
               IN  /\ g.data = h.data /\ g.dirty = h.dirty
                   /\ g.at # Detached => g.at = h.at /\ h.at # p
    BY <2>3, VolumeFacts, UnlinkedAttached
  <2>5. AttachedHandles'
    BY <2>2, <2>3, <2>4 DEF TreeInv, AttachedHandles, IsReg
  <2>6. PendingOnlyTruncation'
    BY <2>3, <2>4 DEF TreeInv, PendingOnlyTruncation
  <2>7. Flushes /\ Commits /\ Keeps
    BY <2>2, <2>4, FlushedStill DEF Commits, Keeps
  <2> QED
    BY <2>1, <2>5, <2>6, <2>7 DEF TreeInv, Lawful
<1> QED
  BY <1>1, <1>2 DEF RemoveEntry

(* path_remove_directory and path_unlink_file do.                          *)
LEMMA UnlinkTree ==
  ASSUME IInv, TreeInv, NEW fd, NEW path \in LfsPath,
         path_remove_directory(fd, path) \/ path_unlink_file(fd, path)
  PROVE  TreeInv' /\ Lawful
<1> DEFINE to == resolve_path(fd, path)
           found(right) == lookup_fd(fd, "dir", {right}, FALSE)
           removed == RemoveError(tree, to.comps)
           rmdir == OrElse(found("PATH_REMOVE_DIRECTORY"),
                    OrElse(Check(to.comps \in DOMAIN tree => IsDir(tree, to.comps), "NOTDIR"),
                           from_lfs_error(removed)))
           unlink == OrElse(found("PATH_UNLINK_FILE"),
                     OrElse(Check(~IsDir(tree, to.comps), "ISDIR"),
                     OrElse(verify_is_valid_file_path(to), from_lfs_error(removed))))
<1>1. RemoveEntry(fd, path, rmdir) \/ RemoveEntry(fd, path, unlink)
  BY DEF path_remove_directory, path_unlink_file
<1>2. \A right : found(right) = "SUCCESS" => to.comps \in Path
  BY DirFacts, ResolveType
<1>3. \/ rmdir = "SUCCESS"
      \/ unlink = "SUCCESS"
      => to.comps \in Path /\ removed = "OK"
  <2> HIDE DEF found, to, removed
  <2> QED
    BY <1>2, LfsErrorFacts DEF OrElse
<1> HIDE DEF rmdir, unlink
<1> QED
  BY <1>1, <1>3, RemoveTree

(* path_rename, too, tells the handles what it does.                       *)
LEMMA RelinkTree ==
  ASSUME IInv, TreeInv, NEW old \in Path, NEW new \in Path, Renamable(tree, old, new),
         tree' = Renamed(tree, old, new),
         fds' = [fd \in DOMAIN fds |-> [fds[fd] EXCEPT !.file = Relinked(@, old, new)]]
  PROVE  TreeInv' /\ Lawful
<1>1. Nested(tree')
  BY VolumeFacts, RenamedNested DEF TreeInv
<1>2. \A p \in DOMAIN tree \cap DOMAIN tree' :
        \/ tree'[p] = tree[p]
        \/ tree'[p] = tree[old] /\ old \in DOMAIN tree \ DOMAIN tree'
  BY VolumeFacts, RenamedEntries DEF TreeInv
<1>3. /\ DOMAIN fds' = DOMAIN fds
      /\ \A fd \in DOMAIN fds : fds'[fd].file = Relinked(fds[fd].file, old, new)
  <2>1. \A fd \in DOMAIN fds : fds[fd] \in FileDescriptor
    BY DEF IInv, TypeOK
  <2> QED
    BY <2>1 DEF FileDescriptor
<1>4. ASSUME NEW fd \in DOMAIN fds
      PROVE  LET g == fds'[fd].file
             IN  /\ g.data = fds[fd].file.data /\ g.dirty = fds[fd].file.dirty
                 /\ g.at # Detached => fds[fd].file.at # Detached /\ IsReg(tree', g.at)
  <2>1. /\ fds[fd].file \in Handle
        /\ fds[fd].file.at # Detached => IsReg(tree, fds[fd].file.at)
    BY VolumeFacts DEF TreeInv, AttachedHandles
  <2> QED
    BY <1>3, <2>1, VolumeFacts, RelinkedAttached DEF TreeInv
<1>5. AttachedHandles'
  BY <1>3, <1>4 DEF AttachedHandles
<1>6. PendingOnlyTruncation'
  BY <1>3, <1>4 DEF TreeInv, PendingOnlyTruncation
<1>7. Flushes
  BY <1>4, FlushedStill
<1>8. Commits /\ Keeps
  BY <1>2 DEF Commits, Keeps
<1> QED
  BY <1>1, <1>5, <1>6, <1>7, <1>8 DEF TreeInv, Lawful

(* path_rename makes such a rename, or answers an error.                   *)
LEMMA RenameTree ==
  ASSUME IInv, TreeInv, NEW old_fd, NEW old_path \in LfsPath, NEW new_fd,
         NEW new_path \in LfsPath, path_rename(old_fd, old_path, new_fd, new_path)
  PROVE  TreeInv' /\ Lawful
<1> DEFINE old == resolve_path(old_fd, old_path)
           new == resolve_path(new_fd, new_path)
           valid(path) == IF is_regular_file(old) THEN verify_is_valid_file_path(path)
                          ELSE "SUCCESS"
           found_old == lookup_fd(old_fd, "dir", {"PATH_RENAME_SOURCE"}, FALSE)
           found_new == lookup_fd(new_fd, "dir", {"PATH_RENAME_TARGET"}, FALSE)
           renamed == rename_error(old.comps, new.comps)
           err == OrElse(found_old, OrElse(valid(old),
                  OrElse(found_new, OrElse(valid(new), renamed))))
<1>1. \/ err # "SUCCESS" /\ Reply(err)
      \/ /\ err = "SUCCESS"
         /\ tree' = Renamed(tree, old.comps, new.comps)
         /\ fds' = [fd \in DOMAIN fds |->
                      [fds[fd] EXCEPT !.file = Relinked(@, old.comps, new.comps)]]
  BY DEF path_rename
<1>2. CASE Reply(err)
  BY <1>2, ReplyTree
<1>3. CASE /\ err = "SUCCESS"
           /\ tree' = Renamed(tree, old.comps, new.comps)
           /\ fds' = [fd \in DOMAIN fds |->
                        [fds[fd] EXCEPT !.file = Relinked(@, old.comps, new.comps)]]
  <2>1. found_old = "SUCCESS" /\ found_new = "SUCCESS" /\ renamed = "SUCCESS"
    <3> HIDE DEF found_old, found_new, valid, renamed
    <3> QED
      BY <1>3 DEF OrElse
  <2>2. old.comps \in Path /\ new.comps \in Path
    BY <2>1, DirFacts, ResolveType
  <2>3. RenameError(tree, old.comps, new.comps) = "OK"
    BY <2>1, LfsErrorFacts DEF rename_error
  <2> DEFINE from == old.comps
             to == new.comps
  <2>4. /\ from \in Path /\ to \in Path /\ RenameError(tree, from, to) = "OK"
        /\ tree' = Renamed(tree, from, to)
        /\ fds' = [fd \in DOMAIN fds |-> [fds[fd] EXCEPT !.file = Relinked(@, from, to)]]
    BY <1>3, <2>2, <2>3
  <2> HIDE DEF from, to, old, new, err
  <2>5. CASE from = to
    <3>1. tree' = tree
      BY <2>4, <2>5 DEF Renamed
    <3>2. DOMAIN fds' = DOMAIN fds
      BY <2>4
    <3>3. \A fd \in DOMAIN fds : fds'[fd] = [fds[fd] EXCEPT !.file = fds[fd].file]
      <4>1. \A fd \in DOMAIN fds : Relinked(fds[fd].file, from, to) = fds[fd].file
        BY <2>5, VolumeFacts DEF Relinked, WhenRenamed, Handle
      <4> QED
        BY <2>4, <4>1
    <3>4. \A fd \in DOMAIN fds : SameCopy(fds[fd], fds'[fd])
      <4>1. \A fd \in DOMAIN fds : fds[fd] \in FileDescriptor
        BY DEF IInv, TypeOK
      <4> QED
        BY <3>3, <4>1 DEF SameCopy, FileDescriptor
    <3> QED
      BY <3>1, <3>2, <3>4, StillTree
  <2>6. CASE from # to
    <3>1. Renamable(tree, from, to)
      BY <2>4, <2>6, RenameFacts DEF TreeInv
    <3> QED
      BY <2>4, <3>1, RelinkTree
  <2> QED
    BY <2>5, <2>6
<1> QED
  BY <1>1, <1>2, <1>3

(* What path_open has checked, and the handle it makes.                    *)
LEMMA OpenHandle ==
  ASSUME IInv, TreeInv, NEW id, NEW fd, NEW path \in LfsPath, NEW oflags, NEW base,
         NEW inheriting, NEW append, path_open_error(fd, path, oflags, base) = "SUCCESS"
  PROVE  LET h == NewDescriptor(id, fd, path, oflags, base, inheriting, append).file
             p == resolve_path(fd, path).comps
         IN  /\ p \in Path
             /\ p \notin DOMAIN tree => p # Root /\ IsDir(tree, Front(p))
             /\ h.dirty => h.data = <<>>
             /\ h.at # Detached => h.at = p /\ (p \in DOMAIN tree => IsReg(tree, p))
<1> DEFINE found == lookup_fd(fd, "dir", required_rights(oflags), FALSE)
           to == resolve_path(fd, path)
           opened == IF "DIRECTORY" \in oflags THEN DirOpenError(tree, to.comps)
                     ELSE FileOpenError(tree, to.comps, to.slash, oflags)
           h == NewDescriptor(id, fd, path, oflags, base, inheriting, append).file
           rights == rights_granted(fd, oflags, base)
<1>1. found = "SUCCESS" /\ opened = "OK"
  <2>1. OrElse(found, from_lfs_error(opened)) = "SUCCESS"
    BY DEF path_open_error
  <2> HIDE DEF found, opened
  <2> QED
    BY <2>1, LfsErrorFacts DEF OrElse
<1>2. to.comps \in Path
  BY <1>1, DirFacts, ResolveType
<1>3. h = IF "DIRECTORY" \in oflags THEN NoHandle
          ELSE FileOpened(tree, to.comps, to_lfs_open_flags(oflags, rights))
  BY DEF NewDescriptor
<1> DEFINE p == to.comps
<1> HIDE DEF to, h, rights, found
<1>4. CASE "DIRECTORY" \in oflags
  <2>1. p \in DOMAIN tree
    BY <1>1, <1>4 DEF DirOpenError, Find
  <2>2. h.dirty = FALSE /\ h.at = Detached
    BY <1>3, <1>4 DEF NoHandle
  <2> QED
    BY <1>2, <2>1, <2>2 DEF to, h
<1>5. CASE "DIRECTORY" \notin oflags
  <2>1. FileOpenError(tree, p, to.slash, oflags) = "OK"
    BY <1>1, <1>5
  <2>2. p \notin DOMAIN tree => p # Root /\ IsDir(tree, Front(p))
    <3>1. p \notin DOMAIN tree => CreateError(tree, p, to.slash) = "OK"
      BY <2>1 DEF FileOpenError, Find
    <3> HIDE DEF p
    <3> QED
      BY <1>2, <3>1, CreateFacts DEF TreeInv, p
  <2>3. p \in DOMAIN tree => IsReg(tree, p)
    BY <2>1 DEF FileOpenError, IsReg
  <2>4. h.at = p /\ (h.dirty => h.data = <<>>)
    BY <1>3, <1>5 DEF FileOpened, to_lfs_open_flags
  <2> QED
    BY <1>2, <2>2, <2>3, <2>4 DEF to, h
<1> QED
  BY <1>4, <1>5

(* path_open makes at most an entry, and writes back the times it read.    *)
LEMMA OpenTree ==
  ASSUME IInv, TreeInv, NEW fd, NEW path \in LfsPath, NEW oflags, NEW base, NEW inheriting,
         NEW append, path_open(fd, path, oflags, base, inheriting, append)
  PROVE  TreeInv' /\ Lawful
<1> DEFINE err == path_open_error(fd, path, oflags, base)
           desc(id) == NewDescriptor(id, fd, path, oflags, base, inheriting, append)
           p == resolve_path(fd, path).comps
           made == IF p \in DOMAIN tree THEN tree ELSE Put(tree, p, NewEntry("reg"))
<1>1. CASE Reply(err)
  BY <1>1, ReplyTree
<1>2. CASE err = "SUCCESS" /\ ~Reply(err)
  <2>1. PICK id, new_fd :
          /\ allocate_fd(new_fd)
          /\ fds' = Put(fds, new_fd, desc(id))
          /\ tree' = set_metadata(made, p, get_metadata(made, p))
    <3>1. \A id : desc(id).path.comps = p
      BY DEF NewDescriptor
    <3> HIDE DEF desc
    <3> QED
      BY <1>2, <3>1 DEF path_open, desc
  <2> DEFINE h == desc(id).file
  <2>2. /\ p \in Path
        /\ p \notin DOMAIN tree => p # Root /\ IsDir(tree, Front(p))
        /\ h.dirty => h.data = <<>>
        /\ h.at # Detached => h.at = p /\ (p \in DOMAIN tree => IsReg(tree, p))
    BY <1>2, OpenHandle
  <2>3. /\ DOMAIN fds' = DOMAIN fds \cup {new_fd} /\ new_fd \notin DOMAIN fds
        /\ fds'[new_fd].file = h
        /\ \A other \in DOMAIN fds : fds'[other] = fds[other]
    <3>1. new_fd \notin DOMAIN fds
      BY <2>1, AllocateFacts
    <3> HIDE DEF desc
    <3> QED
      BY <2>1, <3>1 DEF Put
  <2> HIDE DEF h, desc, p
  <2>4. /\ Nested(made) /\ DOMAIN made = DOMAIN tree \cup {p}
        /\ \A q \in DOMAIN tree : made[q] = tree[q]
        /\ p \notin DOMAIN tree => made[p].type = "reg"
        /\ IsVolume(made, FileMetadata)
    <3>1. CASE p \in DOMAIN tree
      BY <3>1, VolumeFacts DEF TreeInv
    <3>2. CASE p \notin DOMAIN tree
      <4>1. /\ DOMAIN made = DOMAIN tree \cup {p} /\ made[p] = NewEntry("reg")
            /\ \A q \in DOMAIN tree : made[q] = tree[q]
        BY <3>2 DEF Put
      <4>2. Nested(made)
        BY <2>2, <3>2, PutNested, VolumeFacts DEF TreeInv
      <4>3. IsVolume(made, FileMetadata)
        BY <2>2, <3>2, PutType, NewEntryType, VolumeFacts
      <4> QED
        BY <3>2, <4>1, <4>2, <4>3 DEF NewEntry
    <3> QED
      BY <3>1, <3>2
  <2> HIDE DEF made
  <2>5. /\ DOMAIN tree' = DOMAIN made
        /\ \A q \in DOMAIN made : tree'[q].type = made[q].type /\ tree'[q].data = made[q].data
        /\ \A q \in DOMAIN made \ {p} : tree'[q] = made[q]
        /\ tree'[p].attr = <<get_metadata(made, p)>>
    BY <2>1, <2>4, MetadataFacts
  <2>6. p \in DOMAIN tree /\ tree[p].attr # <<>> => tree'[p].attr = tree[p].attr
    <3>1. ASSUME p \in DOMAIN tree, tree[p].attr # <<>> PROVE tree'[p].attr = tree[p].attr
      <4>1. tree[p].attr \in Seq(FileMetadata) /\ Len(tree[p].attr) <= 1
        BY <3>1, VolumeFacts DEF IsVolume, Entry
      <4>2. tree[p].attr = <<tree[p].attr[1]>>
        BY <3>1, <4>1, SingleElement
      <4> QED
        BY <2>4, <2>5, <3>1, <4>2 DEF get_metadata
    <3> QED
      BY <3>1
  <2>7. Nested(tree')
    BY <2>4, <2>5, SameShape
  <2>8. AttachedHandles'
    BY <2>2, <2>3, <2>4, <2>5 DEF TreeInv, AttachedHandles, IsReg
  <2>9. PendingOnlyTruncation'
    BY <2>2, <2>3 DEF TreeInv, PendingOnlyTruncation
  <2>10. Flushes
    BY <2>3, FlushedStill
  <2>11. Commits
    BY <2>4, <2>5 DEF Commits
  <2>12. Keeps
    BY <2>4, <2>5, <2>6 DEF Keeps
  <2> QED
    BY <2>7, <2>8, <2>9, <2>10, <2>11, <2>12 DEF TreeInv, Lawful
<1> QED
  BY <1>1, <1>2 DEF path_open

-----------------------------------------------------------------------------
(* The volume that initialize_internal fills is well formed: mkdirp makes  *)
(* what is above a file, and no file is above another.                     *)
LEMMA InitialTreeNested == Nested(InitialTree)
<1> DEFINE paths == {Root} \cup UNION {{SubSeq(f, 1, n) : n \in 1 .. Len(f)} : f \in DOMAIN Fs}
<1>1. /\ DOMAIN InitialTree = paths
      /\ \A p \in paths \ DOMAIN Fs : InitialTree[p] = NewEntry("dir")
  BY DEF InitialTree
<1>2. ASSUME NEW q \in paths, q # Root
      PROVE  q \in Path /\ \E f \in DOMAIN Fs : IsPrefix(q, f)
  <2>0. PICK f \in DOMAIN Fs : q \in {SubSeq(f, 1, n) : n \in 1 .. Len(f)}
    BY <1>2
  <2>1. PICK n \in 1 .. Len(f) : q = SubSeq(f, 1, n)
    BY <2>0
  <2>2. f \in Path /\ Len(f) \in Nat /\ n \in Nat /\ n <= Len(f)
    BY FsAssumption DEF Path
  <2>3. \A i \in 1 .. n : f[i] \in Name
    BY <2>2 DEF Path
  <2>4. q \in Path /\ Len(q) = n /\ \A i \in 1 .. n : q[i] = f[i]
    BY <2>1, <2>2, <2>3, SubSeqProperties DEF Path
  <2> QED
    BY <2>2, <2>4, PrefixElements
<1>3. ASSUME NEW p \in Path \ {Root}, NEW f \in DOMAIN Fs, IsPrefix(p, f)
      PROVE  p \in paths
  <2>1. f \in Path /\ Len(p) \in 1 .. Len(f)
    BY <1>3, FsAssumption, EmptySeq DEF IsPrefix, Path, Root
  <2>2. p = SubSeq(f, 1, Len(p))
    BY <1>3, SubSeqFull DEF IsPrefix, Path
  <2>3. p \in {SubSeq(f, 1, n) : n \in 1 .. Len(f)}
    BY <2>1, <2>2, Zenon
  <2> QED
    BY <2>3, Zenon
<1> HIDE DEF paths
<1>4. Root \in paths /\ Root \notin DOMAIN Fs
  BY FsAssumption DEF paths
<1>5. ASSUME NEW q \in paths, NEW p \in Path, IsStrictPrefix(p, q)
      PROVE  p \in paths /\ p \notin DOMAIN Fs
  <2>1. q # Root
    BY <1>5, PrefixOrder, EmptyType DEF IsStrictPrefix
  <2>2. PICK f \in DOMAIN Fs : IsPrefix(q, f)
    BY <1>2, <2>1
  <2>3. q \in Path /\ f \in Path
    BY <1>2, <2>1, FsAssumption
  <2>4. IsPrefix(p, f) /\ p # f
    BY <1>5, <2>2, <2>3, PrefixOrder DEF IsStrictPrefix
  <2>5. p \notin DOMAIN Fs
    BY <2>4, FsAssumption DEF IsStrictPrefix
  <2> QED
    BY <1>3, <1>4, <2>4, <2>5
<1> QED
  BY <1>1, <1>4, <1>5 DEF Nested, IsDir, NewEntry

(* No handle belongs to a file when the guest starts.                      *)
LEMMA InitTree == Init => TreeInv
<1> SUFFICES ASSUME Init PROVE TreeInv
  OBVIOUS
<1>1. Nested(tree)
  BY InitialTreeNested DEF Init
<1>2. \A fd \in DOMAIN fds : fds[fd].file = NoHandle
  BY DEF Init, InitialFds, make_preopen_fd, make_stream_fd
<1>3. AttachedHandles /\ PendingOnlyTruncation
  BY <1>2 DEF AttachedHandles, PendingOnlyTruncation, NoHandle
<1> QED
  BY <1>1, <1>3 DEF TreeInv

(* Every call keeps the tree as it should be, and is lawful.               *)
LEMMA NextTree == IInv /\ TreeInv /\ [Next]_vars => TreeInv' /\ Lawful
<1> SUFFICES ASSUME IInv, TreeInv, [Next]_vars PROVE TreeInv' /\ Lawful
  OBVIOUS
<1>1. ASSUME NEW fd \in FdArg, DescriptorCall(fd) PROVE TreeInv' /\ Lawful
  <2>1. fd \in Fd /\ ToArg \subseteq Fd
    BY ArgumentFacts
  <2>2. CASE fd_close(fd)
    BY <2>1, <2>2, CloseTree
  <2>3. CASE \E to \in ToArg : fd_renumber(fd, to)
    BY <2>1, <2>3, RenumberTree
  <2>4. CASE \E append \in AppendArg : fd_fdstat_set_flags(fd, append)
    BY <2>4, SetFlagsTree
  <2>5. CASE \E rights \in RightsArg : fd_fdstat_set_rights(fd, rights.base, rights.inheriting)
    BY <2>5, SetRightsTree
  <2>6. CASE fd_advise(fd) \/ fd_datasync(fd) \/ fd_sync(fd) \/ fd_fdstat_get(fd)
             \/ fd_filestat_get(fd) \/ fd_prestat_get(fd)
             \/ \E fits \in BOOLEAN : fd_prestat_dir_name(fd, fits)
    BY <2>6, ReplyTree DEF fd_advise, fd_datasync, fd_sync, fd_fdstat_get, fd_filestat_get,
                           fd_prestat_get, fd_prestat_dir_name
  <2> QED
    BY <1>1, <2>2, <2>3, <2>4, <2>5, <2>6 DEF DescriptorCall
<1>2. ASSUME NEW fd \in FdArg, FileCall(fd) PROVE TreeInv' /\ Lawful
  <2>1. OffsetArg \subseteq Int
    BY ArgumentFacts
  <2>2. CASE \E offset, len \in OffsetArg : fd_allocate(fd, offset, len)
    BY <2>1, <2>2, AllocateTree
  <2>3. CASE \E size \in OffsetArg : fd_filestat_set_size(fd, size)
    BY <2>1, <2>3, SetSizeTree
  <2>4. CASE \E iovs \in IovsArg : fd_read(fd, iovs)
    BY <2>4, ReadTree
  <2>5. CASE \E iovs \in IovsArg : fd_write(fd, iovs)
    BY <2>5, WriteTree
  <2>6. CASE \E iovs \in IovsArg, offset \in OffsetArg : fd_pread(fd, iovs, offset)
    BY <2>6, PreadTree
  <2>7. CASE \E iovs \in IovsArg, offset \in OffsetArg : fd_pwrite(fd, iovs, offset)
    BY <2>7, PwriteTree
  <2>8. CASE \E offset \in OffsetArg, whence \in {"SET", "CUR", "END", "?"} :
               fd_seek(fd, offset, whence)
    BY <2>8, SeekTree
  <2>9. CASE fd_tell(fd)
    BY <2>9, SeekTree DEF fd_tell
  <2>10. CASE \E atim, mtim \in Stamp, fst \in FstArg :
                fd_filestat_set_times(fd, atim, mtim, fst)
    BY <2>10, SetTimesTree DEF fd_filestat_set_times
  <2> QED
    BY <1>2, <2>2, <2>3, <2>4, <2>5, <2>6, <2>7, <2>8, <2>9, <2>10 DEF FileCall
<1>3. ASSUME NEW fd \in FdArg, NEW path \in PathArg, PathCall(fd, path)
      PROVE  TreeInv' /\ Lawful
  <2>1. path \in LfsPath
    BY ArgumentFacts
  <2>2. CASE \E oflags \in OflagsArg, rights \in RightsArg, append \in AppendArg :
               path_open(fd, path, oflags, rights.base, rights.inheriting, append)
    BY <2>1, <2>2, OpenTree
  <2>3. CASE path_filestat_get(fd, path)
    BY <2>3, ReplyTree DEF path_filestat_get
  <2>4. CASE \E atim, mtim \in Stamp, fst \in FstArg :
               path_filestat_set_times(fd, path, atim, mtim, fst)
    BY <2>4, SetTimesTree DEF path_filestat_set_times
  <2> QED
    BY <1>3, <2>2, <2>3, <2>4 DEF PathCall
<1>4. ASSUME NEW fd \in FdArg, NEW path \in EntryArg, EntryCall(fd, path)
      PROVE  TreeInv' /\ Lawful
  <2>1. path \in LfsPath /\ EntryArg \subseteq LfsPath
    BY ArgumentFacts
  <2>2. CASE path_create_directory(fd, path)
    BY <2>1, <2>2, MkdirTree
  <2>3. CASE path_remove_directory(fd, path) \/ path_unlink_file(fd, path)
    BY <2>1, <2>3, UnlinkTree
  <2>4. CASE \E new_fd \in FdArg, new_path \in EntryArg :
               path_rename(fd, path, new_fd, new_path)
    BY <2>1, <2>4, RenameTree
  <2> QED
    BY <1>4, <2>2, <2>3, <2>4 DEF EntryCall
<1>5. CASE UnsupportedCall
  BY <1>5, ReplyTree
     DEF UnsupportedCall, fd_readdir, path_link, path_readlink, path_symlink
<1>6. CASE UNCHANGED vars
  BY <1>6, StillTree DEF vars, SameCopy
<1> QED
  BY <1>1, <1>2, <1>3, <1>4, <1>5, <1>6 DEF Next

-----------------------------------------------------------------------------
(* The theorems.                                                           *)

(* The tree and the handles that belong to it always are as they should.   *)
THEOREM TreeInvariance == Spec => []TreeInv
<1>1. Init => TreeInv
  BY InitTree
<1>2. IInv /\ TreeInv /\ [Next]_vars => TreeInv'
  BY NextTree
<1> QED
  BY <1>1, <1>2, Invariance, PTL DEF Spec

(* No handle is left attached to an entry that is gone or a directory.     *)
THEOREM HandlesStayAttached == Spec => []AttachedHandles
<1>1. TreeInv => AttachedHandles
  BY DEF TreeInv
<1> QED
  BY <1>1, TreeInvariance, PTL

(* What a handle has not stored yet is a truncation when it was opened.    *)
THEOREM LittlePending == Spec => []PendingOnlyTruncation
<1>1. TreeInv => PendingOnlyTruncation
  BY DEF TreeInv
<1> QED
  BY <1>1, TreeInvariance, PTL

(* Every step is lawful.                                                   *)
THEOREM Lawfulness == Spec => [][Lawful]_vars
<1>1. IInv /\ TreeInv /\ [Next]_vars => [Lawful]_vars
  BY NextTree
<1> QED
  BY <1>1, Invariance, TreeInvariance, PTL DEF Spec

(* Writes, truncations and allocations are in the volume when the call     *)
(* that makes them returns, unless the file was removed, replaced or       *)
(* renamed while it was open.                                              *)
THEOREM ChangesAreFlushed == Spec => WritesAreFlushed
<1>1. [Lawful]_vars => [Flushes]_vars
  BY DEF Lawful
<1> DEFINE Stored == \A fd \in DOMAIN fds \cap DOMAIN fds' :
             LET h == fds'[fd].file
             IN  fds'[fd].id = fds[fd].id /\ h.data # fds[fd].file.data =>
                   h.name = Detached \/ h.at # h.name \/ tree'[h.name].data = h.data
<1>2. [Flushes]_vars => [Stored]_vars
  BY DEF Flushes
<1>3. [][Stored]_vars <=> WritesAreFlushed
  BY PTL DEF WritesAreFlushed
<1> QED
  BY <1>1, <1>2, <1>3, Lawfulness, PTL

(* Nothing stores to a file but a handle that belongs to it, or the rename *)
(* of another file over it.                                                *)
THEOREM OwnCopyCommitted == Spec => CommitsOwnCopy
<1>1. [Lawful]_vars => [Commits]_vars
  BY DEF Lawful
<1>2. [][Commits]_vars <=> CommitsOwnCopy
  BY PTL DEF Commits, CommitsOwnCopy
<1> QED
  BY <1>1, <1>2, Lawfulness, PTL

(* The times of an entry are lost only to a call that sets them, or with   *)
(* the entry.                                                              *)
THEOREM TimesStay == Spec => TimesKept
<1>1. [Lawful]_vars => [Keeps]_vars
  BY DEF Lawful
<1>2. [][Keeps]_vars <=> TimesKept
  BY PTL DEF Keeps, TimesKept
<1> QED
  BY <1>1, <1>2, Lawfulness, PTL
=============================================================================
