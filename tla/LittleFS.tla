------------------------------ MODULE LittleFS ------------------------------
(***************************************************************************)
(* littlefs (deps/littlefs, a submodule whose sources are not part of the  *)
(* repository), reduced to what memfs.cc calls.  A mounted volume is a     *)
(* function from paths to entries, an lfs_file_t is a record, and a        *)
(* library call is an operator on the two: its error code, the volume      *)
(* after it, the handle after it.  Blocks, caches and wear levelling are   *)
(* abstracted away.  Three facts about littlefs matter to its caller:      *)
(*                                                                         *)
(*  - A handle works on its own copy of the contents, taken when the file  *)
(*    is opened.  The volume changes only when a dirty handle is synced,   *)
(*    and no other handle notices.                                         *)
(*  - Opening with LFS_O_TRUNC empties the handle's copy and marks it      *)
(*    dirty; the volume keeps the old contents until the next sync.        *)
(*  - When the directory entry of an open file is deleted (by a remove,    *)
(*    or by a rename of it or over it) the handle stays usable but its     *)
(*    syncs write nothing any more.                                        *)
(***************************************************************************)
EXTENDS Integers, SequencesExt

CONSTANTS
  Name,      (* File and directory names; "." and ".." are not among them. *)
  LongName,  (* The names that exceed LFS_NAME_MAX.                        *)
  Byte,      (* The values of a byte, 0 among them.                        *)
  FileMax,   (* LFS_FILE_MAX = 2^31 - 1: largest size and position.        *)
  Capacity   (* What the volume holds: one unit per entry and per byte.    *)

ASSUME LittleFSAssumption ==
  /\ LongName \subseteq Name
  /\ Byte \subseteq Nat /\ 0 \in Byte
  /\ FileMax \in Nat
  /\ Capacity \in Nat

Path == Seq(Name)
Root == <<>>
Data == {data \in Seq(Byte) : Len(data) <= FileMax}

-----------------------------------------------------------------------------
(* Integers passed to littlefs are 32 bits wide.                           *)

Word == 2 * (FileMax + 1)                                  \* 2^32
lfs_off_t(n) == n % Word
lfs_soff_t(n) == ((n + FileMax + 1) % Word) - (FileMax + 1)

-----------------------------------------------------------------------------
(* The volume.  An attribute is a sequence of at most one element, so that *)
(* <<>> is "no attribute".                                                 *)

Entry(Attr) == [type : {"dir", "reg"}, data : Data,
                attr : {s \in Seq(Attr) : Len(s) <= 1}]
IsVolume(vol, Attr) == DOMAIN vol \subseteq Path /\ vol \in [DOMAIN vol -> Entry(Attr)]

NewEntry(type) == [type |-> type, data |-> <<>>, attr |-> <<>>]

IsDir(vol, p) == p \in DOMAIN vol /\ vol[p].type = "dir"
IsReg(vol, p) == p \in DOMAIN vol /\ vol[p].type = "reg"
HasEntries(vol, p) == \E q \in DOMAIN vol : IsStrictPrefix(p, q)

Put(vol, p, entry) ==
  [q \in DOMAIN vol \cup {p} |-> IF q = p THEN entry ELSE vol[q]]

(* What a volume without the contents of p takes up.                       *)
Used(vol, p) ==
  LET size(q) == IF q = p THEN 1 ELSE 1 + Len(vol[q].data)
  IN  MapThenSumSet(size, DOMAIN vol)

(* lfs_dir_find: walks the components, ignores a trailing slash.           *)
Find(vol, p) ==
  IF p \in DOMAIN vol THEN "OK"
  ELSE IF \E i \in 1 .. Len(p) - 1 : IsReg(vol, SubSeq(p, 1, i)) THEN "NOTDIR"
  ELSE "NOENT"

(* Why the missing entry p cannot be made: a new name may not end in "/".  *)
NameError(vol, p, slash) ==
  IF Find(vol, p) = "NOTDIR" THEN "NOTDIR"
  ELSE IF slash \/ ~IsDir(vol, Front(p)) THEN "NOENT"
  ELSE IF Last(p) \in LongName THEN "NAMETOOLONG"
  ELSE "OK"

CreateError(vol, p, slash) ==
  IF NameError(vol, p, slash) # "OK" THEN NameError(vol, p, slash)
  ELSE IF Used(vol, p) + 1 > Capacity THEN "NOSPC"
  ELSE "OK"

MkdirError(vol, p, slash) ==
  IF p \in DOMAIN vol THEN "EXIST" ELSE CreateError(vol, p, slash)

RemoveError(vol, p) ==
  IF Find(vol, p) # "OK" THEN Find(vol, p)
  ELSE IF p = Root THEN "INVAL"
  ELSE IF HasEntries(vol, p) THEN "NOTEMPTY"
  ELSE "OK"

Removed(vol, p) == [q \in DOMAIN vol \ {p} |-> vol[q]]

RenameError(vol, old, new) ==
  IF Find(vol, old) # "OK" THEN Find(vol, old)
  ELSE IF old = Root \/ new = Root THEN "INVAL"
  ELSE IF new \notin DOMAIN vol THEN NameError(vol, new, FALSE)
  ELSE IF vol[new].type # vol[old].type THEN "ISDIR"
  ELSE IF old # new /\ HasEntries(vol, new) THEN "NOTEMPTY"
  ELSE "OK"

(* Where a path at or below old is after old has been renamed to new.      *)
Rebase(p, old, new) == new \o SubSeq(p, Len(old) + 1, Len(p))

(* littlefs does not check for a directory that is moved below itself: the *)
(* whole subtree is then linked to nothing but itself.                     *)
Renamed(vol, old, new) ==
  LET moved == {p \in DOMAIN vol : IsPrefix(old, p)}
      kept  == DOMAIN vol \ (moved \cup {new})
      there == IF IsPrefix(old, new) THEN {} ELSE {Rebase(p, old, new) : p \in moved}
  IN  IF old = new THEN vol
      ELSE [q \in kept \cup there |-> IF q \in kept THEN vol[q]
                                      ELSE vol[Rebase(q, new, old)]]

-----------------------------------------------------------------------------
(* Open files.  "at" is the directory entry that the handle's syncs write, *)
(* the root (never a regular file) when there is none any more.  "name" is *)
(* for the properties: where the file is that was opened, which littlefs   *)
(* does not keep, the root when it was removed or replaced.                *)

Detached == Root

Handle == [flags : SUBSET {"RD", "WR"}, pos : 0 .. FileMax, data : Data,
           dirty : BOOLEAN, at : Path, name : Path]
NoHandle == [flags |-> {}, pos |-> 0, data |-> <<>>, dirty |-> FALSE,
             at |-> Detached, name |-> Detached]

FileOpenError(vol, p, slash, flags) ==
  IF p \notin DOMAIN vol
  THEN IF "CREAT" \in flags THEN CreateError(vol, p, slash) ELSE Find(vol, p)
  ELSE IF "EXCL" \in flags THEN "EXIST"
  ELSE IF vol[p].type # "reg" THEN "ISDIR"
  ELSE "OK"

FileOpened(vol, p, flags) ==
  LET emptied == p \notin DOMAIN vol \/ "TRUNC" \in flags
  IN  [flags |-> flags \cap {"RD", "WR"}, pos |-> 0, at |-> p, name |-> p,
       data  |-> IF emptied THEN <<>> ELSE vol[p].data,
       dirty |-> p \in DOMAIN vol /\ "TRUNC" \in flags]

DirOpenError(vol, p) ==
  IF Find(vol, p) # "OK" THEN Find(vol, p)
  ELSE IF vol[p].type # "dir" THEN "NOTDIR"
  ELSE "OK"

(* The contents cut or filled up with zeroes to n bytes.                   *)
Resized(data, n) == [i \in 1 .. n |-> IF i <= Len(data) THEN data[i] ELSE 0]

Larger(m, n)  == IF m < n THEN n ELSE m
Smaller(m, n) == IF m < n THEN m ELSE n

(* buf written at pos; the hole between the end and pos is filled.         *)
Written(data, pos, buf) ==
  [i \in 1 .. Larger(Len(data), pos + Len(buf)) |->
     IF i \in pos + 1 .. pos + Len(buf) THEN buf[i - pos]
     ELSE IF i <= Len(data) THEN data[i] ELSE 0]

(* The contents of h, as they would be stored, do not fit.                 *)
NoSpace(vol, h) == Used(vol, h.at) + Len(h.data) > Capacity

(* A read of n bytes moves up to them, or to the end of the file.          *)
FileRead(h, n) ==
  [h EXCEPT !.pos = Larger(@, Smaller(@ + n, Len(h.data)))]

FileWritten(h, buf) ==
  [h EXCEPT !.data  = Written(@, h.pos, buf),
            !.pos   = @ + Len(buf),
            !.dirty = @ \/ Len(buf) > 0 \/ h.pos > Len(h.data)]

FileWriteError(vol, h, buf) ==
  IF h.pos + Len(buf) > FileMax THEN "FBIG"
  ELSE IF NoSpace(vol, FileWritten(h, buf)) THEN "NOSPC"
  ELSE "OK"

FileTruncated(h, n) ==
  [h EXCEPT !.data = Resized(@, n), !.dirty = @ \/ n # Len(h.data)]

FileTruncateError(vol, h, n) ==
  IF n > FileMax THEN "INVAL"
  ELSE IF n > Len(h.data) /\ NoSpace(vol, FileTruncated(h, n)) THEN "NOSPC"
  ELSE "OK"

(* The position a seek asks for; a negative one is out of range as well.   *)
SeekTarget(h, off, whence) ==
  CASE whence = "SET" -> off
    [] whence = "CUR" -> h.pos + off
    [] whence = "END" -> Len(h.data) + off

FileSeekError(h, off, whence) ==
  IF SeekTarget(h, off, whence) \in 0 .. FileMax THEN "OK" ELSE "INVAL"

FileSought(h, off, whence) == [h EXCEPT !.pos = SeekTarget(h, off, whence)]

(* lfs_file_sync: the volume, and the handle, after it.                    *)
Synced(vol, h) ==
  IF h.dirty /\ h.at # Detached THEN [vol EXCEPT ![h.at].data = h.data] ELSE vol

Clean(h) == [h EXCEPT !.dirty = @ /\ h.at = Detached]

(* Where an entry is after p has been removed, and after a rename.         *)
WhenRemoved(q, p) == IF q = p THEN Detached ELSE q

WhenRenamed(q, old, new) ==
  IF old = new THEN q
  ELSE IF q = new \/ (IsPrefix(old, q) /\ IsPrefix(old, new)) THEN Detached
  ELSE IF IsPrefix(old, q) THEN Rebase(q, old, new)
  ELSE q

(* Handles are told of the directory entries that go away and of those     *)
(* above them that move.  The entry of a file that is renamed itself is    *)
(* deleted and made anew, of which its handles learn the first half.       *)
Unlinked(h, p) ==
  [h EXCEPT !.at = WhenRemoved(@, p), !.name = WhenRemoved(@, p)]

Relinked(h, old, new) ==
  [h EXCEPT !.at   = IF @ = old /\ old # new THEN Detached ELSE WhenRenamed(@, old, new),
            !.name = WhenRenamed(@, old, new)]
=============================================================================
