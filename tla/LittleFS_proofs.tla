--------------------------- MODULE LittleFS_proofs ---------------------------
(***************************************************************************)
(* The operators of LittleFS yield volumes and handles: the typing facts   *)
(* that proofs about a caller of the library rest on.                      *)
(***************************************************************************)
EXTENDS LittleFS, SequenceTheorems, TLAPS

(* No contents are contents.                                               *)
LEMMA EmptyType == <<>> \in Data /\ Root \in Path /\ 0 \in 0 .. FileMax
BY LittleFSAssumption, EmptySeq DEF Data, Path, Root

(* Contents cut or filled up to n bytes are contents.                      *)
LEMMA ResizedType ==
  ASSUME NEW data \in Data, NEW n \in 0 .. FileMax
  PROVE  Resized(data, n) \in Data
<1>1. Resized(data, n) \in [1 .. n -> Byte]
  BY LittleFSAssumption DEF Resized, Data
<1> QED
  BY <1>1, LittleFSAssumption DEF Data

(* Contents with a buffer written into them are contents.                  *)
LEMMA WrittenType ==
  ASSUME NEW data \in Data, NEW buf \in Data, NEW pos \in Nat,
         pos + Len(buf) <= FileMax
  PROVE  Written(data, pos, buf) \in Data
<1> DEFINE size == Larger(Len(data), pos + Len(buf))
<1>1. size \in Nat /\ size <= FileMax
  BY LittleFSAssumption DEF Larger, Data
<1>2. \A i \in pos + 1 .. pos + Len(buf) : buf[i - pos] \in Byte
  BY DEF Data
<1>3. Written(data, pos, buf) \in [1 .. size -> Byte]
  BY <1>1, <1>2, LittleFSAssumption DEF Data, Written
<1> QED
  BY <1>1, <1>3 DEF Data

(* The empty handle of a descriptor without one is a handle.               *)
LEMMA NoHandleType == NoHandle \in Handle
BY EmptyType DEF NoHandle, Handle, Detached

(* Opening makes a handle at the start of the file, whatever the flags.    *)
LEMMA FileOpenedType ==
  ASSUME NEW Attr, NEW vol, IsVolume(vol, Attr), NEW p \in Path, NEW flags
  PROVE  FileOpened(vol, p, flags) \in Handle
<1>1. p \in DOMAIN vol => vol[p].data \in Data
  BY DEF IsVolume, Entry
<1>2. flags \cap {"RD", "WR"} \in SUBSET {"RD", "WR"}
  OBVIOUS
<1> QED
  BY <1>1, <1>2, EmptyType, Zenon DEF FileOpened, Handle

(* What the operators on open files leave as it is.                        *)
SameFile(h, g) == g.flags = h.flags /\ g.at = h.at

(* A read moves the position at most to the end of the file.               *)
LEMMA FileReadType ==
  ASSUME NEW h \in Handle, NEW n \in Nat
  PROVE  FileRead(h, n) \in Handle /\ SameFile(h, FileRead(h, n))
<1>1. h.pos \in 0 .. FileMax /\ Len(h.data) \in 0 .. FileMax
  BY LittleFSAssumption DEF Handle, Data
<1>2. Larger(h.pos, Smaller(h.pos + n, Len(h.data))) \in 0 .. FileMax
  BY <1>1, LittleFSAssumption DEF Larger, Smaller
<1> QED
  BY <1>2 DEF FileRead, Handle, SameFile

(* A write that littlefs accepts leaves position and size in range.        *)
LEMMA FileWrittenType ==
  ASSUME NEW h \in Handle, NEW buf \in Data, NEW vol,
         FileWriteError(vol, h, buf) = "OK"
  PROVE  FileWritten(h, buf) \in Handle /\ SameFile(h, FileWritten(h, buf))
<1>1. h.pos \in 0 .. FileMax /\ h.data \in Data /\ h.dirty \in BOOLEAN
  BY DEF Handle
<1>2. h.pos + Len(buf) \in 0 .. FileMax
  BY <1>1, LittleFSAssumption DEF FileWriteError, Data
<1>3. Written(h.data, h.pos, buf) \in Data
  BY <1>1, <1>2, WrittenType
<1> QED
  BY <1>1, <1>2, <1>3 DEF FileWritten, Handle, SameFile

(* A truncation that littlefs accepts leaves the size in range.            *)
LEMMA FileTruncatedType ==
  ASSUME NEW h \in Handle, NEW n \in Nat, NEW vol,
         FileTruncateError(vol, h, n) = "OK"
  PROVE  FileTruncated(h, n) \in Handle /\ SameFile(h, FileTruncated(h, n))
<1>1. n \in 0 .. FileMax
  BY LittleFSAssumption DEF FileTruncateError
<1>2. Resized(h.data, n) \in Data
  BY <1>1, ResizedType DEF Handle
<1> QED
  BY <1>2 DEF FileTruncated, Handle, SameFile

(* A seek that littlefs accepts leaves the position in range.              *)
LEMMA FileSoughtType ==
  ASSUME NEW h \in Handle, NEW off, NEW whence,
         FileSeekError(h, off, whence) = "OK"
  PROVE  FileSought(h, off, whence) \in Handle /\ SameFile(h, FileSought(h, off, whence))
<1>1. SeekTarget(h, off, whence) \in 0 .. FileMax
  BY DEF FileSeekError
<1> QED
  BY <1>1 DEF FileSought, Handle, SameFile

(* A synced handle is a handle open for what it was open for.              *)
LEMMA CleanType ==
  ASSUME NEW h \in Handle
  PROVE  Clean(h) \in Handle /\ SameFile(h, Clean(h))
BY DEF Clean, Handle, SameFile

(* So is one that is told that an entry was removed.                       *)
LEMMA UnlinkedType ==
  ASSUME NEW h \in Handle, NEW p
  PROVE  Unlinked(h, p) \in Handle /\ Unlinked(h, p).flags = h.flags
BY EmptyType DEF Unlinked, WhenRemoved, Handle, Detached

(* A path that is moved along with a directory is a path.                  *)
LEMMA RebaseType ==
  ASSUME NEW p \in Path, NEW old \in Path, NEW new \in Path
  PROVE  Rebase(p, old, new) \in Path
<1>1. SubSeq(p, Len(old) + 1, Len(p)) \in Path
  BY SubSeqProperties, \A i \in Len(old) + 1 .. Len(p) : p[i] \in Name DEF Path
<1> QED
  BY <1>1, ConcatProperties DEF Rebase, Path

(* A path that was moved along and is moved back is the path it was.        *)
LEMMA RebaseBack ==
  ASSUME NEW p \in Path, NEW old \in Path, NEW new \in Path, IsPrefix(old, p)
  PROVE  Rebase(Rebase(p, old, new), new, old) = p
<1> DEFINE tail == SubSeq(p, Len(old) + 1, Len(p))
           q == new \o tail
           back == SubSeq(q, Len(new) + 1, Len(q))
<1>1. /\ tail \in Path /\ Len(tail) = Len(p) - Len(old)
      /\ \A i \in 1 .. Len(tail) : tail[i] = p[Len(old) + i]
  <2>1. Len(old) \in Nat /\ Len(p) \in Nat /\ Len(old) <= Len(p)
    BY DEF IsPrefix, Path
  <2>2. \A i \in Len(old) + 1 .. Len(p) : p[i] \in Name
    BY <2>1 DEF Path
  <2> QED
    BY <2>1, <2>2, SubSeqProperties DEF Path
<1>2. /\ q \in Path /\ Len(q) = Len(new) + Len(tail)
      /\ \A i \in 1 .. Len(tail) : q[Len(new) + i] = tail[i]
  BY <1>1, ConcatProperties DEF Path
<1>3. back = tail
  <2>1. Len(new) \in Nat /\ Len(tail) \in Nat
    BY <1>1 DEF Path
  <2>2. \A i \in Len(new) + 1 .. Len(q) : q[i] \in Name
    BY <1>2, <2>1 DEF Path
  <2>3. /\ back \in Path /\ Len(back) = Len(tail)
        /\ \A i \in 1 .. Len(tail) : back[i] = q[Len(new) + i]
    <3>1. Len(new) + 1 \in Int /\ Len(q) \in Int
      BY <1>2, <2>1
    <3> HIDE DEF q, tail
    <3>2. /\ back \in Path
          /\ Len(back) = IF Len(new) + 1 <= Len(q) THEN Len(q) - (Len(new) + 1) + 1 ELSE 0
          /\ \A i \in 1 .. Len(q) - (Len(new) + 1) + 1 : back[i] = q[Len(new) + 1 + i - 1]
      BY <2>2, <3>1, SubSeqProperties DEF Path
    <3> QED
      BY <1>2, <2>1, <3>2
  <2> QED
    BY <1>1, <1>2, <2>3, SeqEqual DEF Path
<1>4. old \o tail = p
  <2>1. \A i \in 1 .. Len(old) : old[i] = p[i]
    <3>1. /\ Len(old) \in Nat /\ Len(p) \in Nat /\ Len(old) <= Len(p)
          /\ SubSeq(old, 1, Len(old)) = SubSeq(p, 1, Len(old))
      BY DEF IsPrefix, Path
    <3>2. \A i \in 1 .. Len(old) : old[i] \in Name /\ p[i] \in Name
      BY <3>1 DEF Path
    <3>3. \A i \in 1 .. Len(old) : SubSeq(old, 1, Len(old))[i] = old[i]
                                /\ SubSeq(p, 1, Len(old))[i] = p[i]
      BY <3>1, <3>2, SubSeqProperties
    <3> QED
      BY <3>1, <3>3
  <2>2. /\ old \o tail \in Path /\ Len(old \o tail) = Len(p)
        /\ \A i \in 1 .. Len(p) :
             (old \o tail)[i] = IF i <= Len(old) THEN old[i] ELSE tail[i - Len(old)]
    BY <1>1, ConcatProperties DEF Path
  <2>3. \A i \in 1 .. Len(p) : (old \o tail)[i] = p[i]
    BY <1>1, <2>1, <2>2 DEF Path
  <2> QED
    BY <2>2, <2>3, SeqEqual DEF Path
<1> QED
  BY <1>3, <1>4 DEF Rebase

(* So is one that is told that an entry was renamed.                       *)
LEMMA RelinkedType ==
  ASSUME NEW h \in Handle, NEW old \in Path, NEW new \in Path
  PROVE  Relinked(h, old, new) \in Handle /\ Relinked(h, old, new).flags = h.flags
<1>1. h.at \in Path /\ h.name \in Path
  BY DEF Handle
<1>2. \A q \in Path : WhenRenamed(q, old, new) \in Path
  BY RebaseType, EmptyType DEF WhenRenamed, Detached
<1>3. Detached \in Path
  BY EmptyType DEF Detached
<1> QED
  BY <1>1, <1>2, <1>3 DEF Relinked, Handle

-----------------------------------------------------------------------------
(* A volume with an entry put in is a volume,                              *)
LEMMA PutType ==
  ASSUME NEW Attr, NEW vol, IsVolume(vol, Attr), NEW p \in Path, NEW e \in Entry(Attr)
  PROVE  IsVolume(Put(vol, p, e), Attr)
BY DEF IsVolume, Put

(* where a new file or directory is an entry.                              *)
LEMMA NewEntryType ==
  ASSUME NEW Attr, NEW type \in {"dir", "reg"}
  PROVE  NewEntry(type) \in Entry(Attr)
<1>1. <<>> \in {s \in Seq(Attr) : Len(s) <= 1}
  BY EmptySeq
<1> QED
  BY <1>1, EmptyType DEF NewEntry, Entry

(* A volume with an entry taken out is a volume.                           *)
LEMMA RemovedType ==
  ASSUME NEW Attr, NEW vol, IsVolume(vol, Attr), NEW p
  PROVE  IsVolume(Removed(vol, p), Attr)
BY DEF IsVolume, Removed

(* A volume that a handle was synced to is a volume.                       *)
LEMMA SyncedType ==
  ASSUME NEW Attr, NEW vol, IsVolume(vol, Attr), NEW h \in Handle
  PROVE  IsVolume(Synced(vol, h), Attr)
<1>1. \A e \in Entry(Attr) : [e EXCEPT !.data = h.data] \in Entry(Attr)
  BY DEF Entry, Handle
<1> QED
  BY <1>1 DEF Synced, IsVolume

(* A volume with an entry, and what is below it, renamed is a volume.      *)
LEMMA RenamedType ==
  ASSUME NEW Attr, NEW vol, IsVolume(vol, Attr), NEW old \in Path, NEW new \in Path
  PROVE  IsVolume(Renamed(vol, old, new), Attr)
<1> DEFINE moved == {p \in DOMAIN vol : IsPrefix(old, p)}
           kept  == DOMAIN vol \ (moved \cup {new})
           there == IF IsPrefix(old, new) THEN {} ELSE {Rebase(p, old, new) : p \in moved}
           Entry_at(q) == IF q \in kept THEN vol[q] ELSE vol[Rebase(q, new, old)]
<1>1. DOMAIN vol \subseteq Path /\ \A p \in DOMAIN vol : vol[p] \in Entry(Attr)
  BY DEF IsVolume
<1>2. there \subseteq Path /\ \A q \in there : vol[Rebase(q, new, old)] \in Entry(Attr)
  BY <1>1, RebaseType, RebaseBack
<1>3. kept \cup there \subseteq Path /\ \A q \in kept \cup there : Entry_at(q) \in Entry(Attr)
  BY <1>1, <1>2
<1>4. IsVolume([q \in kept \cup there |-> Entry_at(q)], Attr)
  <2> HIDE DEF kept, there, Entry_at
  <2> QED
    BY <1>3 DEF IsVolume
<1> QED
  BY <1>4 DEF Renamed
=============================================================================
