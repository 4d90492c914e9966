------------------------ MODULE LittleFS_tree_proofs ------------------------
(***************************************************************************)
(* The shape of a volume of LittleFS: what lies above an entry is a        *)
(* directory, and making, removing, renaming and syncing keep it so.       *)
(***************************************************************************)
EXTENDS LittleFS_proofs

(* One path is at or above another when its names are the first ones of it.*)
LEMMA PrefixElements ==
  ASSUME NEW p \in Path, NEW q \in Path
  PROVE  IsPrefix(p, q) <=> Len(p) <= Len(q) /\ \A i \in 1 .. Len(p) : p[i] = q[i]
<1> DEFINE n == Len(p)
<1>1. n \in Nat /\ Len(q) \in Nat
  BY DEF Path
<1>2. ASSUME n <= Len(q)
      PROVE  SubSeq(p, 1, n) = SubSeq(q, 1, n) <=> \A i \in 1 .. n : p[i] = q[i]
  <2>1. \A i \in 1 .. n : p[i] \in Name /\ q[i] \in Name
    BY <1>1, <1>2 DEF Path
  <2> HIDE DEF n
  <2>2. /\ SubSeq(p, 1, n) \in Path /\ Len(SubSeq(p, 1, n)) = n
        /\ \A i \in 1 .. n : SubSeq(p, 1, n)[i] = p[i]
    BY <1>1, <2>1, SubSeqProperties DEF Path
  <2>3. /\ SubSeq(q, 1, n) \in Path /\ Len(SubSeq(q, 1, n)) = n
        /\ \A i \in 1 .. n : SubSeq(q, 1, n)[i] = q[i]
    BY <1>1, <2>1, SubSeqProperties DEF Path
  <2>4. (\A i \in 1 .. n : p[i] = q[i]) => SubSeq(p, 1, n) = SubSeq(q, 1, n)
    BY <2>2, <2>3, SeqEqual DEF Path
  <2>5. SubSeq(p, 1, n) = SubSeq(q, 1, n) => \A i \in 1 .. n : p[i] = q[i]
    BY <2>2, <2>3
  <2> QED
    BY <2>4, <2>5
<1> QED
  BY <1>1, <1>2 DEF IsPrefix

(* Being at or above is an order, in which what is above one path is       *)
(* comparable, and the root is above everything.                           *)
LEMMA PrefixOrder ==
  ASSUME NEW p \in Path, NEW q \in Path, NEW r \in Path
  PROVE  /\ IsPrefix(p, p)
         /\ IsPrefix(Root, p)
         /\ IsPrefix(p, q) /\ IsPrefix(q, p) => p = q
         /\ IsPrefix(p, q) /\ IsPrefix(q, r) => IsPrefix(p, r)
         /\ IsPrefix(p, r) /\ IsPrefix(q, r) => IsPrefix(p, q) \/ IsPrefix(q, p)
<1>1. Len(p) \in Nat /\ Len(q) \in Nat /\ Len(r) \in Nat
  BY DEF Path
<1>2. IsPrefix(p, p)
  BY <1>1, PrefixElements
<1>3. IsPrefix(Root, p)
  <2>1. Root \in Path /\ Len(Root) = 0
    BY EmptySeq, EmptyType DEF Root
  <2> QED
    BY <1>1, <2>1, PrefixElements
<1>4. IsPrefix(p, q) /\ IsPrefix(q, p) => p = q
  <2>1. IsPrefix(p, q) /\ IsPrefix(q, p) =>
          Len(p) = Len(q) /\ \A i \in 1 .. Len(p) : p[i] = q[i]
    BY <1>1, PrefixElements
  <2> QED
    BY <2>1, SeqEqual DEF Path
<1>5. IsPrefix(p, q) /\ IsPrefix(q, r) => IsPrefix(p, r)
  BY <1>1, PrefixElements
<1>6. IsPrefix(p, r) /\ IsPrefix(q, r) => IsPrefix(p, q) \/ IsPrefix(q, p)
  BY <1>1, PrefixElements
<1> QED
  BY <1>2, <1>3, <1>4, <1>5, <1>6

(* The directory of a path is above it, and below all others that are.     *)
LEMMA FrontFacts ==
  ASSUME NEW p \in Path \ {Root}
  PROVE  /\ Front(p) \in Path
         /\ IsStrictPrefix(Front(p), p)
         /\ \A q \in Path : IsStrictPrefix(q, p) => IsPrefix(q, Front(p))
<1>1. Len(p) \in Nat \ {0}
  BY EmptySeq DEF Path, Root
<1>2. /\ Front(p) \in Path /\ Len(Front(p)) = Len(p) - 1
      /\ \A i \in 1 .. Len(p) - 1 : Front(p)[i] = p[i]
  <2> DEFINE n == Len(p) - 1
  <2>1. n \in Nat /\ n < Len(p) /\ \A i \in 1 .. n : p[i] \in Name
    BY <1>1 DEF Path
  <2> HIDE DEF n
  <2>2. /\ SubSeq(p, 1, n) \in Path /\ Len(SubSeq(p, 1, n)) = n
        /\ \A i \in 1 .. n : SubSeq(p, 1, n)[i] = p[i]
    BY <2>1, SubSeqProperties DEF Path
  <2> QED
    BY <2>2 DEF Front, n
<1>3. IsStrictPrefix(Front(p), p)
  <2>1. IsPrefix(Front(p), p)
    BY <1>1, <1>2, PrefixElements
  <2>2. Front(p) # p
    BY <1>1, <1>2
  <2> QED
    BY <2>1, <2>2 DEF IsStrictPrefix
<1>4. ASSUME NEW q \in Path, IsStrictPrefix(q, p)
      PROVE  IsPrefix(q, Front(p))
  <2>1. /\ Len(q) \in Nat /\ Len(q) <= Len(p) /\ q # p
        /\ \A i \in 1 .. Len(q) : q[i] = p[i]
    BY <1>4, PrefixElements DEF IsStrictPrefix, Path
  <2>2. Len(q) # Len(p)
    BY <2>1, SeqEqual DEF Path
  <2>3. Len(q) <= Len(Front(p)) /\ \A i \in 1 .. Len(q) : q[i] = Front(p)[i]
    BY <1>1, <1>2, <2>1, <2>2
  <2> QED
    BY <1>2, <2>3, PrefixElements
<1> QED
  BY <1>2, <1>3, <1>4

(* A path that moves along with a directory stays below it, and so does    *)
(* what lies between the two.                                              *)
LEMMA RebaseElements ==
  ASSUME NEW p \in Path, NEW old \in Path, NEW new \in Path, IsPrefix(old, p)
  PROVE  LET q == Rebase(p, old, new)
         IN  /\ q \in Path /\ Len(q) = Len(new) + (Len(p) - Len(old))
             /\ \A i \in 1 .. Len(new) : q[i] = new[i]
             /\ \A i \in 1 .. Len(p) - Len(old) : q[Len(new) + i] = p[Len(old) + i]
<1> DEFINE tail == SubSeq(p, Len(old) + 1, Len(p))
<1>1. Len(old) \in Nat /\ Len(p) \in Nat /\ Len(old) <= Len(p) /\ Len(new) \in Nat
  BY DEF IsPrefix, Path
<1>2. /\ tail \in Path /\ Len(tail) = Len(p) - Len(old)
      /\ \A i \in 1 .. Len(tail) : tail[i] = p[Len(old) + i]
  <2>1. \A i \in Len(old) + 1 .. Len(p) : p[i] \in Name
    BY <1>1 DEF Path
  <2> QED
    BY <1>1, <2>1, SubSeqProperties DEF Path
<1> HIDE DEF tail
<1>3. /\ new \o tail \in Path /\ Len(new \o tail) = Len(new) + Len(tail)
      /\ \A i \in 1 .. Len(new) + Len(tail) :
           (new \o tail)[i] = IF i <= Len(new) THEN new[i] ELSE tail[i - Len(new)]
  BY <1>2, ConcatProperties DEF Path
<1>4. Rebase(p, old, new) = new \o tail
  BY DEF Rebase, tail
<1> QED
  BY <1>1, <1>2, <1>3, <1>4

(* A rename keeps the order of what is below the renamed entry.            *)
LEMMA RebaseOrder ==
  ASSUME NEW p \in Path, NEW q \in Path, NEW old \in Path, NEW new \in Path,
         IsPrefix(old, q), IsPrefix(q, p)
  PROVE  /\ IsPrefix(new, Rebase(p, old, new))
         /\ IsPrefix(Rebase(q, old, new), Rebase(p, old, new))
<1>1. IsPrefix(old, p)
  BY PrefixOrder
<1>2. Len(old) \in Nat /\ Len(p) \in Nat /\ Len(q) \in Nat /\ Len(new) \in Nat
      /\ Len(old) <= Len(q) /\ Len(q) <= Len(p) /\ \A i \in 1 .. Len(q) : q[i] = p[i]
  BY PrefixElements DEF Path
<1> DEFINE a == Rebase(q, old, new)
           b == Rebase(p, old, new)
<1>3. /\ a \in Path /\ Len(a) = Len(new) + (Len(q) - Len(old))
      /\ \A i \in 1 .. Len(new) : a[i] = new[i]
      /\ \A i \in 1 .. Len(q) - Len(old) : a[Len(new) + i] = q[Len(old) + i]
  BY RebaseElements
<1>4. /\ b \in Path /\ Len(b) = Len(new) + (Len(p) - Len(old))
      /\ \A i \in 1 .. Len(new) : b[i] = new[i]
      /\ \A i \in 1 .. Len(p) - Len(old) : b[Len(new) + i] = p[Len(old) + i]
  BY <1>1, RebaseElements
<1> HIDE DEF a, b
<1>5. \A i \in 1 .. Len(a) : a[i] = b[i]
  <2>1. ASSUME NEW i \in 1 .. Len(a), ~ i <= Len(new) PROVE a[i] = b[i]
    <3>1. PICK k \in 1 .. Len(q) - Len(old) : i = Len(new) + k
      <4>1. i - Len(new) \in 1 .. Len(q) - Len(old) /\ i = Len(new) + (i - Len(new))
        BY <1>2, <1>3, <2>1
      <4> QED
        BY <4>1
    <3>2. Len(old) + k \in 1 .. Len(q) /\ k \in 1 .. Len(p) - Len(old)
      BY <1>2
    <3>3. q[Len(old) + k] = p[Len(old) + k]
      BY <1>2, <3>2
    <3>4. a[i] = q[Len(old) + k] /\ b[i] = p[Len(old) + k]
      BY <1>3, <1>4, <3>1, <3>2
    <3> QED
      BY <3>3, <3>4
  <2> QED
    BY <1>2, <1>3, <1>4, <2>1
<1>6. IsPrefix(a, b)
  BY <1>2, <1>3, <1>4, <1>5, PrefixElements
<1>7. IsPrefix(new, b)
  BY <1>2, <1>4, PrefixElements
<1> QED
  BY <1>6, <1>7 DEF a, b

-----------------------------------------------------------------------------
(* What is above an entry is a directory: as strong as that every entry    *)
(* but the root is in one, without an induction along the path.            *)
Nested(vol) ==
  /\ IsDir(vol, Root)
  /\ \A q \in DOMAIN vol, p \in Path : IsStrictPrefix(p, q) => IsDir(vol, p)

(* A new entry can be made only in a directory.                            *)
LEMMA CreateFacts ==
  ASSUME NEW vol, Nested(vol), NEW p \in Path, p \notin DOMAIN vol, NEW slash,
         CreateError(vol, p, slash) = "OK"
  PROVE  p # Root /\ IsDir(vol, Front(p))
<1>1. NameError(vol, p, slash) = "OK"
  BY DEF CreateError
<1>2. IsDir(vol, Front(p))
  BY <1>1 DEF NameError
<1> QED
  BY <1>2 DEF Nested, IsDir

(* A volume with the same entries of the same types is as well formed,     *)
LEMMA SameShape ==
  ASSUME NEW vol, Nested(vol), NEW other, DOMAIN other = DOMAIN vol,
         \A p \in DOMAIN vol : other[p].type = vol[p].type
  PROVE  Nested(other)
BY DEF Nested, IsDir

(* one with an entry made in a directory,                                  *)
LEMMA PutNested ==
  ASSUME NEW vol, DOMAIN vol \subseteq Path, Nested(vol),
         NEW p \in Path \ {Root}, p \notin DOMAIN vol, IsDir(vol, Front(p)), NEW e
  PROVE  Nested(Put(vol, p, e))
<1> DEFINE made == Put(vol, p, e)
<1>1. /\ DOMAIN made = DOMAIN vol \cup {p}
      /\ \A q \in DOMAIN vol : made[q] = vol[q]
  BY DEF Put
<1>2. \A q : IsDir(vol, q) => IsDir(made, q)
  BY <1>1 DEF IsDir
<1>3. ASSUME NEW q \in Path, IsStrictPrefix(q, p) PROVE IsDir(vol, q)
  <2>1. IsPrefix(q, Front(p)) /\ Front(p) \in DOMAIN vol
    BY <1>3, FrontFacts DEF IsDir
  <2> QED
    BY <2>1 DEF Nested, IsStrictPrefix
<1> QED
  BY <1>1, <1>2, <1>3 DEF Nested

(* one without an entry that had none below it.                            *)
LEMMA RemovedNested ==
  ASSUME NEW vol, DOMAIN vol \subseteq Path, Nested(vol), NEW p \in Path,
         RemoveError(vol, p) = "OK"
  PROVE  Nested(Removed(vol, p))
<1>1. p # Root /\ ~HasEntries(vol, p)
  BY DEF RemoveError, Find
<1>2. /\ DOMAIN Removed(vol, p) = DOMAIN vol \ {p}
      /\ \A q \in DOMAIN vol \ {p} : Removed(vol, p)[q] = vol[q]
  BY DEF Removed
<1> QED
  BY <1>1, <1>2 DEF Nested, IsDir, HasEntries

(* What littlefs has checked of a rename: the root stays, and an entry     *)
(* takes the place of nothing, or of one without entries.                  *)
Renamable(vol, old, new) ==
  /\ old \in DOMAIN vol /\ old # Root /\ new # Root /\ old # new
  /\ ~HasEntries(vol, new)
  /\ new \notin DOMAIN vol => IsDir(vol, Front(new))

(* A rename that littlefs makes is such a rename.                          *)
LEMMA RenameFacts ==
  ASSUME NEW vol, Nested(vol), NEW old \in Path, NEW new \in Path, old # new,
         RenameError(vol, old, new) = "OK"
  PROVE  Renamable(vol, old, new)
<1>1. old \in DOMAIN vol /\ old # Root /\ new # Root
  BY DEF RenameError, Find
<1>2. CASE new \in DOMAIN vol
  BY <1>1, <1>2 DEF RenameError, Find, Renamable
<1>3. CASE new \notin DOMAIN vol
  <2>1. NameError(vol, new, FALSE) = "OK"
    BY <1>1, <1>3 DEF RenameError, Find
  <2>2. IsDir(vol, Front(new))
    BY <2>1 DEF NameError
  <2>3. ~HasEntries(vol, new)
    BY <1>3 DEF HasEntries, Nested, IsDir
  <2> QED
    BY <1>1, <2>2, <2>3 DEF Renamable
<1> QED
  BY <1>2, <1>3

(* The entries that a rename leaves where they are,                        *)
Kept(vol, old, new) == {q \in DOMAIN vol : ~IsPrefix(old, q) /\ q # new}

(* and those it moves: nothing below the new name was there before.        *)
LEMMA RenamedFacts ==
  ASSUME NEW vol, DOMAIN vol \subseteq Path, Nested(vol), NEW old \in Path, NEW new \in Path,
         Renamable(vol, old, new)
  PROVE  LET after == Renamed(vol, old, new)
             kept  == Kept(vol, old, new)
         IN  /\ kept \subseteq DOMAIN after
             /\ \A q \in kept : after[q] = vol[q] /\ ~IsPrefix(new, q)
             /\ ~IsPrefix(old, new) =>
                  \A p \in DOMAIN vol : IsPrefix(old, p) =>
                    /\ Rebase(p, old, new) \in DOMAIN after
                    /\ after[Rebase(p, old, new)] = vol[p]
             /\ \A q \in DOMAIN after \ kept :
                  /\ ~IsPrefix(old, new)
                  /\ \E p \in DOMAIN vol : IsPrefix(old, p) /\ q = Rebase(p, old, new)
<1> DEFINE moved == {p \in DOMAIN vol : IsPrefix(old, p)}
           kept  == DOMAIN vol \ (moved \cup {new})
           there == IF IsPrefix(old, new) THEN {} ELSE {Rebase(p, old, new) : p \in moved}
           after == Renamed(vol, old, new)
<1>1. kept = Kept(vol, old, new)
  BY DEF Kept
<1>2. after = [q \in kept \cup there |-> IF q \in kept THEN vol[q]
                                        ELSE vol[Rebase(q, new, old)]]
  BY DEF Renamed, Renamable
<1>3. \A q \in kept : ~IsPrefix(new, q)
  BY DEF Renamable, HasEntries, IsStrictPrefix
<1> HIDE DEF after
<1>4. ASSUME NEW p \in moved, ~IsPrefix(old, new)
      PROVE  LET q == Rebase(p, old, new) IN q \in DOMAIN after /\ after[q] = vol[p]
  <2> DEFINE q == Rebase(p, old, new)
  <2>1. q \in there /\ IsPrefix(new, q)
    BY <1>4, PrefixOrder, RebaseOrder
  <2>2. q \notin kept
    BY <1>3, <2>1
  <2>3. Rebase(q, new, old) = p
    BY RebaseBack
  <2> HIDE DEF q, kept, there
  <2> QED
    BY <1>2, <2>1, <2>2, <2>3 DEF q
<1>5. \A q \in there : ~IsPrefix(old, new) /\ \E p \in moved : q = Rebase(p, old, new)
  OBVIOUS
<1>6. kept \subseteq DOMAIN after /\ \A q \in kept : after[q] = vol[q]
  <2> HIDE DEF kept, there
  <2> QED
    BY <1>2
<1>7. \A q \in DOMAIN after \ kept : q \in there
  <2> HIDE DEF kept, there
  <2> QED
    BY <1>2
<1> HIDE DEF kept, there
<1> QED
  BY <1>1, <1>3, <1>4, <1>5, <1>6, <1>7 DEF after

(* A volume with an entry, and what is below it, renamed is well formed.   *)
LEMMA RenamedNested ==
  ASSUME NEW vol, DOMAIN vol \subseteq Path, Nested(vol), NEW old \in Path, NEW new \in Path,
         Renamable(vol, old, new)
  PROVE  Nested(Renamed(vol, old, new))
<1> DEFINE after == Renamed(vol, old, new)
           kept == Kept(vol, old, new)
<1>1. /\ kept \subseteq DOMAIN after
      /\ \A q \in kept : after[q] = vol[q]
      /\ ~IsPrefix(old, new) =>
           \A p \in DOMAIN vol : IsPrefix(old, p) =>
             /\ Rebase(p, old, new) \in DOMAIN after
             /\ after[Rebase(p, old, new)] = vol[p]
      /\ \A q \in DOMAIN after \ kept :
           /\ ~IsPrefix(old, new)
           /\ \E p \in DOMAIN vol : IsPrefix(old, p) /\ q = Rebase(p, old, new)
  BY RenamedFacts
<1> HIDE DEF after
<1>2. \A p : p \in kept /\ IsDir(vol, p) => IsDir(after, p)
  BY <1>1 DEF IsDir
<1>3. IsDir(after, Root)
  <2>1. ~IsPrefix(old, Root)
    BY PrefixOrder, EmptyType DEF Renamable
  <2>2. Root \in kept
    BY <2>1 DEF Kept, Nested, IsDir, Renamable
  <2> QED
    BY <1>2, <2>2 DEF Nested
<1>4. ASSUME NEW q \in kept, NEW p \in Path, IsStrictPrefix(p, q)
      PROVE  IsDir(after, p)
  <2>1. q \in DOMAIN vol /\ ~IsPrefix(old, q) /\ q \in Path
    BY <1>4 DEF Kept
  <2>2. IsDir(vol, p)
    BY <1>4, <2>1 DEF Nested
  <2>3. ~IsPrefix(old, p)
    BY <1>4, <2>1, PrefixOrder DEF IsStrictPrefix
  <2>4. p # new
    BY <1>4, <2>1 DEF Renamable, HasEntries
  <2> QED
    BY <1>2, <2>2, <2>3, <2>4 DEF Kept, IsDir
<1>5. ASSUME NEW q \in DOMAIN after \ kept, NEW p \in Path, IsStrictPrefix(p, q)
      PROVE  IsDir(after, p)
  <2>1. PICK r \in DOMAIN vol : ~IsPrefix(old, new) /\ IsPrefix(old, r) /\ q = Rebase(r, old, new)
    BY <1>1, <1>5
  <2>2. r \in Path /\ q \in Path /\ IsPrefix(new, q) /\ Rebase(q, new, old) = r
    BY <2>1, PrefixOrder, RebaseOrder, RebaseType, RebaseBack
  <2>3. IsPrefix(p, q) /\ p # q
    BY <1>5 DEF IsStrictPrefix
  <2>4. CASE IsPrefix(new, p)
    <3> DEFINE s == Rebase(p, new, old)
    <3>1. s \in Path /\ Rebase(s, old, new) = p
      BY <2>4, RebaseType, RebaseBack
    <3>2. IsPrefix(old, s) /\ IsPrefix(s, r)
      <4>1. IsPrefix(s, Rebase(q, new, old))
        BY <2>2, <2>3, <2>4, RebaseOrder
      <4>2. IsPrefix(old, s)
        BY <2>4, PrefixOrder, RebaseOrder
      <4> QED
        BY <2>2, <4>1, <4>2
    <3>3. s # r
      BY <2>1, <2>3, <3>1
    <3>4. IsDir(vol, s)
      BY <2>1, <3>1, <3>2, <3>3 DEF Nested, IsStrictPrefix
    <3> QED
      BY <1>1, <2>1, <3>1, <3>2, <3>4 DEF IsDir
  <2>5. CASE ~IsPrefix(new, p)
    <3>1. IsStrictPrefix(p, new)
      BY <2>2, <2>3, <2>5, PrefixOrder DEF IsStrictPrefix
    <3>2. IsDir(vol, p)
      <4>1. CASE new \in DOMAIN vol
        BY <3>1, <4>1 DEF Nested
      <4>2. CASE new \notin DOMAIN vol
        <5>1. IsPrefix(p, Front(new)) /\ IsDir(vol, Front(new))
          BY <3>1, <4>2, FrontFacts DEF Renamable
        <5> QED
          BY <5>1 DEF Nested, IsStrictPrefix, IsDir
      <4> QED
        BY <4>1, <4>2
    <3>3. ~IsPrefix(old, p)
      BY <2>1, <3>1, PrefixOrder DEF IsStrictPrefix
    <3>4. p # new
      BY <3>1 DEF IsStrictPrefix
    <3> QED
      BY <1>2, <3>2, <3>3, <3>4 DEF Kept, IsDir
  <2> QED
    BY <2>4, <2>5
<1> QED
  BY <1>3, <1>4, <1>5 DEF Nested, after

(* An entry whose name was taken before and after a rename is the one it   *)
(* was, or the renamed one, whose old name is free.                        *)
LEMMA RenamedEntries ==
  ASSUME NEW vol, DOMAIN vol \subseteq Path, Nested(vol), NEW old \in Path, NEW new \in Path,
         Renamable(vol, old, new),
         NEW p \in DOMAIN vol \cap DOMAIN Renamed(vol, old, new)
  PROVE  \/ Renamed(vol, old, new)[p] = vol[p]
         \/ /\ Renamed(vol, old, new)[p] = vol[old]
            /\ old \in DOMAIN vol \ DOMAIN Renamed(vol, old, new)
<1> DEFINE after == Renamed(vol, old, new)
           kept == Kept(vol, old, new)
<1>1. /\ \A q \in kept : after[q] = vol[q]
      /\ ~IsPrefix(old, new) =>
           \A r \in DOMAIN vol : IsPrefix(old, r) => after[Rebase(r, old, new)] = vol[r]
      /\ \A q \in DOMAIN after \ kept :
           /\ ~IsPrefix(old, new)
           /\ \E r \in DOMAIN vol : IsPrefix(old, r) /\ q = Rebase(r, old, new)
  BY RenamedFacts
<1>2. \A r \in DOMAIN vol : IsPrefix(old, r) => IsPrefix(new, Rebase(r, old, new))
  BY PrefixOrder, RebaseOrder
<1> HIDE DEF after
<1>3. ASSUME p \notin kept PROVE after[p] = vol[old] /\ old \in DOMAIN vol \ DOMAIN after
  <2>1. PICK r \in DOMAIN vol : ~IsPrefix(old, new) /\ IsPrefix(old, r) /\ p = Rebase(r, old, new)
    BY <1>1, <1>3 DEF after
  <2>2. p = new
    BY <1>2, <2>1 DEF Renamable, HasEntries, IsStrictPrefix
  <2>3. r = old
    <3>1. r = Rebase(new, new, old) /\ old = Rebase(Rebase(old, old, new), new, old)
      <4>1. r \in Path /\ IsPrefix(old, r) /\ Rebase(r, old, new) = new
        BY <2>1, <2>2
      <4>2. Rebase(Rebase(r, old, new), new, old) = r
        BY <4>1, RebaseBack
      <4>3. IsPrefix(old, old)
        BY PrefixOrder
      <4>4. Rebase(Rebase(old, old, new), new, old) = old
        BY <4>3, RebaseBack
      <4> QED
        BY <4>1, <4>2, <4>4
    <3>2. Rebase(old, old, new) = new
      <4>1. /\ Rebase(old, old, new) \in Path /\ Len(Rebase(old, old, new)) = Len(new)
            /\ \A i \in 1 .. Len(new) : Rebase(old, old, new)[i] = new[i]
        <5>1. IsPrefix(old, old) /\ Len(old) \in Nat /\ Len(new) \in Nat
          BY PrefixOrder DEF Path
        <5>2. /\ Rebase(old, old, new) \in Path
              /\ Len(Rebase(old, old, new)) = Len(new) + (Len(old) - Len(old))
              /\ \A i \in 1 .. Len(new) : Rebase(old, old, new)[i] = new[i]
          BY <5>1, RebaseElements, Zenon
        <5>3. Len(new) + (Len(old) - Len(old)) = Len(new)
          BY <5>1
        <5> QED
          BY <5>2, <5>3
      <4> QED
        BY <4>1, SeqEqual DEF Path
    <3> QED
      BY <3>1, <3>2
  <2>4. old \in DOMAIN vol /\ ~IsPrefix(new, old)
    BY <2>2 DEF Renamable, HasEntries, IsStrictPrefix
  <2>5. old \notin DOMAIN after
    <3>1. old \notin kept
      BY PrefixOrder DEF Kept
    <3> QED
      BY <1>1, <1>2, <2>4, <3>1
  <2> QED
    BY <1>1, <2>1, <2>3, <2>4, <2>5
<1> QED
  BY <1>1, <1>3 DEF after

(* A handle that is told of a rename belongs to a regular file as before.  *)
LEMMA RelinkedAttached ==
  ASSUME NEW vol, DOMAIN vol \subseteq Path, Nested(vol), NEW old \in Path, NEW new \in Path,
         Renamable(vol, old, new),
         NEW h \in Handle, h.at # Detached => IsReg(vol, h.at)
  PROVE  LET g == Relinked(h, old, new)
         IN  /\ g.data = h.data /\ g.dirty = h.dirty
             /\ g.at # Detached => h.at # Detached /\ IsReg(Renamed(vol, old, new), g.at)
<1> DEFINE g == Relinked(h, old, new)
           after == Renamed(vol, old, new)
           kept == Kept(vol, old, new)
<1>1. /\ kept \subseteq DOMAIN after
      /\ \A q \in kept : after[q] = vol[q]
      /\ ~IsPrefix(old, new) =>
           \A p \in DOMAIN vol : IsPrefix(old, p) =>
             /\ Rebase(p, old, new) \in DOMAIN after
             /\ after[Rebase(p, old, new)] = vol[p]
  BY RenamedFacts
<1>2. ~IsPrefix(old, Detached) /\ new # Detached
  BY PrefixOrder, EmptyType DEF Renamable, Detached
<1>n. /\ g.data = h.data /\ g.dirty = h.dirty
      /\ g.at = IF h.at = old /\ old # new THEN Detached ELSE WhenRenamed(h.at, old, new)
  BY DEF Relinked, Handle
<1> HIDE DEF after, g
<1>3. CASE h.at \in {old, new} \/ (IsPrefix(old, h.at) /\ IsPrefix(old, new))
  <2>1. g.at = Detached
    BY <1>3, <1>n DEF WhenRenamed, Renamable
  <2> QED
    BY <1>n, <2>1 DEF g, after
<1>4. CASE /\ ~(h.at \in {old, new} \/ (IsPrefix(old, h.at) /\ IsPrefix(old, new)))
           /\ IsPrefix(old, h.at)
  <2>1. g.at = Rebase(h.at, old, new)
    BY <1>4, <1>n DEF WhenRenamed, Renamable
  <2>2. h.at # Detached
    BY <1>2, <1>4
  <2>3. IsReg(after, Rebase(h.at, old, new))
    BY <1>1, <1>4, <2>2 DEF IsReg
  <2> QED
    BY <1>n, <2>1, <2>2, <2>3 DEF g, after
<1>5. CASE h.at # new /\ ~IsPrefix(old, h.at) /\ h.at # old
  <2>1. g.at = h.at
    BY <1>5, <1>n DEF WhenRenamed
  <2>2. h.at # Detached => IsReg(after, h.at)
    BY <1>1, <1>5 DEF Kept, IsReg
  <2> QED
    BY <1>n, <2>1, <2>2 DEF g, after
<1> QED
  BY <1>3, <1>4, <1>5 DEF g, after

-----------------------------------------------------------------------------
(* What a sync changes: the contents of the regular file it belongs to.    *)
LEMMA SyncedFacts ==
  ASSUME NEW Attr, NEW vol, IsVolume(vol, Attr), Nested(vol), NEW h,
         h.at # Detached => IsReg(vol, h.at)
  PROVE  LET after == Synced(vol, h)
         IN  /\ Nested(after) /\ DOMAIN after = DOMAIN vol
             /\ \A p \in DOMAIN vol :
                  /\ after[p].type = vol[p].type
                  /\ after[p].attr = vol[p].attr
                  /\ after[p].data = IF h.dirty /\ h.at # Detached /\ p = h.at
                                     THEN h.data ELSE vol[p].data
<1> DEFINE after == Synced(vol, h)
<1>1. CASE h.dirty /\ h.at # Detached
  <2>1. after = [vol EXCEPT ![h.at] = [vol[h.at] EXCEPT !.data = h.data]]
    BY <1>1 DEF Synced
  <2>2. h.at \in DOMAIN vol /\ vol[h.at] \in Entry(Attr)
    BY <1>1 DEF IsReg, IsVolume
  <2>3. LET e == [vol[h.at] EXCEPT !.data = h.data]
        IN  e.type = vol[h.at].type /\ e.attr = vol[h.at].attr /\ e.data = h.data
    BY <2>2 DEF Entry
  <2>4. DOMAIN after = DOMAIN vol
    BY <2>1
  <2>5. /\ after[h.at] = [vol[h.at] EXCEPT !.data = h.data]
        /\ \A p \in DOMAIN vol \ {h.at} : after[p] = vol[p]
    BY <2>1, <2>2
  <2> HIDE DEF after
  <2>6. \A p \in DOMAIN vol : after[p].type = vol[p].type
    BY <2>3, <2>5
  <2> QED
    BY <1>1, <2>3, <2>4, <2>5, <2>6, SameShape DEF after
<1>2. CASE ~(h.dirty /\ h.at # Detached)
  BY <1>2 DEF Synced
<1> QED
  BY <1>1, <1>2

(* How a call changes a handle: it stays where it is, and is dirty when    *)
(* its contents are others than before.                                    *)
Advances(h, g) ==
  /\ DOMAIN g = DOMAIN h /\ g.at = h.at
  /\ h.dirty => g.dirty
  /\ g.data # h.data => g.dirty

(* So do two calls, one after the other, and changes of the position.      *)
LEMMA AdvancesOn ==
  ASSUME NEW h, NEW g, Advances(h, g)
  PROVE  /\ \A k : Advances(g, k) => Advances(h, k)
         /\ "pos" \in DOMAIN h => \A pos : Advances(h, [g EXCEPT !.pos = pos])
BY DEF Advances

(* A write that leaves a handle clean has changed nothing,                 *)
LEMMA WrittenDirty ==
  ASSUME NEW h \in Handle, NEW buf \in Data, FileWritten(h, buf).data # h.data
  PROVE  FileWritten(h, buf).dirty
<1>1. h.pos \in Nat /\ h.data \in Data /\ h.dirty \in BOOLEAN /\ Len(buf) \in Nat
  BY LittleFSAssumption DEF Handle, Data
<1>2. /\ FileWritten(h, buf).data = Written(h.data, h.pos, buf)
      /\ FileWritten(h, buf).dirty = (h.dirty \/ Len(buf) > 0 \/ h.pos > Len(h.data))
  BY DEF FileWritten, Handle
<1>3. ASSUME ~(Len(buf) > 0), ~(h.pos > Len(h.data)) PROVE Written(h.data, h.pos, buf) = h.data
  <2> DEFINE n == Len(h.data)
  <2>1. n \in Nat /\ Len(buf) = 0 /\ h.data = [i \in 1 .. n |-> h.data[i]]
    BY <1>1, <1>3 DEF Data
  <2>2. Larger(n, h.pos + Len(buf)) = n
    BY <1>1, <1>3, <2>1 DEF Larger
  <2>3. \A i \in 1 .. n : i \notin h.pos + 1 .. h.pos + Len(buf) /\ i <= n
    BY <1>1, <2>1
  <2>4. Written(h.data, h.pos, buf) = [i \in 1 .. n |-> h.data[i]]
    BY <2>2, <2>3 DEF Written
  <2> QED
    BY <2>1, <2>4
<1> QED
  BY <1>2, <1>3

(* nor has a truncation.                                                   *)
LEMMA TruncatedDirty ==
  ASSUME NEW h \in Handle, NEW n \in Nat, FileTruncated(h, n).data # h.data
  PROVE  FileTruncated(h, n).dirty
<1>1. /\ FileTruncated(h, n).data = Resized(h.data, n)
      /\ FileTruncated(h, n).dirty = (h.dirty \/ n # Len(h.data))
  BY DEF FileTruncated, Handle
<1>2. ASSUME n = Len(h.data) PROVE Resized(h.data, n) = h.data
  <2>1. h.data = [i \in 1 .. n |-> h.data[i]] /\ \A i \in 1 .. n : i <= Len(h.data)
    BY <1>2 DEF Handle, Data
  <2> QED
    BY <2>1 DEF Resized
<1> QED
  BY <1>1, <1>2

(* The operations on open files change handles like that.                  *)
LEMMA FileAdvances ==
  ASSUME NEW h \in Handle
  PROVE  /\ Advances(h, h)
         /\ \A n : Advances(h, FileRead(h, n))
         /\ \A off, whence : Advances(h, FileSought(h, off, whence))
         /\ \A buf \in Data : Advances(h, FileWritten(h, buf))
         /\ \A n \in Nat : Advances(h, FileTruncated(h, n))
<1>1. h = [flags |-> h.flags, pos |-> h.pos, data |-> h.data, dirty |-> h.dirty,
           at |-> h.at, name |-> h.name]
  BY DEF Handle
<1>2. ASSUME NEW buf \in Data PROVE Advances(h, FileWritten(h, buf))
  <2>1. /\ DOMAIN FileWritten(h, buf) = DOMAIN h /\ FileWritten(h, buf).at = h.at
        /\ h.dirty => FileWritten(h, buf).dirty
    BY <1>1 DEF FileWritten
  <2> QED
    BY <2>1, WrittenDirty DEF Advances
<1>3. ASSUME NEW n \in Nat PROVE Advances(h, FileTruncated(h, n))
  <2>1. /\ DOMAIN FileTruncated(h, n) = DOMAIN h /\ FileTruncated(h, n).at = h.at
        /\ h.dirty => FileTruncated(h, n).dirty
    BY <1>1 DEF FileTruncated
  <2> QED
    BY <2>1, TruncatedDirty DEF Advances
<1>4. \A n : Advances(h, FileRead(h, n))
  BY <1>1 DEF Advances, FileRead
<1>5. \A off, whence : Advances(h, FileSought(h, off, whence))
  BY <1>1 DEF Advances, FileSought
<1> QED
  BY <1>2, <1>3, <1>4, <1>5 DEF Advances

(* A handle that is told that an entry was removed keeps its copy, and is  *)
(* attached only if it was, to another entry.                              *)
LEMMA UnlinkedAttached ==
  ASSUME NEW h \in Handle, NEW p
  PROVE  LET g == Unlinked(h, p)
         IN  /\ g.data = h.data /\ g.dirty = h.dirty
             /\ g.at # Detached => g.at = h.at /\ h.at # p
BY DEF Unlinked, WhenRemoved, Handle

(* An attribute that is there is the one there is.                         *)
LEMMA SingleElement ==
  ASSUME NEW S, NEW s \in Seq(S), s # <<>>, Len(s) <= 1
  PROVE  s = <<s[1]>>
<1>1. Len(s) \in Nat /\ Len(s) # 0
  BY EmptySeq
<1>2. \A n \in Nat : n # 0 /\ n <= 1 => n = 1
  OBVIOUS
<1>3. Len(s) = 1
  BY <1>1, <1>2
<1> QED
  BY <1>3
=============================================================================
