-------------------------- MODULE Induction_proofs --------------------------
(***************************************************************************)
(* Induction over the natural numbers, and what it shows of functions that *)
(* are defined by recursion: that they exist, and what FlattenSeq returns. *)
(*                                                                         *)
(* What is proved by induction is stated as a set of numbers.  The library *)
(* has that the natural numbers are well founded, and that a set of them   *)
(* that is not empty has a minimal element; the rest follows.              *)
(***************************************************************************)
EXTENDS SequencesExt, SequenceTheorems, WellFoundedInduction, TLAPS

(* Induction: a set of numbers that holds 0 and the successors of its       *)
(* elements holds all.                                                      *)
LEMMA Induction ==
  ASSUME NEW T, 0 \in T, \A n \in Nat : n \in T => n + 1 \in T
  PROVE  Nat \subseteq T
<1> DEFINE Less == {ss \in Nat \X Nat : ss[1] < ss[2]}
<1>1. IsWellFoundedOn(Less, Nat)
  BY NatLessThanWellFounded DEF OpToRel
<1> SUFFICES ASSUME Nat \ T # {} PROVE FALSE
  OBVIOUS
<1>2. PICK x \in Nat \ T : \A y \in Nat \ T : ~(<<y, x>> \in Less)
  <2> HIDE DEF Less
  <2> QED
    BY <1>1, WFMin
<1>3. x # 0 /\ x - 1 \in Nat /\ <<x - 1, x>> \in Less
  BY <1>2
<1>4. x - 1 \in T
  BY <1>2, <1>3
<1> QED
  BY <1>2, <1>3, <1>4

(* The same over the numbers from m to n.                                   *)
LEMMA IntervalInduction ==
  ASSUME NEW T, NEW m \in Nat, NEW n \in Nat, m <= n => m \in T,
         \A i \in m + 1 .. n : i - 1 \in T => i \in T
  PROVE  m .. n \subseteq T
<1> DEFINE U == {k \in Nat : m + k <= n => m + k \in T}
<1>1. 0 \in U
  OBVIOUS
<1>2. ASSUME NEW k \in Nat, k \in U PROVE k + 1 \in U
  <2> SUFFICES ASSUME m + (k + 1) <= n PROVE m + (k + 1) \in T
    OBVIOUS
  <2>1. m + k \in T
    BY <1>2
  <2>2. m + (k + 1) \in m + 1 .. n /\ m + (k + 1) - 1 = m + k
    OBVIOUS
  <2> QED
    BY <2>1, <2>2
<1>3. Nat \subseteq U
  <2> HIDE DEF U
  <2> QED
    BY <1>1, <1>2, Induction
<1> SUFFICES ASSUME NEW i \in m .. n PROVE i \in T
  OBVIOUS
<1>4. i - m \in Nat /\ m + (i - m) = i /\ i <= n
  OBVIOUS
<1>5. i - m \in U
  BY <1>3, <1>4
<1> QED
  BY <1>4, <1>5

(* And over the sequences: a set of them that holds the empty one and, with *)
(* each, those that have one element more.                                  *)
LEMMA SequenceInduction ==
  ASSUME NEW X, NEW T, <<>> \in T, \A s \in Seq(X), e \in X : s \in T => Append(s, e) \in T
  PROVE  Seq(X) \subseteq T
<1> DEFINE U == {n \in Nat : \A s \in Seq(X) : Len(s) = n => s \in T}
<1>1. 0 \in U
  BY EmptySeq
<1>2. ASSUME NEW n \in Nat, n \in U PROVE n + 1 \in U
  <2> SUFFICES ASSUME NEW s \in Seq(X), Len(s) = n + 1 PROVE s \in T
    OBVIOUS
  <2>1. s # <<>>
    OBVIOUS
  <2>2. PICK t \in Seq(X), e \in X : s = Append(t, e)
    BY <2>1, SequenceEmptyOrAppend
  <2>3. Len(t) = n
    BY <2>2, AppendProperties, LenProperties
  <2>4. t \in T
    BY <1>2, <2>3
  <2> QED
    BY <2>2, <2>4
<1>3. Nat \subseteq U
  <2> HIDE DEF U
  <2> QED
    BY <1>1, <1>2, Induction
<1> QED
  BY <1>3, LenProperties

(* A function whose value at m is x and at i follows from that at i - 1.    *)
Recursive(g, x, step, m, n) ==
  \A i \in m .. n : g[i] = IF i = m THEN x ELSE step[<<i, g[i - 1]>>]

(* A recursive definition over m .. n has a solution ...                    *)
LEMMA RecursionExists ==
  ASSUME NEW S, NEW x \in S, NEW step \in [Nat \X S -> S], NEW m \in Nat, NEW n \in Nat
  PROVE  \E g \in [m .. n -> S] : Recursive(g, x, step, m, n)
<1> USE DEF Recursive
<1> DEFINE Solved(k) == \E g \in [m .. k -> S] : Recursive(g, x, step, m, k)
           T == {k \in Nat : Solved(k)}
<1>1. m \in T
  <2> DEFINE g == [i \in m .. m |-> x]
  <2>1. g \in [m .. m -> S]
    OBVIOUS
  <2>2. \A i \in m .. m : g[i] = IF i = m THEN x ELSE step[<<i, g[i - 1]>>]
    OBVIOUS
  <2> QED
    BY <2>1, <2>2
<1>2. ASSUME NEW k \in m + 1 .. n, k - 1 \in T PROVE k \in T
  <2>1. PICK g \in [m .. k - 1 -> S] :
          \A i \in m .. k - 1 : g[i] = IF i = m THEN x ELSE step[<<i, g[i - 1]>>]
    BY <1>2
  <2> DEFINE h == [i \in m .. k |-> IF i = k THEN step[<<k, g[k - 1]>>] ELSE g[i]]
  <2>2. k - 1 \in m .. k - 1 /\ k \in Nat
    OBVIOUS
  <2>3. g[k - 1] \in S
    BY <2>2
  <2>4. step[<<k, g[k - 1]>>] \in S
    BY <2>2, <2>3
  <2>5. h \in [m .. k -> S]
    BY <2>4
  <2>6. ASSUME NEW i \in m .. k
        PROVE  h[i] = IF i = m THEN x ELSE step[<<i, h[i - 1]>>]
    <3>1. CASE i = k
      <4>1. h[i] = step[<<i, g[i - 1]>>] /\ i # m /\ h[i - 1] = g[i - 1]
        BY <3>1
      <4> QED
        BY <4>1
    <3>2. CASE i # k
      <4>1. i \in m .. k - 1 /\ h[i] = g[i]
        BY <3>2
      <4>2. i # m => h[i - 1] = g[i - 1]
        BY <3>2
      <4> HIDE DEF h
      <4> QED
        BY <2>1, <4>1, <4>2
    <3> QED
      BY <3>1, <3>2
  <2>7. Solved(k)
    <3> HIDE DEF h
    <3> QED
      BY <2>5, <2>6
  <2> QED
    BY <2>2, <2>7
<1>3. CASE m <= n
  <2>1. m .. n \subseteq T
    <3> HIDE DEF T
    <3> QED
      BY <1>1, <1>2, IntervalInduction
  <2>2. n \in T
    <3> HIDE DEF T
    <3> QED
      BY <1>3, <2>1
  <2> QED
    BY <2>2
<1>4. CASE ~(m <= n)
  <2>1. [i \in m .. n |-> x] \in [m .. n -> S] /\ m .. n = {}
    BY <1>4
  <2> QED
    BY <2>1
<1> QED
  BY <1>3, <1>4

-----------------------------------------------------------------------------
(* FlattenSeq.                                                              *)

Flattens(g, seqs, n) ==
  g = [i \in 1 .. n |-> IF i = 1 THEN seqs[i] ELSE g[i - 1] \o seqs[i]]

(* A sequence of sequences has its partial concatenations.                  *)
LEMMA FlattensExists ==
  ASSUME NEW X, NEW seqs \in Seq(Seq(X)), seqs # <<>>
  PROVE  \E g \in [1 .. Len(seqs) -> Seq(X)] : Flattens(g, seqs, Len(seqs))
<1> DEFINE n == Len(seqs)
           step == [p \in Nat \X Seq(X) |->
                      IF p[1] \in 1 .. n THEN p[2] \o seqs[p[1]] ELSE p[2]]
<1>1. n \in Nat /\ n # 0 /\ \A i \in 1 .. n : seqs[i] \in Seq(X)
  BY EmptySeq, LenProperties, ElementOfSeq
<1> HIDE DEF n
<1>2. step \in [Nat \X Seq(X) -> Seq(X)]
  <2>1. \A s, t \in Seq(X) : s \o t \in Seq(X)
    BY ConcatProperties
  <2>2. \A p \in Nat \X Seq(X) : p[1] \in 1 .. n => p[2] \o seqs[p[1]] \in Seq(X)
    BY <1>1, <2>1
  <2> QED
    BY <2>2
<1>3. ASSUME NEW i \in 1 .. n, NEW s \in Seq(X) PROVE step[<<i, s>>] = s \o seqs[i]
  <2>1. <<i, s>> \in Nat \X Seq(X) /\ <<i, s>>[1] = i /\ <<i, s>>[2] = s
    BY <1>1
  <2> QED
    BY <2>1
<1> HIDE DEF step
<1>4. seqs[1] \in Seq(X)
  BY <1>1
<1>5. PICK g \in [1 .. n -> Seq(X)] :
        \A i \in 1 .. n : g[i] = IF i = 1 THEN seqs[1] ELSE step[<<i, g[i - 1]>>]
  <2>1. \E g \in [1 .. n -> Seq(X)] : Recursive(g, seqs[1], step, 1, n)
    BY <1>1, <1>2, <1>4, RecursionExists
  <2> QED
    BY <2>1 DEF Recursive
<1>6. \A i \in 1 .. n : g[i] = IF i = 1 THEN seqs[i] ELSE g[i - 1] \o seqs[i]
  <2> SUFFICES ASSUME NEW i \in 1 .. n
               PROVE  g[i] = IF i = 1 THEN seqs[i] ELSE g[i - 1] \o seqs[i]
    OBVIOUS
  <2>1. CASE i = 1
    <3>1. g[i] = seqs[1]
      BY <1>5, <2>1
    <3> QED
      BY <2>1, <3>1
  <2>2. CASE i # 1
    <3>1. i - 1 \in 1 .. n /\ g[i - 1] \in Seq(X)
      BY <1>1, <2>2
    <3>2. g[i] = step[<<i, g[i - 1]>>]
      BY <1>5, <2>2
    <3>3. step[<<i, g[i - 1]>>] = g[i - 1] \o seqs[i]
      BY <1>3, <3>1
    <3> QED
      BY <2>2, <3>2, <3>3
  <2> QED
    BY <2>1, <2>2
<1>7. Flattens(g, seqs, n)
  BY <1>6 DEF Flattens
<1> QED
  BY <1>7 DEF n

(* They are the only ones.                                                  *)
LEMMA FlattensUnique ==
  ASSUME NEW X, NEW seqs \in Seq(Seq(X)), NEW g, NEW h, NEW n \in 1 .. Len(seqs),
         Flattens(g, seqs, n), Flattens(h, seqs, n)
  PROVE  g[n] = h[n]
<1>1. Len(seqs) \in Nat
  BY LenProperties
<1> DEFINE T == {i \in Nat : g[i] = h[i]}
<1>2. \A i \in 1 .. n : /\ g[i] = IF i = 1 THEN seqs[i] ELSE g[i - 1] \o seqs[i]
                        /\ h[i] = IF i = 1 THEN seqs[i] ELSE h[i - 1] \o seqs[i]
  BY DEF Flattens
<1>3. 1 \in T
  BY <1>1, <1>2
<1>4. ASSUME NEW i \in 1 + 1 .. n, i - 1 \in T PROVE i \in T
  <2>1. i \in 1 .. n /\ i # 1 /\ i \in Nat
    BY <1>1
  <2> QED
    BY <1>2, <1>4, <2>1
<1>5. 1 .. n \subseteq T
  <2> HIDE DEF T
  <2>1. n \in Nat
    BY <1>1
  <2> QED
    BY <1>3, <1>4, <2>1, IntervalInduction
<1>6. n \in T
  <2> HIDE DEF T
  <2> QED
    BY <1>1, <1>5
<1> QED
  BY <1>6

(* FlattenSeq returns the last of them.                                     *)
LEMMA FlattenIsLast ==
  ASSUME NEW X, NEW seqs \in Seq(Seq(X)), seqs # <<>>, NEW g, Flattens(g, seqs, Len(seqs))
  PROVE  FlattenSeq(seqs) = g[Len(seqs)]
<1> DEFINE n == Len(seqs)
           f == CHOOSE f : f = [i \in 1 .. Len(seqs) |-> IF i = 1 THEN seqs[i] ELSE f[i - 1] \o seqs[i]]
<1>1. n \in Nat /\ n # 0
  BY EmptySeq
<1>2. FlattenSeq(seqs) = f[n]
  BY <1>1 DEF FlattenSeq
<1>3. \E h : h = [i \in 1 .. n |-> IF i = 1 THEN seqs[i] ELSE h[i - 1] \o seqs[i]]
  BY DEF Flattens
<1>4. f = [i \in 1 .. n |-> IF i = 1 THEN seqs[i] ELSE f[i - 1] \o seqs[i]]
  <2> HIDE DEF n
  <2> QED
    BY <1>3, Zenon DEF n
<1> HIDE DEF f
<1>5. Flattens(f, seqs, n)
  BY <1>4 DEF Flattens
<1>6. n \in 1 .. n
  BY <1>1
<1> QED
  BY <1>2, <1>5, <1>6, FlattensUnique

(* Of no sequences, the empty one.                                          *)
LEMMA FlattenEmpty == FlattenSeq(<<>>) = <<>>
BY Len(<<>>) = 0 DEF FlattenSeq

(* Of one sequence more, that one at the end.                               *)
LEMMA FlattenAppend ==
  ASSUME NEW X, NEW seqs \in Seq(Seq(X)), NEW last \in Seq(X)
  PROVE  /\ FlattenSeq(Append(seqs, last)) = FlattenSeq(seqs) \o last
         /\ FlattenSeq(seqs) \in Seq(X)
<1> DEFINE n == Len(seqs)
           longer == Append(seqs, last)
<1>1. /\ n \in Nat /\ longer \in Seq(Seq(X)) /\ longer # <<>> /\ Len(longer) = n + 1
      /\ \A i \in 1 .. n : longer[i] = seqs[i]
      /\ longer[n + 1] = last
  BY LenProperties, AppendProperties
<1>2. PICK g \in [1 .. n + 1 -> Seq(X)] : Flattens(g, longer, n + 1)
  BY <1>1, FlattensExists
<1>3. FlattenSeq(longer) = g[n + 1]
  BY <1>1, <1>2, FlattenIsLast
<1>4. \A i \in 1 .. n + 1 : g[i] = IF i = 1 THEN longer[i] ELSE g[i - 1] \o longer[i]
  BY <1>2 DEF Flattens
<1> HIDE DEF longer
<1>5. CASE seqs = <<>>
  <2>1. n = 0
    BY <1>5
  <2>2. FlattenSeq(longer) = last
    BY <1>1, <1>3, <1>4, <2>1
  <2>3. <<>> \o last = last /\ <<>> \in Seq(X)
    BY ConcatEmptySeq, EmptySeq
  <2> QED
    BY <1>5, <2>2, <2>3, FlattenEmpty DEF longer
<1>6. CASE seqs # <<>>
  <2> DEFINE h == [i \in 1 .. n |-> g[i]]
  <2>1. n # 0
    BY <1>6, EmptySeq
  <2>2. Flattens(h, seqs, n)
    <3>1. ASSUME NEW i \in 1 .. n PROVE h[i] = IF i = 1 THEN seqs[i] ELSE h[i - 1] \o seqs[i]
      <4>1. i \in 1 .. n + 1 /\ longer[i] = seqs[i] /\ h[i] = g[i]
        BY <1>1
      <4>2. i # 1 => h[i - 1] = g[i - 1]
        BY <1>1
      <4> HIDE DEF h, n
      <4> QED
        BY <1>4, <4>1, <4>2
    <3> QED
      BY <3>1 DEF Flattens
  <2>3. FlattenSeq(seqs) = h[n]
    BY <1>6, <2>2, FlattenIsLast
  <2>4. h[n] = g[n] /\ g[n] \in Seq(X) /\ g[n + 1] = g[n] \o last
    <3>1. n \in 1 .. n + 1 /\ n + 1 \in 1 .. n + 1 /\ n + 1 # 1 /\ (n + 1) - 1 = n /\ n \in 1 .. n
      BY <1>1, <2>1
    <3>2. h[n] = g[n] /\ g[n] \in Seq(X)
      BY <1>2, <3>1
    <3> HIDE DEF n
    <3>3. g[n + 1] = g[n] \o last
      BY <1>1, <1>4, <3>1
    <3> QED
      BY <3>2, <3>3
  <2> QED
    BY <1>3, <2>3, <2>4 DEF longer
<1> QED
  BY <1>5, <1>6

(* The type of a flattened sequence.                                        *)
LEMMA FlattenType ==
  ASSUME NEW X, NEW seqs \in Seq(Seq(X))
  PROVE  FlattenSeq(seqs) \in Seq(X)
BY FlattenAppend, EmptySeq

(* Of one sequence, that one.                                               *)
LEMMA FlattenOne ==
  ASSUME NEW X, NEW s \in Seq(X)
  PROVE  FlattenSeq(<<s>>) = s
<1>1. <<>> \in Seq(Seq(X)) /\ Append(<<>>, s) = <<s>>
  BY EmptySeq
<1>2. FlattenSeq(Append(<<>>, s)) = FlattenSeq(<<>>) \o s
  BY <1>1, FlattenAppend
<1> QED
  BY <1>1, <1>2, FlattenEmpty, ConcatEmptySeq

Associates(X) == \A a, b, c \in Seq(X) : (a \o b) \o c = a \o (b \o c)

(* Concatenation of sequences is associative.                               *)
LEMMA ConcatAssociates ==
  ASSUME NEW X
  PROVE  Associates(X)
BY ConcatAssociative DEF Associates

(* The first one comes first.                                               *)
LEMMA FlattenCons ==
  ASSUME NEW X, NEW seqs \in Seq(Seq(X)), seqs # <<>>
  PROVE  FlattenSeq(seqs) = Head(seqs) \o FlattenSeq(Tail(seqs))
<1> DEFINE Split(s) == s # <<>> => FlattenSeq(s) = Head(s) \o FlattenSeq(Tail(s))
           T == {s \in Seq(Seq(X)) : Split(s)}
<1>1. \A a, b, c \in Seq(X) : (a \o b) \o c = a \o (b \o c)
  <2>1. Associates(X)
    BY ConcatAssociates
  <2> QED
    BY <2>1 DEF Associates
<1>2. ASSUME NEW t \in Seq(Seq(X)), NEW e \in Seq(X), t \in T PROVE Split(Append(t, e))
  <2>1. /\ FlattenSeq(Append(t, e)) = FlattenSeq(t) \o e
        /\ Head(Append(t, e)) = IF t = <<>> THEN e ELSE Head(t)
        /\ Tail(Append(t, e)) = IF t = <<>> THEN <<>> ELSE Append(Tail(t), e)
    BY FlattenAppend, HeadTailAppend
  <2>2. CASE t = <<>>
    BY <2>1, <2>2, FlattenEmpty, ConcatEmptySeq
  <2>3. CASE t # <<>>
    <3>1. Head(t) \in Seq(X) /\ Tail(t) \in Seq(Seq(X))
      BY <2>3, HeadTailProperties
    <3>2. FlattenSeq(t) = Head(t) \o FlattenSeq(Tail(t))
      BY <1>2, <2>3
    <3>3. FlattenSeq(Append(Tail(t), e)) = FlattenSeq(Tail(t)) \o e /\ FlattenSeq(Tail(t)) \in Seq(X)
      BY <3>1, FlattenAppend
    <3>4. (Head(t) \o FlattenSeq(Tail(t))) \o e = Head(t) \o (FlattenSeq(Tail(t)) \o e)
      BY <3>1, <3>3, <1>1, Zenon
    <3> QED
      BY <2>1, <2>3, <3>2, <3>3, <3>4
  <2> QED
    BY <2>2, <2>3
<1>3. <<>> \in T
  BY EmptySeq
<1>4. \A t \in Seq(Seq(X)), e \in Seq(X) : t \in T => Append(t, e) \in T
  BY <1>2, AppendProperties
<1>5. Seq(Seq(X)) \subseteq T
  <2> HIDE DEF T
  <2> QED
    BY <1>3, <1>4, SequenceInduction
<1> QED
  BY <1>5

-----------------------------------------------------------------------------
(* What FlattenSeq has of its sequences.                                    *)

(* The elements of a sequence, mapped by a function.                        *)
Mapped(h, s) == [i \in 1 .. Len(s) |-> h[s[i]]]
AllMapped(h, seqs) == [i \in 1 .. Len(seqs) |-> Mapped(h, seqs[i])]

(* The type of mapped sequences.                                            *)
LEMMA MappedType ==
  ASSUME NEW A, NEW B, NEW h, \A x \in A : h[x] \in B, NEW s \in Seq(A)
  PROVE  Mapped(h, s) \in Seq(B) /\ Len(Mapped(h, s)) = Len(s)
<1>1. Len(s) \in Nat /\ \A i \in 1 .. Len(s) : h[s[i]] \in B
  BY LenProperties, ElementOfSeq
<1> QED
  BY <1>1 DEF Mapped

(* Mapping goes through concatenation.                                      *)
LEMMA MappedConcat ==
  ASSUME NEW A, NEW h
  PROVE  \A s, t \in Seq(A) : Mapped(h, s \o t) = Mapped(h, s) \o Mapped(h, t)
<1> SUFFICES ASSUME NEW s \in Seq(A), NEW t \in Seq(A)
             PROVE  Mapped(h, s \o t) = Mapped(h, s) \o Mapped(h, t)
  OBVIOUS
<1> DEFINE Image == {h[x] : x \in A}
<1>1. \A x \in A : h[x] \in Image
  OBVIOUS
<1> HIDE DEF Image
<1>2. s \o t \in Seq(A) /\ Len(s \o t) = Len(s) + Len(t) /\ Len(s) \in Nat /\ Len(t) \in Nat
  BY ConcatProperties, LenProperties
<1>3. /\ Mapped(h, s) \in Seq(Image) /\ Len(Mapped(h, s)) = Len(s)
      /\ Mapped(h, t) \in Seq(Image) /\ Len(Mapped(h, t)) = Len(t)
      /\ Mapped(h, s \o t) \in Seq(Image) /\ Len(Mapped(h, s \o t)) = Len(s) + Len(t)
  <2>1. \A r \in Seq(A) : Mapped(h, r) \in Seq(Image) /\ Len(Mapped(h, r)) = Len(r)
    <3> SUFFICES ASSUME NEW r \in Seq(A)
                 PROVE  Mapped(h, r) \in Seq(Image) /\ Len(Mapped(h, r)) = Len(r)
      OBVIOUS
    <3> QED
      <4>1. Len(r) \in Nat /\ \A i \in 1 .. Len(r) : h[r[i]] \in Image
        BY <1>1, LenProperties, ElementOfSeq
      <4> QED
        BY <4>1 DEF Mapped
  <2> QED
    BY <1>2, <2>1
<1>4. /\ Mapped(h, s) \o Mapped(h, t) \in Seq(Image)
      /\ Len(Mapped(h, s) \o Mapped(h, t)) = Len(s) + Len(t)
  <2>1. \A b, c \in Seq(Image) : b \o c \in Seq(Image) /\ Len(b \o c) = Len(b) + Len(c)
    BY ConcatProperties
  <2> QED
    BY <1>3, <2>1
<1>5. ASSUME NEW i \in 1 .. Len(s) + Len(t)
      PROVE  Mapped(h, s \o t)[i] = (Mapped(h, s) \o Mapped(h, t))[i]
  <2>1. (s \o t)[i] = IF i <= Len(s) THEN s[i] ELSE t[i - Len(s)]
    BY ConcatProperties
  <2>2. (Mapped(h, s) \o Mapped(h, t))[i] =
          IF i <= Len(s) THEN Mapped(h, s)[i] ELSE Mapped(h, t)[i - Len(s)]
    BY <1>3, ConcatProperties
  <2>3. Mapped(h, s \o t)[i] = h[(s \o t)[i]]
    BY <1>2 DEF Mapped
  <2>4. /\ i <= Len(s) => Mapped(h, s)[i] = h[s[i]]
        /\ ~(i <= Len(s)) => Mapped(h, t)[i - Len(s)] = h[t[i - Len(s)]]
    BY <1>2 DEF Mapped
  <2> QED
    BY <2>1, <2>2, <2>3, <2>4
<1> QED
  BY <1>2, <1>3, <1>4, <1>5, SeqEqual

(* And through FlattenSeq.                                                  *)
LEMMA FlattenMapped ==
  ASSUME NEW A, NEW h, NEW seqs \in Seq(Seq(A))
  PROVE  FlattenSeq(AllMapped(h, seqs)) = Mapped(h, FlattenSeq(seqs))
<1> DEFINE Image == {h[x] : x \in A}
           Maps(s) == AllMapped(h, s) \in Seq(Seq(Image))
                      /\ FlattenSeq(AllMapped(h, s)) = Mapped(h, FlattenSeq(s))
           T == {s \in Seq(Seq(A)) : Maps(s)}
<1>1. \A x \in A : h[x] \in Image
  OBVIOUS
<1> HIDE DEF Image
<1>2. \A a, b \in Seq(A) : Mapped(h, a \o b) = Mapped(h, a) \o Mapped(h, b)
  BY MappedConcat
<1>3. <<>> \in T
  <2>1. AllMapped(h, <<>>) = <<>> /\ Mapped(h, <<>>) = <<>>
    BY DEF AllMapped, Mapped
  <2> QED
    BY <2>1, FlattenEmpty, EmptySeq
<1>4. ASSUME NEW t \in Seq(Seq(A)), NEW e \in Seq(A), Maps(t) PROVE Maps(Append(t, e))
  <2>1. AllMapped(h, Append(t, e)) = Append(AllMapped(h, t), Mapped(h, e))
    <3>1. /\ Len(t) \in Nat /\ Len(Append(t, e)) = Len(t) + 1
          /\ \A i \in 1 .. Len(t) : Append(t, e)[i] = t[i]
          /\ Append(t, e)[Len(t) + 1] = e
      BY LenProperties, AppendProperties
    <3>2. Len(AllMapped(h, t)) = Len(t)
      BY <3>1 DEF AllMapped
    <3> QED
      BY <3>1, <3>2 DEF AllMapped
  <2>2. Mapped(h, e) \in Seq(Image) /\ FlattenSeq(t) \in Seq(A)
    BY <1>1, MappedType, FlattenType
  <2>3. /\ Append(AllMapped(h, t), Mapped(h, e)) \in Seq(Seq(Image))
        /\ FlattenSeq(Append(AllMapped(h, t), Mapped(h, e)))
              = Mapped(h, FlattenSeq(t)) \o Mapped(h, e)
    BY <1>4, <2>2, AppendProperties, FlattenAppend
  <2>4. Mapped(h, FlattenSeq(Append(t, e))) = Mapped(h, FlattenSeq(t)) \o Mapped(h, e)
    <3>1. FlattenSeq(Append(t, e)) = FlattenSeq(t) \o e
      BY FlattenAppend
    <3> QED
      BY <1>2, <2>2, <3>1
  <2> QED
    BY <2>1, <2>3, <2>4
<1>5. \A t \in Seq(Seq(A)), e \in Seq(A) : t \in T => Append(t, e) \in T
  <2> HIDE DEF Maps
  <2> QED
    BY <1>4, AppendProperties
<1>6. Seq(Seq(A)) \subseteq T
  <2> HIDE DEF T
  <2> QED
    BY <1>3, <1>5, SequenceInduction
<1> QED
  BY <1>6

(* Nothing comes of sequences only if all are empty.                        *)
LEMMA FlattenNothing ==
  ASSUME NEW X, NEW seqs \in Seq(Seq(X)), FlattenSeq(seqs) = <<>>
  PROVE  \A i \in 1 .. Len(seqs) : seqs[i] = <<>>
<1> DEFINE Nothing(s) == FlattenSeq(s) = <<>> => \A i \in 1 .. Len(s) : s[i] = <<>>
           T == {s \in Seq(Seq(X)) : Nothing(s)}
<1>1. <<>> \in T
  BY EmptySeq
<1>2. ASSUME NEW t \in Seq(Seq(X)), NEW e \in Seq(X), Nothing(t) PROVE Nothing(Append(t, e))
  <2> SUFFICES ASSUME FlattenSeq(Append(t, e)) = <<>>
               PROVE  \A i \in 1 .. Len(Append(t, e)) : Append(t, e)[i] = <<>>
    OBVIOUS
  <2>1. FlattenSeq(t) \o e = <<>> /\ FlattenSeq(t) \in Seq(X)
    BY FlattenAppend
  <2>2. FlattenSeq(t) = <<>> /\ e = <<>>
    BY <2>1, ConcatEqualIffEmpty
  <2>3. /\ Len(t) \in Nat /\ Len(Append(t, e)) = Len(t) + 1
        /\ \A i \in 1 .. Len(t) : Append(t, e)[i] = t[i]
        /\ Append(t, e)[Len(t) + 1] = e
    BY LenProperties, AppendProperties
  <2> QED
    BY <1>2, <2>2, <2>3
<1>3. \A t \in Seq(Seq(X)), e \in Seq(X) : t \in T => Append(t, e) \in T
  <2> HIDE DEF Nothing
  <2> QED
    BY <1>2, AppendProperties
<1>4. Seq(Seq(X)) \subseteq T
  <2> HIDE DEF T
  <2> QED
    BY <1>1, <1>3, SequenceInduction
<1> QED
  BY <1>4

(* Every element is one of a sequence ...                                   *)
LEMMA FlattenElements ==
  ASSUME NEW X, NEW seqs \in Seq(Seq(X)), NEW p \in 1 .. Len(FlattenSeq(seqs))
  PROVE  \E i \in 1 .. Len(seqs) : \E k \in 1 .. Len(seqs[i]) : FlattenSeq(seqs)[p] = seqs[i][k]
<1> DEFINE Has(s, x) == \E i \in 1 .. Len(s) : \E k \in 1 .. Len(s[i]) : x = s[i][k]
           Elements(s) == \A q \in 1 .. Len(FlattenSeq(s)) : Has(s, FlattenSeq(s)[q])
           T == {s \in Seq(Seq(X)) : Elements(s)}
<1>1. <<>> \in T
  BY EmptySeq, FlattenEmpty
<1>2. ASSUME NEW t \in Seq(Seq(X)), NEW e \in Seq(X), Elements(t) PROVE Elements(Append(t, e))
  <2> DEFINE f == FlattenSeq(t)
  <2>1. FlattenSeq(Append(t, e)) = f \o e /\ f \in Seq(X)
    BY FlattenAppend
  <2>2. /\ Len(t) \in Nat /\ Len(Append(t, e)) = Len(t) + 1
        /\ \A i \in 1 .. Len(t) : Append(t, e)[i] = t[i]
        /\ Append(t, e)[Len(t) + 1] = e
    BY LenProperties, AppendProperties
  <2> DEFINE u == Append(t, e)
  <2> HIDE DEF u
  <2>3. ASSUME NEW x, Has(t, x) PROVE Has(u, x)
    <3>1. PICK i \in 1 .. Len(t) : \E k \in 1 .. Len(t[i]) : x = t[i][k]
      BY <2>3
    <3>2. i \in 1 .. Len(u) /\ u[i] = t[i]
      BY <2>2 DEF u
    <3> QED
      BY <3>1, <3>2
  <2>4. ASSUME NEW k \in 1 .. Len(e) PROVE Has(u, e[k])
    <3>1. Len(t) + 1 \in 1 .. Len(u) /\ u[Len(t) + 1] = e
      BY <2>2 DEF u
    <3> QED
      BY <3>1
  <2>5. \A q \in 1 .. Len(f) : Has(t, f[q])
    BY <1>2
  <2> HIDE DEF f, Has
  <2> SUFFICES ASSUME NEW q \in 1 .. Len(f \o e) PROVE Has(u, (f \o e)[q])
    BY <2>1 DEF u
  <2>6. /\ Len(f) \in Nat /\ Len(e) \in Nat /\ Len(f \o e) = Len(f) + Len(e)
        /\ (f \o e)[q] = IF q <= Len(f) THEN f[q] ELSE e[q - Len(f)]
    BY <2>1, LenProperties, ConcatProperties
  <2>7. CASE q <= Len(f)
    BY <2>3, <2>5, <2>6, <2>7
  <2>8. CASE ~(q <= Len(f))
    <3>1. q - Len(f) \in 1 .. Len(e)
      BY <2>6, <2>8
    <3> QED
      BY <2>4, <2>6, <2>8, <3>1
  <2> QED
    BY <2>7, <2>8
<1>3. \A t \in Seq(Seq(X)), e \in Seq(X) : t \in T => Append(t, e) \in T
  <2> HIDE DEF Elements
  <2> QED
    BY <1>2, AppendProperties
<1>4. Seq(Seq(X)) \subseteq T
  <2> HIDE DEF T
  <2> QED
    BY <1>1, <1>3, SequenceInduction
<1>5. Elements(seqs)
  BY <1>4
<1> QED
  BY <1>5

(* ... and in only one place, if the sequences have none twice.             *)
Scattered(seqs) ==
  \A i, j \in 1 .. Len(seqs) : \A k \in 1 .. Len(seqs[i]), l \in 1 .. Len(seqs[j]) :
    seqs[i][k] = seqs[j][l] => i = j /\ k = l

LEMMA FlattenScattered ==
  ASSUME NEW X, NEW seqs \in Seq(Seq(X)), Scattered(seqs),
         NEW p \in 1 .. Len(FlattenSeq(seqs)), NEW q \in 1 .. Len(FlattenSeq(seqs)),
         FlattenSeq(seqs)[p] = FlattenSeq(seqs)[q]
  PROVE  p = q
<1> DEFINE Once(f) == \A m, n \in 1 .. Len(f) : f[m] = f[n] => m = n
           T == {s \in Seq(Seq(X)) : Scattered(s) => Once(FlattenSeq(s))}
<1>1. <<>> \in T
  BY EmptySeq, FlattenEmpty
<1>2. ASSUME NEW t \in Seq(Seq(X)), NEW e \in Seq(X), Scattered(t) => Once(FlattenSeq(t)),
             Scattered(Append(t, e))
      PROVE  Once(FlattenSeq(Append(t, e)))
  <2> DEFINE f == FlattenSeq(t)
  <2>1. FlattenSeq(Append(t, e)) = f \o e /\ f \in Seq(X)
    BY FlattenAppend
  <2>2. /\ Len(t) \in Nat /\ Len(Append(t, e)) = Len(t) + 1
        /\ \A i \in 1 .. Len(t) : Append(t, e)[i] = t[i]
        /\ Append(t, e)[Len(t) + 1] = e
    BY LenProperties, AppendProperties
  <2> DEFINE u == Append(t, e)
  <2> HIDE DEF u
  <2>3. \A i, j \in 1 .. Len(u) : \A k \in 1 .. Len(u[i]), l \in 1 .. Len(u[j]) :
          u[i][k] = u[j][l] => i = j /\ k = l
    BY <1>2 DEF Scattered, u
  <2>4. Len(t) + 1 \in 1 .. Len(u) /\ u[Len(t) + 1] = e
    BY <2>2 DEF u
  <2>5. \A i \in 1 .. Len(t) : i \in 1 .. Len(u) /\ u[i] = t[i] /\ i # Len(t) + 1
    BY <2>2 DEF u
  <2>6. Once(f)
    <3>1. Scattered(t)
      <4> SUFFICES ASSUME NEW i \in 1 .. Len(t), NEW j \in 1 .. Len(t),
                          NEW k \in 1 .. Len(t[i]), NEW l \in 1 .. Len(t[j]), t[i][k] = t[j][l]
                   PROVE  i = j /\ k = l
        BY DEF Scattered
      <4>1. /\ i \in 1 .. Len(u) /\ u[i] = t[i] /\ j \in 1 .. Len(u) /\ u[j] = t[j]
        BY <2>5
      <4>2. k \in 1 .. Len(u[i]) /\ l \in 1 .. Len(u[j]) /\ u[i][k] = u[j][l]
        BY <4>1
      <4>3. \A m \in 1 .. Len(u[i]), n \in 1 .. Len(u[j]) : u[i][m] = u[j][n] => i = j /\ m = n
        BY <2>3, <4>1
      <4> QED
        BY <4>2, <4>3
    <3> QED
      BY <1>2, <3>1
  <2>7. Once(e)
    BY <2>3, <2>4
  <2>8. ASSUME NEW m \in 1 .. Len(f), NEW n \in 1 .. Len(e) PROVE f[m] # e[n]
    <3>1. PICK i \in 1 .. Len(t) : \E k \in 1 .. Len(t[i]) : f[m] = t[i][k]
      BY FlattenElements
    <3>2. PICK k \in 1 .. Len(t[i]) : f[m] = t[i][k]
      BY <3>1
    <3> HIDE DEF f
    <3> SUFFICES ASSUME f[m] = e[n] PROVE FALSE
      OBVIOUS
    <3> DEFINE last == Len(t) + 1
    <3>3. i \in 1 .. Len(u) /\ u[i] = t[i] /\ last \in 1 .. Len(u) /\ u[last] = e /\ i # last
      BY <2>4, <2>5
    <3> HIDE DEF last
    <3>4. k \in 1 .. Len(u[i]) /\ n \in 1 .. Len(u[last]) /\ u[i][k] = u[last][n]
      BY <3>2, <3>3
    <3> QED
      BY <2>3, <3>3, <3>4, Zenon
  <2> HIDE DEF f
  <2>9. Len(f) \in Nat /\ Len(e) \in Nat /\ Len(f \o e) = Len(f) + Len(e)
    BY <2>1, LenProperties, ConcatProperties
  <2>10. \A m \in 1 .. Len(f \o e) : (f \o e)[m] = IF m <= Len(f) THEN f[m] ELSE e[m - Len(f)]
    BY <2>1, <2>9, ConcatProperties
  <2>11. ASSUME NEW m \in 1 .. Len(f \o e), NEW n \in 1 .. Len(f \o e), (f \o e)[m] = (f \o e)[n]
        PROVE  m = n
    <3>1. m \in Int /\ n \in Int
      BY <2>9
    <3>2. ASSUME NEW o \in 1 .. Len(f \o e), o <= Len(f)
          PROVE  o \in 1 .. Len(f) /\ (f \o e)[o] = f[o]
      BY <2>9, <2>10, <3>2
    <3>3. ASSUME NEW o \in 1 .. Len(f \o e), ~(o <= Len(f))
          PROVE  o - Len(f) \in 1 .. Len(e) /\ (f \o e)[o] = e[o - Len(f)]
      BY <2>9, <2>10, <3>3
    <3>4. CASE m <= Len(f) /\ n <= Len(f)
      BY <2>6, <2>11, <3>2, <3>4
    <3>5. CASE m <= Len(f) /\ ~(n <= Len(f))
      BY <2>8, <2>11, <3>2, <3>3, <3>5
    <3>6. CASE ~(m <= Len(f)) /\ n <= Len(f)
      BY <2>8, <2>11, <3>2, <3>3, <3>6
    <3>7. CASE ~(m <= Len(f)) /\ ~(n <= Len(f))
      <4>1. m - Len(f) = n - Len(f)
        BY <2>7, <2>11, <3>3, <3>7
      <4> QED
        BY <2>9, <3>1, <4>1
    <3> QED
      BY <3>4, <3>5, <3>6, <3>7
  <2> QED
    BY <2>1, <2>11
<1>3. \A t \in Seq(Seq(X)), e \in Seq(X) : t \in T => Append(t, e) \in T
  <2> HIDE DEF Once
  <2> QED
    BY <1>2, AppendProperties
<1>4. Seq(Seq(X)) \subseteq T
  <2> HIDE DEF T
  <2> QED
    BY <1>1, <1>3, SequenceInduction
<1>5. Once(FlattenSeq(seqs))
  BY <1>4
<1> QED
  BY <1>5
=============================================================================
