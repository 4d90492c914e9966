----------------------- MODULE WasiStart_input_proofs -----------------------
(***************************************************************************)
(* Proofs for WasiStart of what arrives at the guest: that fd_read loses,  *)
(* repeats and reorders nothing, what an answer of 0 means, that the       *)
(* buffer of the synchronous writer is always large enough, and the types. *)
(*                                                                         *)
(* The argument is again conservation, from the other side: the bytes that *)
(* the source has delivered are, in this order, those that the guest has   *)
(* found, those that the call under way has stored (Arrived) and those     *)
(* pending in the adapter (Delivered).  It rests on the places of guest    *)
(* memory that a vector names, in order and none twice (Places): what a    *)
(* call has left to fill are the places after those it has counted (Left). *)
(***************************************************************************)
EXTENDS WasiStart_proofs, Induction_proofs

(* The places of a buffer, and those of a vector of buffers.                *)
Addresses(iov) == [i \in 1 .. iov.len |-> iov.buf + i - 1]
AllAddresses(vec) == [i \in 1 .. Len(vec) |-> Addresses(vec[i])]
Places(vec) == FlattenSeq(AllAddresses(vec))

(* What follows the first k elements of a sequence.                         *)
Beyond(s, k) == SubSeq(s, k + 1, Len(s))

(* The places a and then those of b follow the first c of p.                *)
Remaining(p, c, a, b) ==
  /\ p \in Seq(Address) /\ a \in Seq(Address) /\ b \in Seq(Address)
  /\ c \in 0 .. Len(p) /\ a \o b = Beyond(p, c)

(* What a call under way has stored in the guest's buffers.                 *)
Arrived == IF InRead THEN Mapped(mem, SubSeq(Places(call.vec), 1, call.count)) ELSE <<>>

(* Where the bytes are that the source has delivered.                       *)
Delivered ==
  phase \in Before /\ call # Threw => got \o (Arrived \o buffer) = SubSeq(Input, 1, offset)

(* What a call has left to fill follows what it has counted, as long as it  *)
(* can go on: the synchronous loop drops the rest of a buffer when it has   *)
(* run out of input.                                                        *)
Left ==
  InRead =>
    /\ call.fd = 0 /\ call.vec \in ReadArg /\ call.count <= Len(Places(call.vec))
    /\ asyncify \/ buffer # <<>> =>
         Places(call.iovs) = Beyond(Places(call.vec), call.count)
    /\ asyncify \/ call.count > 0 \/ buffer = <<>> \/ call.iovs = call.vec

(* Without streamStdio the guest starts when all of the input is there.     *)
Collected ==
  /\ task[0] = "reading" => phase = "preRun" /\ ~asyncify
  /\ ~asyncify /\ 0 \in Present /\ phase \in {"preRun", "guest"} =>
       (phase = "preRun" /\ task[0] # "idle") \/ offset = Len(Input)

(* The types that IInv leaves out.                                          *)
Answered ==
  /\ source \in {"open", "errored"} /\ got \in Seq(Byte)
  /\ capacity \in Sinks(Nat \ {0})
  /\ outcome \in {"none", "return", "unreachable", "exit", "error"}
  /\ result \in [how : {"pending", "returns", "throws"},
                 what : {"none", "undefined", "134", "code", "stream",
                         "unreachable", "exit", "error"}]

InputInv == Answered /\ Delivered /\ Left /\ Collected

-----------------------------------------------------------------------------
(* The places of a vector.                                                  *)

(* The places of a buffer lie in memory.                                    *)
LEMMA AddressesType ==
  ASSUME NEW iov \in Window
  PROVE  /\ Addresses(iov) \in Seq(Address) /\ Len(Addresses(iov)) = iov.len /\ iov.len \in Nat
         /\ \A i \in 1 .. iov.len : Addresses(iov)[i] = iov.buf + i - 1
<1>1. iov.len \in Nat /\ iov.buf \in Int
  BY DEF Window
<1>2. \A i \in 1 .. iov.len : iov.buf + i - 1 \in Address
  BY <1>1 DEF Window, Cells
<1> QED
  BY <1>1, <1>2 DEF Addresses

(* So do those of a vector.                                                 *)
LEMMA PlacesType ==
  ASSUME NEW vec \in Seq(Window)
  PROVE  /\ AllAddresses(vec) \in Seq(Seq(Address)) /\ Len(AllAddresses(vec)) = Len(vec)
         /\ Places(vec) \in Seq(Address) /\ Len(Places(vec)) \in Nat
         /\ \A i \in 1 .. Len(Places(vec)) : Places(vec)[i] \in Address
<1>1. Len(vec) \in Nat /\ \A i \in 1 .. Len(vec) : vec[i] \in Window
  BY LenProperties, ElementOfSeq
<1>2. \A i \in 1 .. Len(vec) : Addresses(vec[i]) \in Seq(Address)
  BY <1>1, AddressesType
<1>3. AllAddresses(vec) \in Seq(Seq(Address)) /\ Len(AllAddresses(vec)) = Len(vec)
  BY <1>1, <1>2 DEF AllAddresses
<1>4. Places(vec) \in Seq(Address)
  BY <1>3, FlattenType DEF Places
<1> QED
  BY <1>3, <1>4, LenProperties, ElementOfSeq

(* A vector of no buffers has none.                                         *)
LEMMA PlacesEmpty == Places(<<>>) = <<>>
<1>1. AllAddresses(<<>>) = <<>>
  BY DEF AllAddresses
<1> QED
  BY <1>1, FlattenEmpty DEF Places

(* The places of the first buffer come first.                               *)
LEMMA PlacesCons ==
  ASSUME NEW vec \in Seq(Window), vec # <<>>
  PROVE  /\ Head(vec) \in Window /\ Tail(vec) \in Seq(Window)
         /\ Places(vec) = Addresses(Head(vec)) \o Places(Tail(vec))
<1>1. /\ Head(vec) \in Window /\ Tail(vec) \in Seq(Window) /\ Len(Tail(vec)) = Len(vec) - 1
      /\ \A i \in 1 .. Len(Tail(vec)) : Tail(vec)[i] = vec[i + 1]
      /\ Len(vec) \in Nat \ {0} /\ Head(vec) = vec[1]
  BY HeadTailProperties, EmptySeq
<1> DEFINE all == AllAddresses(vec)
           rest == AllAddresses(Tail(vec))
<1>2. /\ all \in Seq(Seq(Address)) /\ Len(all) = Len(vec)
      /\ rest \in Seq(Seq(Address)) /\ Len(rest) = Len(vec) - 1
  BY <1>1, PlacesType
<1>3. all[1] = Addresses(Head(vec))
  BY <1>1 DEF AllAddresses
<1>4. \A i \in 1 .. Len(rest) : rest[i] = all[i + 1]
  <2> SUFFICES ASSUME NEW i \in 1 .. Len(rest) PROVE rest[i] = all[i + 1]
    OBVIOUS
  <2>1. i \in 1 .. Len(Tail(vec)) /\ i + 1 \in 1 .. Len(vec)
    BY <1>1, <1>2
  <2>2. rest[i] = Addresses(Tail(vec)[i]) /\ all[i + 1] = Addresses(vec[i + 1])
    BY <2>1 DEF AllAddresses
  <2> QED
    BY <1>1, <2>1, <2>2
<1> HIDE DEF all, rest
<1>5. all # <<>>
  BY <1>1, <1>2
<1>6. /\ Tail(all) \in Seq(Seq(Address)) /\ Len(Tail(all)) = Len(all) - 1
      /\ \A i \in 1 .. Len(Tail(all)) : Tail(all)[i] = all[i + 1]
      /\ Head(all) = all[1]
  BY <1>2, <1>5, HeadTailProperties
<1>7. Tail(all) = rest
  <2>1. Len(Tail(all)) = Len(rest)
    BY <1>2, <1>6
  <2>2. \A i \in 1 .. Len(Tail(all)) : Tail(all)[i] = rest[i]
    BY <1>4, <1>6, <2>1
  <2> QED
    BY <1>2, <1>6, <2>1, <2>2, SeqEqual
<1>8. FlattenSeq(all) = Head(all) \o FlattenSeq(Tail(all))
  BY <1>2, <1>5, FlattenCons
<1> QED
  BY <1>1, <1>3, <1>6, <1>7, <1>8 DEF Places, all, rest

(* No places are left of a vector only if all its buffers are empty.        *)
LEMMA PlacesNone ==
  ASSUME NEW vec \in Seq(Window), Places(vec) = <<>>
  PROVE  \A i \in DOMAIN vec : vec[i].len = 0
<1>1. Len(vec) \in Nat /\ DOMAIN vec = 1 .. Len(vec) /\ \A i \in 1 .. Len(vec) : vec[i] \in Window
  BY LenProperties, ElementOfSeq
<1>2. AllAddresses(vec) \in Seq(Seq(Address)) /\ Len(AllAddresses(vec)) = Len(vec)
  BY PlacesType
<1>3. \A i \in 1 .. Len(vec) : AllAddresses(vec)[i] = <<>>
  BY <1>2, FlattenNothing DEF Places
<1>4. \A i \in 1 .. Len(vec) : Addresses(vec[i]) = <<>> /\ Len(Addresses(vec[i])) = vec[i].len
  BY <1>1, <1>3, AddressesType DEF AllAddresses
<1> QED
  BY <1>1, <1>4

(* The vectors of fd_read lie in memory ...                                 *)
LEMMA ReadArgType ==
  ASSUME NEW vec \in ReadArg
  PROVE  vec \in Seq(Window)
<1>1. Called("read", 0, vec) \in Underway
  BY CalledType DEF Stream
<1> QED
  BY <1>1 DEF Called, Underway

(* ... and name no place twice.                                             *)
LEMMA PlacesOnce ==
  ASSUME NEW vec \in ReadArg, NEW p \in 1 .. Len(Places(vec)), NEW q \in 1 .. Len(Places(vec)),
         Places(vec)[p] = Places(vec)[q]
  PROVE  p = q
<1> DEFINE all == AllAddresses(vec)
<1>1. vec \in Seq(Window)
  BY ReadArgType
<1>2. Len(vec) \in Nat /\ DOMAIN vec = 1 .. Len(vec) /\ \A i \in 1 .. Len(vec) : vec[i] \in Window
  BY <1>1, LenProperties, ElementOfSeq
<1>3. all \in Seq(Seq(Address)) /\ Len(all) = Len(vec)
  BY <1>1, PlacesType
<1>4. \A i, j \in 1 .. Len(vec) : i # j => Cells(vec[i]) \cap Cells(vec[j]) = {}
  BY <1>2, StreamsAssumption
<1>5. Scattered(all)
  <2> SUFFICES ASSUME NEW i \in 1 .. Len(all), NEW j \in 1 .. Len(all),
                      NEW k \in 1 .. Len(all[i]), NEW l \in 1 .. Len(all[j]), all[i][k] = all[j][l]
               PROVE  i = j /\ k = l
    BY DEF Scattered
  <2>1. /\ i \in 1 .. Len(vec) /\ j \in 1 .. Len(vec) /\ vec[i] \in Window /\ vec[j] \in Window
        /\ all[i] = Addresses(vec[i]) /\ all[j] = Addresses(vec[j])
    BY <1>2, <1>3 DEF AllAddresses
  <2> HIDE DEF all
  <2>2. /\ k \in 1 .. vec[i].len /\ all[i][k] = vec[i].buf + k - 1
        /\ l \in 1 .. vec[j].len /\ all[j][l] = vec[j].buf + l - 1
    BY <2>1, AddressesType
  <2>3. vec[i].buf \in Int /\ vec[i].len \in Nat /\ vec[j].buf \in Int /\ vec[j].len \in Nat
    BY <2>1 DEF Window
  <2>4. all[i][k] \in Cells(vec[i]) /\ all[j][l] \in Cells(vec[j])
    <3>1. ASSUME NEW iov \in Window, NEW m \in 1 .. iov.len PROVE iov.buf + m - 1 \in Cells(iov)
      <4>1. iov.buf \in Int /\ iov.len \in Nat
        BY DEF Window
      <4>2. \A b \in Int, n \in Nat : \A o \in 1 .. n : b + o - 1 \in b .. b + n - 1
        OBVIOUS
      <4> QED
        BY <4>1, <4>2 DEF Cells
    <3> QED
      BY <2>1, <2>2, <3>1
  <2>5. i = j
    BY <1>4, <2>1, <2>4
  <2>6. k = l
    <3>1. vec[i].buf = vec[j].buf
      BY <2>5
    <3>2. k \in Int /\ l \in Int
      BY <2>2, <2>3
    <3>3. vec[i].buf + k - 1 = vec[j].buf + l - 1
      BY <2>2
    <3> QED
      BY <2>3, <3>1, <3>2, <3>3
  <2> QED
    BY <2>5, <2>6
<1> QED
  BY <1>3, <1>5, FlattenScattered DEF Places

(* What fd_read has put into the buffers is what their places hold.         *)
LEMMA ContentsAre ==
  ASSUME mem \in [Address -> Byte], NEW vec \in Seq(Window), NEW count \in 0 .. Len(Places(vec))
  PROVE  Contents(vec, count) = Mapped(mem, SubSeq(Places(vec), 1, count))
<1>1. Len(vec) \in Nat /\ DOMAIN vec = 1 .. Len(vec) /\ \A i \in 1 .. Len(vec) : vec[i] \in Window
  BY LenProperties, ElementOfSeq
<1>2. ASSUME NEW iov \in Window PROVE Bytes(View(iov)) = Mapped(mem, Addresses(iov))
  <2>1. /\ Len(View(iov)) = iov.len /\ Len(Addresses(iov)) = iov.len /\ iov.len \in Nat
        /\ iov.buf \in Int
    BY ViewType, AddressesType DEF Window
  <2>2. \A i \in 1 .. iov.len : iov.buf + i - 1 # 0
    <3>1. \A i \in 1 .. iov.len : iov.buf + i - 1 \in Address
      BY AddressesType, ElementOfSeq
    <3> QED
      BY <3>1 DEF Address
  <2>3. \A i \in 1 .. iov.len : Current(View(iov)[i]) = mem[Addresses(iov)[i]]
    BY <2>1, <2>2 DEF Current, View, Addresses
  <2> QED
    BY <2>1, <2>3 DEF Bytes, Mapped
<1> DEFINE all == AllAddresses(vec)
<1>3. all \in Seq(Seq(Address)) /\ Len(all) = Len(vec)
  BY PlacesType
<1>4. [i \in DOMAIN vec |-> Bytes(View(vec[i]))] = AllMapped(mem, all)
  <2>1. \A i \in 1 .. Len(vec) : Bytes(View(vec[i])) = Mapped(mem, all[i])
    BY <1>1, <1>2 DEF AllAddresses
  <2> HIDE DEF all
  <2> QED
    BY <1>1, <1>3, <2>1 DEF AllMapped
<1>5. \A a \in Address : mem[a] \in Byte
  OBVIOUS
<1>6. FlattenSeq(AllMapped(mem, all)) = Mapped(mem, Places(vec))
  <2>1. FlattenSeq(AllMapped(mem, all)) = Mapped(mem, FlattenSeq(all))
    <3> HIDE DEF all
    <3> QED
      BY <1>3, FlattenMapped
  <2> QED
    BY <2>1 DEF Places
<1> DEFINE P == Places(vec)
<1>7. P \in Seq(Address) /\ Len(P) \in Nat /\ \A i \in 1 .. Len(P) : P[i] \in Address
  BY PlacesType
<1> HIDE DEF P, all
<1>8. SubSeq(Mapped(mem, P), 1, count) = Mapped(mem, SubSeq(P, 1, count))
  <2>1. count \in Nat /\ count <= Len(P)
    BY <1>7 DEF P
  <2>2. /\ Mapped(mem, P) = [i \in 1 .. Len(P) |-> mem[P[i]]]
        /\ \A i \in 1 .. count : Mapped(mem, P)[i] = mem[P[i]]
    BY <1>7, <2>1 DEF Mapped
  <2>3. /\ Len(SubSeq(P, 1, count)) = count
        /\ \A i \in 1 .. count : SubSeq(P, 1, count)[i] = P[i]
    BY <1>7, <2>1, SubSeqProperties
  <2>4. SubSeq(Mapped(mem, P), 1, count) = [i \in 1 .. count |-> Mapped(mem, P)[i]]
    <3> DEFINE M == Mapped(mem, P)
    <3>1. \A i \in 1 .. count : M[i] \in Byte
      BY <1>5, <1>7, <2>1, <2>2
    <3> HIDE DEF M
    <3>2. /\ SubSeq(M, 1, count) \in Seq(Byte) /\ Len(SubSeq(M, 1, count)) = count
          /\ \A i \in 1 .. count : SubSeq(M, 1, count)[i] = M[i]
      BY <2>1, <3>1, SubSeqProperties
    <3>3. SubSeq(M, 1, count) = [i \in 1 .. count |-> M[i]]
      BY <2>1, <3>1, <3>2, SeqEqual
    <3> QED
      BY <3>3 DEF M
  <2> QED
    BY <2>1, <2>2, <2>3, <2>4 DEF Mapped
<1> QED
  BY <1>4, <1>6, <1>8 DEF Contents, P

(* The first elements of a sequence, and the others.                        *)
LEMMA PrefixProperties ==
  ASSUME NEW S, NEW s \in Seq(S), NEW k \in 0 .. Len(s)
  PROVE  /\ SubSeq(s, 1, k) \in Seq(S) /\ Len(SubSeq(s, 1, k)) = k
         /\ \A i \in 1 .. k : SubSeq(s, 1, k)[i] = s[i]
<1>1. Len(s) \in Nat /\ \A i \in 1 .. Len(s) : s[i] \in S
  BY LenProperties, ElementOfSeq
<1> QED
  BY <1>1, SubSeqProperties

LEMMA SuffixProperties ==
  ASSUME NEW S, NEW s \in Seq(S), NEW k \in 0 .. Len(s)
  PROVE  /\ Beyond(s, k) \in Seq(S) /\ Len(Beyond(s, k)) = Len(s) - k
         /\ \A i \in 1 .. Len(s) - k : Beyond(s, k)[i] = s[k + i]
<1>1. Len(s) \in Nat /\ \A i \in 1 .. Len(s) : s[i] \in S
  BY LenProperties, ElementOfSeq
<1> QED
  BY <1>1, SubSeqProperties DEF Beyond

(* A part of the first buffer goes to the first places that are left.       *)
LEMMA FillFront ==
  ASSUME NEW p, NEW c, NEW a, NEW b, Remaining(p, c, a, b), NEW n \in 0 .. Len(a)
  PROVE  /\ Remaining(p, c + n, Beyond(a, n), b)
         /\ \A i \in 1 .. n : p[c + i] = a[i]
<1>1. p \in Seq(Address) /\ a \in Seq(Address) /\ b \in Seq(Address) /\ c \in 0 .. Len(p)
  BY DEF Remaining
<1>2. a \o b = Beyond(p, c)
  BY DEF Remaining
<1> DEFINE whole == a \o b
           rest == Beyond(p, c)
           last == Beyond(a, n)
           tail == Beyond(p, c + n)
           end == last \o b
<1>3. Len(a) \in Nat /\ Len(b) \in Nat /\ Len(p) \in Nat /\ c \in Nat /\ n \in Nat
  BY <1>1, LenProperties
<1>4. Len(whole) = Len(a) + Len(b)
  BY <1>1, ConcatProperties
<1>5. \A i \in 1 .. Len(a) + Len(b) : whole[i] = IF i <= Len(a) THEN a[i] ELSE b[i - Len(a)]
  BY <1>1, ConcatProperties
<1>6. Len(rest) = Len(p) - c
  BY <1>1, SuffixProperties
<1>7. \A i \in 1 .. Len(p) - c : rest[i] = p[c + i]
  BY <1>1, SuffixProperties
<1>8. last \in Seq(Address) /\ Len(last) = Len(a) - n
  BY <1>1, SuffixProperties
<1>9. \A i \in 1 .. Len(a) - n : last[i] = a[n + i]
  BY <1>1, SuffixProperties
<1> HIDE DEF whole, rest, last, tail, end
<1>10. whole = rest
  BY <1>2 DEF whole, rest
<1>11. Len(a) + Len(b) = Len(p) - c
  BY <1>4, <1>6, <1>10
<1>12. c + n \in 0 .. Len(p) /\ Len(p) - (c + n) = Len(a) - n + Len(b)
  BY <1>3, <1>11
<1>13. tail \in Seq(Address) /\ Len(tail) = Len(p) - (c + n)
       /\ \A i \in 1 .. Len(p) - (c + n) : tail[i] = p[(c + n) + i]
  <2> DEFINE k == c + n
  <2>1. k \in 0 .. Len(p)
    BY <1>12
  <2> HIDE DEF k
  <2>2. /\ Beyond(p, k) \in Seq(Address) /\ Len(Beyond(p, k)) = Len(p) - k
        /\ \A i \in 1 .. Len(p) - k : Beyond(p, k)[i] = p[k + i]
    BY <1>1, <2>1, SuffixProperties
  <2> QED
    BY <2>2 DEF k, tail
<1>14. end \in Seq(Address) /\ Len(end) = Len(last) + Len(b)
       /\ \A i \in 1 .. Len(last) + Len(b) : end[i] = IF i <= Len(last) THEN last[i] ELSE b[i - Len(last)]
  BY <1>1, <1>8, ConcatProperties DEF end
<1>15. ASSUME NEW i \in 1 .. Len(a) - n + Len(b) PROVE end[i] = tail[i]
  <2>1. /\ i \in 1 .. Len(p) - (c + n) /\ n + i \in 1 .. Len(p) - c /\ n + i \in 1 .. Len(a) + Len(b)
        /\ i \in 1 .. Len(last) + Len(b) /\ (c + n) + i = c + (n + i)
        /\ (n + i) - Len(a) = i - Len(last)
    BY <1>3, <1>8, <1>11
  <2>2. tail[i] = p[(c + n) + i] /\ rest[n + i] = p[c + (n + i)]
    BY <1>7, <1>13, <2>1
  <2>3. tail[i] = whole[n + i]
    BY <1>10, <2>1, <2>2
  <2>4. CASE i <= Len(last)
    <3>1. n + i <= Len(a) /\ i \in 1 .. Len(a) - n
      BY <1>3, <1>8, <2>4
    <3> QED
      BY <1>5, <1>9, <1>14, <2>1, <2>3, <2>4, <3>1
  <2>5. CASE ~(i <= Len(last))
    <3>1. ~(n + i <= Len(a))
      BY <1>3, <1>8, <2>5
    <3> QED
      BY <1>5, <1>14, <2>1, <2>3, <2>5, <3>1
  <2> QED
    BY <2>4, <2>5
<1>16. end = tail
  <2>1. Len(end) = Len(a) - n + Len(b) /\ Len(tail) = Len(a) - n + Len(b)
    BY <1>8, <1>12, <1>13, <1>14
  <2> QED
    BY <1>13, <1>14, <1>15, <2>1, SeqEqual
<1>17. Remaining(p, c + n, last, b)
  BY <1>1, <1>8, <1>12, <1>16 DEF Remaining, end, tail
<1>18. ASSUME NEW i \in 1 .. n PROVE p[c + i] = a[i]
  <2>1. i \in 1 .. Len(p) - c /\ i \in 1 .. Len(a) + Len(b) /\ i <= Len(a)
    BY <1>3, <1>11
  <2> QED
    BY <1>5, <1>7, <1>10, <2>1
<1> QED
  BY <1>17, <1>18 DEF last

(* iov.set at the first of the places that are left: what is in the places  *)
(* before stays, and the bytes follow it.                                   *)
LEMMA StoredBytes ==
  ASSUME mem \in [Address -> Byte], NEW vec \in ReadArg, NEW iov \in Window, NEW c, NEW left,
         Remaining(Places(vec), c, Addresses(iov), left),
         NEW bytes \in Seq(Byte), Len(bytes) <= iov.len
  PROVE  Mapped(Stored(iov, bytes), SubSeq(Places(vec), 1, c + Len(bytes)))
           = Mapped(mem, SubSeq(Places(vec), 1, c)) \o bytes
<1> DEFINE P == Places(vec)
           n == Len(bytes)
           M == Stored(iov, bytes)
<1>1. /\ P \in Seq(Address) /\ Len(P) \in Nat /\ c \in Nat
      /\ \A i \in 1 .. Len(P) : P[i] \in Address
  BY ReadArgType, PlacesType DEF Remaining
<1>2. /\ n \in Nat /\ n \in 0 .. Len(Addresses(iov)) /\ iov.len \in Nat /\ iov.buf \in Int
      /\ \A i \in 1 .. n : Addresses(iov)[i] = iov.buf + i - 1
      /\ \A i \in 1 .. n : bytes[i] \in Byte
  BY LenProperties, ElementOfSeq, AddressesType DEF Window
<1>3. c + n <= Len(P) /\ \A i \in 1 .. n : P[c + i] = iov.buf + i - 1
  <2> DEFINE first == Addresses(iov)
  <2>1. Remaining(P, c, first, left) /\ n \in 0 .. Len(first)
    BY <1>2
  <2> HIDE DEF P, first, n
  <2>2. Remaining(P, c + n, Beyond(first, n), left) /\ \A i \in 1 .. n : P[c + i] = first[i]
    BY <2>1, FillFront
  <2>3. c + n <= Len(P)
    BY <1>1, <1>2, <2>2 DEF Remaining
  <2> QED
    BY <1>2, <2>2, <2>3 DEF first
<1>4. \A p, q \in 1 .. Len(P) : P[p] = P[q] => p = q
  BY PlacesOnce
<1>5. M \in [Address -> Byte]
  BY StoredType
<1>6. \A a \in Address : M[a] = IF a \in iov.buf .. iov.buf + n - 1
                                THEN bytes[a - iov.buf + 1] ELSE mem[a]
  BY DEF Stored
<1> HIDE DEF P, n, M
<1>7. ASSUME NEW i \in 1 .. c PROVE M[P[i]] = mem[P[i]]
  <2>1. i \in 1 .. Len(P) /\ P[i] \in Address /\ Address \subseteq Int
    <3>1. \A a \in Address : a \in Int
      BY StreamsAssumption DEF Address
    <3>2. i \in 1 .. Len(P) /\ P[i] \in Address
      BY <1>1, <1>3, <1>2
    <3> QED
      BY <3>1, <3>2
  <2>2. ASSUME P[i] \in iov.buf .. iov.buf + n - 1 PROVE FALSE
    <3> DEFINE k == P[i] - iov.buf + 1
    <3>1. k \in 1 .. n /\ P[i] = iov.buf + k - 1
      <4>1. \A b, x \in Int : x \in b .. b + n - 1 => x - b + 1 \in 1 .. n /\ x = b + (x - b + 1) - 1
        BY <1>2
      <4> QED
        BY <1>2, <2>1, <2>2, <4>1
    <3> HIDE DEF k
    <3>2. P[c + k] = P[i] /\ c + k \in 1 .. Len(P) /\ c + k # i
      BY <1>1, <1>2, <1>3, <3>1
    <3> QED
      BY <1>4, <2>1, <3>2
  <2> QED
    BY <1>6, <2>1, <2>2
<1>8. ASSUME NEW i \in 1 .. n PROVE M[P[c + i]] = bytes[i]
  <2>1. c + i \in 1 .. Len(P) /\ P[c + i] = iov.buf + i - 1
    BY <1>1, <1>2, <1>3
  <2>2. P[c + i] \in Address
    BY <1>1, <2>1
  <2>3. \A b \in Int : b + i - 1 \in b .. b + n - 1 /\ (b + i - 1) - b + 1 = i
    BY <1>2
  <2> DEFINE a == P[c + i]
  <2>4. a \in Address /\ a \in iov.buf .. iov.buf + n - 1 /\ a - iov.buf + 1 = i
    BY <1>2, <2>1, <2>2, <2>3
  <2> HIDE DEF a
  <2>5. M[a] = bytes[i]
    BY <1>6, <2>4
  <2> QED
    BY <2>5 DEF a
<1> DEFINE before == SubSeq(P, 1, c)
           after == SubSeq(P, 1, c + n)
<1>9. /\ before \in Seq(Address) /\ Len(before) = c /\ \A i \in 1 .. c : before[i] = P[i]
      /\ after \in Seq(Address) /\ Len(after) = c + n /\ \A i \in 1 .. c + n : after[i] = P[i]
  <2> DEFINE k == c + n
  <2>1. c \in 0 .. Len(P) /\ k \in 0 .. Len(P)
    BY <1>1, <1>2, <1>3
  <2> HIDE DEF k
  <2>2. /\ SubSeq(P, 1, k) \in Seq(Address) /\ Len(SubSeq(P, 1, k)) = k
        /\ \A i \in 1 .. k : SubSeq(P, 1, k)[i] = P[i]
    BY <1>1, <2>1, PrefixProperties
  <2> QED
    BY <1>1, <2>1, <2>2, PrefixProperties DEF k
<1> HIDE DEF before, after
<1> DEFINE old == Mapped(mem, before)
           new == Mapped(M, after)
<1>10. /\ old \in Seq(Byte) /\ Len(old) = c /\ \A i \in 1 .. c : old[i] = mem[P[i]]
       /\ new \in Seq(Byte) /\ Len(new) = c + n /\ \A i \in 1 .. c + n : new[i] = M[P[i]]
  <2>1. (\A a \in Address : mem[a] \in Byte) /\ \A a \in Address : M[a] \in Byte
    BY <1>5
  <2>2. old \in Seq(Byte) /\ Len(old) = c /\ new \in Seq(Byte) /\ Len(new) = c + n
    <3> DEFINE m == c + n
    <3>1. m \in Nat /\ Len(after) = m /\ \A i \in 1 .. m : M[after[i]] \in Byte
      <4>1. \A i \in 1 .. m : after[i] \in Address
        BY <1>9, ElementOfSeq
      <4> QED
        BY <1>1, <1>2, <1>9, <2>1, <4>1
    <3>2. \A i \in 1 .. c : mem[before[i]] \in Byte
      <4>1. \A i \in 1 .. c : before[i] \in Address
        BY <1>9, ElementOfSeq
      <4> QED
        BY <2>1, <4>1
    <3> HIDE DEF m
    <3>3. Mapped(mem, before) \in Seq(Byte) /\ Len(Mapped(mem, before)) = c
      BY <1>1, <1>9, <3>2 DEF Mapped
    <3>4. Mapped(M, after) \in Seq(Byte) /\ Len(Mapped(M, after)) = m
      BY <3>1 DEF Mapped
    <3> QED
      BY <3>3, <3>4 DEF m
  <2> QED
    BY <1>9, <2>2 DEF Mapped
<1> HIDE DEF old, new
<1>11. /\ old \o bytes \in Seq(Byte) /\ Len(old \o bytes) = c + n
       /\ \A i \in 1 .. c + n : (old \o bytes)[i] = IF i <= c THEN old[i] ELSE bytes[i - c]
  BY <1>10, ConcatProperties DEF n
<1>12. ASSUME NEW i \in 1 .. Len(new) PROVE new[i] = (old \o bytes)[i]
  <2>1. i \in 1 .. c + n
    BY <1>10
  <2>2. CASE i <= c
    <3>1. i \in 1 .. c
      BY <1>1, <1>2, <2>1, <2>2
    <3> QED
      BY <1>7, <1>10, <1>11, <2>1, <2>2, <3>1
  <2>3. CASE ~(i <= c)
    <3>1. i - c \in 1 .. n /\ c + (i - c) = i
      BY <1>1, <1>2, <2>1, <2>3
    <3>2. (old \o bytes)[i] = bytes[i - c] /\ new[i] = M[P[i]]
      BY <1>10, <1>11, <2>1, <2>3
    <3>3. M[P[c + (i - c)]] = bytes[i - c]
      BY <1>8, <3>1
    <3> QED
      BY <3>1, <3>2, <3>3
  <2> QED
    BY <2>2, <2>3
<1>13. new = old \o bytes
  BY <1>10, <1>11, <1>12, SeqEqual
<1> QED
  BY <1>13 DEF new, old, before, after, P, M, n

-----------------------------------------------------------------------------
(* Reading.                                                                 *)

(* A call under way that reads, its vector and its places.                  *)
LEMMA ReadingType ==
  ASSUME IInv, InputInv, InRead
  PROVE  /\ call \in Underway /\ call.op = "read" /\ call # Threw /\ call # NoCall
         /\ phase = "guest" /\ phase \in Before /\ call.fd = 0 /\ 0 \in Present
         /\ call.vec \in ReadArg /\ call.vec \in Seq(Window) /\ call.iovs \in Seq(Window)
         /\ call.count \in Nat /\ call.count \in 0 .. Len(Places(call.vec))
<1>1. call \in Underway /\ call.op = "read" /\ call.iovs \in Seq(Window) /\ call.count \in Nat
  BY CallType DEF IInv, InRead, Underway
<1>2. call # Threw /\ call # NoCall
  BY <1>1 DEF Threw, NoCall
<1>3. phase = "guest" /\ phase \in Before
  BY <1>2 DEF IInv, InCall, Before
<1>4. call.fd = 0 /\ call.vec \in ReadArg /\ call.count <= Len(Places(call.vec)) /\ 0 \in Present
  BY DEF InputInv, Left, InRead
<1>5. call.vec \in Seq(Window)
  BY <1>4, ReadArgType
<1>6. Len(Places(call.vec)) \in Nat
  BY <1>5, PlacesType
<1> QED
  BY <1>1, <1>2, <1>3, <1>4, <1>5, <1>6

(* What has arrived are bytes.                                              *)
LEMMA ArrivedType ==
  ASSUME IInv, InputInv
  PROVE  Arrived \in Seq(Byte)
<1>1. CASE InRead
  <2> DEFINE P == Places(call.vec)
             before == SubSeq(P, 1, call.count)
  <2>1. P \in Seq(Address) /\ call.count \in 0 .. Len(P)
    BY <1>1, ReadingType, PlacesType
  <2>2. before \in Seq(Address)
    <3> HIDE DEF P
    <3> QED
      BY <2>1, PrefixProperties
  <2>3. Len(before) \in Nat /\ \A i \in 1 .. Len(before) : before[i] \in Address
    BY <2>2, LenProperties, ElementOfSeq
  <2> HIDE DEF before
  <2>4. Mapped(mem, before) \in Seq(Byte)
    BY <2>3 DEF Mapped, IInv, Typed
  <2> QED
    BY <1>1, <2>4 DEF Arrived, before
<1>2. CASE ~InRead
  BY <1>2, EmptySeq DEF Arrived
<1> QED
  BY <1>1, <1>2

(* Pending bytes go to the first buffer that is left.                       *)
LEMMA CopyToInput ==
  ASSUME IInv, InputInv, InRead, UNCHANGED start, call.iovs # <<>>,
         NEW bytes \in 0 .. Len(buffer), bytes <= Head(call.iovs).len, NEW iovs \in Seq(Window),
         CopyTo(bytes, iovs), asyncify \/ buffer # <<>>, asyncify \/ bytes > 0,
         asyncify \/ Beyond(buffer, bytes) # <<>> =>
           Places(iovs) = Beyond(Addresses(Head(call.iovs)), bytes) \o Places(Tail(call.iovs))
  PROVE  Delivered' /\ Left'
<1> DEFINE P == Places(call.vec)
           c == call.count
           iov == Head(call.iovs)
           left == Places(Tail(call.iovs))
           taken == SubSeq(buffer, 1, bytes)
           rest == Beyond(buffer, bytes)
<1>1. /\ call' = [call EXCEPT !.iovs = iovs, !.count = c + bytes]
      /\ mem' = Stored(iov, taken) /\ buffer' = rest
      /\ UNCHANGED <<asyncify, offset, got, phase>>
  BY DEF CopyTo, Counted, start, Beyond
<1>2. /\ call \in Underway /\ call.op = "read" /\ call # Threw /\ phase \in Before
      /\ call.fd = 0 /\ 0 \in Present /\ call.vec \in ReadArg /\ call.vec \in Seq(Window)
      /\ c \in Nat /\ c \in 0 .. Len(P) /\ call.iovs \in Seq(Window)
  BY ReadingType
<1>3. /\ buffer \in Seq(Byte) /\ Len(buffer) \in Nat /\ bytes \in Nat
      /\ mem \in [Address -> Byte] /\ got \in Seq(Byte)
  BY LenProperties DEF IInv, Typed, InputInv, Answered
<1>4. /\ call'.op = "read" /\ call'.fd = 0 /\ call'.vec = call.vec /\ call'.iovs = iovs
      /\ call'.count = c + bytes /\ InRead'
  BY <1>1, <1>2 DEF Underway, InRead
<1>5. /\ iov \in Window /\ left \in Seq(Address) /\ Places(call.iovs) = Addresses(iov) \o left
      /\ Addresses(iov) \in Seq(Address) /\ Len(Addresses(iov)) = iov.len /\ iov.len \in Nat
  BY <1>2, PlacesCons, PlacesType, AddressesType
<1>6. P \in Seq(Address) /\ Len(P) \in Nat
  BY <1>2, PlacesType
<1>7. Remaining(P, c, Addresses(iov), left)
  BY <1>2, <1>5, <1>6 DEF InputInv, Left, Remaining
<1>8. taken \in Seq(Byte) /\ Len(taken) = bytes /\ rest \in Seq(Byte)
  BY <1>3, Taken DEF Beyond
<1>9. bytes \in 0 .. iov.len
  BY <1>3, <1>5
<1>10. SubSeq(buffer, 1, bytes) \o SubSeq(buffer, bytes + 1, Len(buffer)) = SubSeq(buffer, 1, Len(buffer))
  <2>1. bytes \in 1 - 1 .. Len(buffer) /\ 1 \in 1 .. Len(buffer) + 1 /\ Len(buffer) \in bytes .. Len(buffer)
    BY <1>3
  <2> QED
    BY <1>3, <2>1, ConcatAdjacentSubSeq
<1> HIDE DEF P, c, iov, left, taken, rest
<1>11. c + bytes <= Len(P) /\ Beyond(Addresses(iov), bytes) \o left = Beyond(P, c + bytes)
  <2> DEFINE a == Addresses(iov)
  <2>1. Remaining(P, c, a, left) /\ bytes \in 0 .. Len(a)
    BY <1>5, <1>7, <1>9
  <2> HIDE DEF a
  <2>2. Remaining(P, c + bytes, Beyond(a, bytes), left)
    BY <2>1, FillFront
  <2> QED
    BY <1>6, <2>2 DEF Remaining, a
<1>12. Mapped(mem', SubSeq(P, 1, c + bytes)) = Mapped(mem, SubSeq(P, 1, c)) \o taken
  <2>1. Remaining(Places(call.vec), c, Addresses(iov), left) /\ Len(taken) <= iov.len
    BY <1>7, <1>8, <1>9 DEF P
  <2>2. Mapped(Stored(iov, taken), SubSeq(Places(call.vec), 1, c + Len(taken)))
          = Mapped(mem, SubSeq(Places(call.vec), 1, c)) \o taken
    BY <1>2, <1>3, <1>5, <1>8, <2>1, StoredBytes
  <2> QED
    BY <1>1, <1>8, <2>2 DEF P
<1>13. Arrived' = Arrived \o taken
  BY <1>4, <1>12 DEF Arrived, P, c
<1>14. taken \o rest = buffer
  BY <1>3, <1>10, SubSeqFull DEF taken, rest, Beyond
<1>15. Arrived \in Seq(Byte) /\ got \o (Arrived \o buffer) = SubSeq(Input, 1, offset)
  BY <1>2, ArrivedType DEF InputInv, Delivered
<1>16. Delivered'
  <2>1. (Arrived \o taken) \o rest = Arrived \o (taken \o rest)
    BY <1>8, <1>15, Associative
  <2> QED
    BY <1>1, <1>13, <1>14, <1>15, <2>1 DEF Delivered
<1>17. Left'
  <2>1. asyncify' \/ buffer' # <<>> => Places(call'.iovs) = Beyond(P, c + bytes)
    BY <1>1, <1>4, <1>11 DEF rest, iov, left
  <2>2. asyncify' \/ call'.count > 0
    BY <1>1, <1>2, <1>3, <1>4
  <2> QED
    BY <1>2, <1>4, <1>11, <2>1, <2>2 DEF Left, P
<1> QED
  BY <1>16, <1>17

(* A call that reads returns: the guest finds what has arrived.             *)
LEMMA ReadReturnInput ==
  ASSUME IInv, InputInv, InRead, UNCHANGED start, ReadReturn
  PROVE  Delivered' /\ Left' /\ got' \in Seq(Byte)
<1>1. /\ got' = got \o Contents(call.vec, call.count) /\ call' = NoCall
      /\ UNCHANGED <<asyncify, mem, buffer, offset, phase>>
  BY DEF ReadReturn, start
<1>2. ~InRead'
  BY <1>1 DEF InRead, NoCall
<1>3. /\ call # Threw /\ phase \in Before /\ call.vec \in Seq(Window)
      /\ call.count \in 0 .. Len(Places(call.vec))
  BY ReadingType
<1>4. Contents(call.vec, call.count) = Arrived
  BY <1>3, ContentsAre DEF Arrived, IInv, Typed
<1>5. got \in Seq(Byte) /\ Arrived \in Seq(Byte) /\ buffer \in Seq(Byte)
  BY ArrivedType DEF InputInv, Answered, IInv, Typed
<1>6. got \o (Arrived \o buffer) = SubSeq(Input, 1, offset)
  BY <1>3 DEF InputInv, Delivered
<1>7. /\ got \o Arrived \in Seq(Byte) /\ <<>> \o buffer = buffer
      /\ (got \o Arrived) \o buffer = got \o (Arrived \o buffer)
  BY <1>5, ConcatProperties, ConcatEmptySeq, Associative
<1>8. Delivered'
  BY <1>1, <1>2, <1>4, <1>6, <1>7 DEF Delivered, Arrived
<1> QED
  BY <1>1, <1>2, <1>4, <1>7, <1>8 DEF Left

(* readv of the synchronous adapter.                                        *)
LEMMA SyncReadInput ==
  ASSUME IInv, InputInv, UNCHANGED start, SyncReadIov
  PROVE  Delivered' /\ Left' /\ got' \in Seq(Byte)
<1>1. InRead
  BY DEF SyncReadIov
<1>2. CASE call.iovs = <<>> \/ Head(call.iovs).len = 0 \/ buffer = <<>>
  BY <1>1, <1>2, ReadReturnInput DEF SyncReadIov
<1>3. CASE ~(call.iovs = <<>> \/ Head(call.iovs).len = 0 \/ buffer = <<>>)
  <2> DEFINE iov == Head(call.iovs)
             bytes == Smaller(iov.len, Len(buffer))
  <2>1. CopyTo(bytes, Tail(call.iovs)) /\ call.iovs # <<>> /\ iov.len # 0 /\ buffer # <<>>
    BY <1>3 DEF SyncReadIov
  <2>2. iov.len \in Nat /\ Tail(call.iovs) \in Seq(Window) /\ iov \in Window
    BY <1>1, <2>1, IovsType DEF IInv
  <2>3. buffer \in Seq(Byte) /\ Len(buffer) \in Nat \ {0}
    BY <2>1, EmptySeq DEF IInv, Typed
  <2>4. bytes \in 0 .. Len(buffer) /\ bytes <= iov.len /\ bytes > 0
        /\ (bytes = iov.len \/ bytes = Len(buffer))
    BY <2>1, <2>2, <2>3 DEF Smaller
  <2>5. got' \in Seq(Byte)
    BY <2>1 DEF CopyTo, InputInv, Answered
  <2>6. Beyond(buffer, bytes) # <<>> =>
          Places(Tail(call.iovs)) = Beyond(Addresses(iov), bytes) \o Places(Tail(call.iovs))
    <3> SUFFICES ASSUME Beyond(buffer, bytes) # <<>>
                 PROVE  Places(Tail(call.iovs)) =
                          Beyond(Addresses(iov), bytes) \o Places(Tail(call.iovs))
      OBVIOUS
    <3>1. bytes # Len(buffer)
      BY <2>3, SubSeqEmpty DEF Beyond
    <3>2. Beyond(Addresses(iov), bytes) = <<>>
      BY <2>2, <2>4, <3>1, SubSeqEmpty, AddressesType DEF Beyond
    <3>3. Places(Tail(call.iovs)) \in Seq(Address)
      BY <2>2, PlacesType
    <3> QED
      BY <3>2, <3>3, ConcatEmptySeq
  <2>7. ~asyncify
    BY DEF SyncReadIov
  <2> HIDE DEF bytes
  <2> QED
    BY <1>1, <2>1, <2>2, <2>4, <2>5, <2>6, <2>7, CopyToInput
<1> QED
  BY <1>2, <1>3

(* readv of the asynchronous adapter passes an empty buffer over.           *)
LEMMA SkipIovInput ==
  ASSUME IInv, InputInv, UNCHANGED start, InRead, asyncify, call.iovs # <<>>,
         Head(call.iovs).len = 0, SkipIov
  PROVE  Delivered' /\ Left' /\ got' \in Seq(Byte)
<1>1. /\ call' = [call EXCEPT !.iovs = Tail(call.iovs)]
      /\ UNCHANGED <<mem, asyncify, buffer, offset, got, phase>>
  BY DEF SkipIov, stdin, start
<1>2. /\ call \in Underway /\ call # Threw /\ phase \in Before /\ call.fd = 0 /\ call.op = "read"
      /\ call.iovs \in Seq(Window) /\ call.vec \in ReadArg /\ 0 \in Present
  BY ReadingType
<1>3. /\ call'.op = "read" /\ call'.fd = 0 /\ call'.vec = call.vec /\ call'.count = call.count
      /\ call'.iovs = Tail(call.iovs) /\ InRead'
  BY <1>1, <1>2 DEF Underway, InRead
<1>4. Places(Tail(call.iovs)) = Places(call.iovs)
  <2>1. /\ Places(call.iovs) = Addresses(Head(call.iovs)) \o Places(Tail(call.iovs))
        /\ Head(call.iovs) \in Window /\ Tail(call.iovs) \in Seq(Window)
    BY <1>2, PlacesCons
  <2>2. Addresses(Head(call.iovs)) \in Seq(Address) /\ Len(Addresses(Head(call.iovs))) = 0
    BY <2>1, AddressesType
  <2>3. Addresses(Head(call.iovs)) = <<>>
    BY <2>2, EmptySeq
  <2>4. Places(Tail(call.iovs)) \in Seq(Address)
    BY <2>1, PlacesType
  <2> QED
    BY <2>1, <2>3, <2>4, ConcatEmptySeq
<1>5. Arrived' = Arrived
  BY <1>1, <1>3 DEF Arrived
<1>6. Delivered'
  BY <1>1, <1>2, <1>5 DEF InputInv, Delivered
<1>7. Left'
  BY <1>1, <1>3, <1>4 DEF InputInv, Left
<1> QED
  BY <1>1, <1>6, <1>7 DEF InputInv, Answered

(* A chunk follows what has been delivered before it.                       *)
LEMMA ChunkFollows ==
  ASSUME offset \in 0 .. Len(Input), NEW n \in ChunkLen
  PROVE  SubSeq(Input, 1, offset) \o Chunk(n) = SubSeq(Input, 1, offset + n)
<1>1. Input \in Seq(Byte) /\ Len(Input) \in Nat
  BY StreamsAssumption, LenProperties
<1>2. offset + n \in offset .. Len(Input) /\ offset \in 1 - 1 .. Len(Input) /\ 1 \in 1 .. Len(Input) + 1
  BY <1>1 DEF ChunkLen
<1> DEFINE last == offset + n
<1>3. last \in offset .. Len(Input)
  BY <1>2
<1> HIDE DEF last
<1>4. SubSeq(Input, 1, offset) \o SubSeq(Input, offset + 1, last) = SubSeq(Input, 1, last)
  BY <1>1, <1>2, <1>3, ConcatAdjacentSubSeq
<1> QED
  BY <1>4 DEF Chunk, last

(* readv waits for the source.                                              *)
LEMMA AsyncPullInput ==
  ASSUME IInv, InputInv, UNCHANGED start, InRead, asyncify, buffer = <<>>, AsyncPull
  PROVE  Delivered' /\ Left' /\ got' \in Seq(Byte)
<1>1. CASE ReadReturn
  BY <1>1, ReadReturnInput
<1>2. CASE call' = Threw /\ UNCHANGED <<mem, stdin, stdout, task>>
  <2>1. ~InRead' /\ got' = got
    BY <1>2 DEF InRead, Threw, stdin
  <2> QED
    BY <1>2, <2>1 DEF Delivered, Left, InputInv, Answered
<1>3. CASE /\ \E n \in ChunkLen : Deliver(n) /\ buffer' = Chunk(n)
           /\ UNCHANGED <<asyncify, memory, source, got, stdout, task>>
  <2>1. PICK n \in ChunkLen : offset' = offset + n /\ buffer' = Chunk(n)
    BY <1>3 DEF Deliver
  <2>2. UNCHANGED <<asyncify, mem, call, got, phase>>
    BY <1>3 DEF memory, start
  <2>3. Chunk(n) \in Seq(Byte) /\ SubSeq(Input, 1, offset) \o Chunk(n) = SubSeq(Input, 1, offset + n)
    BY ChunkType, ChunkFollows DEF IInv, Typed
  <2>4. /\ got \in Seq(Byte) /\ Arrived \in Seq(Byte)
        /\ call # Threw /\ phase \in Before
    BY ReadingType, ArrivedType DEF InputInv, Answered
  <2>5. got \o (Arrived \o <<>>) = SubSeq(Input, 1, offset) /\ Arrived \o <<>> = Arrived
    BY <2>4, ConcatEmptySeq DEF InputInv, Delivered
  <2>6. (got \o Arrived) \o Chunk(n) = got \o (Arrived \o Chunk(n))
    BY <2>3, <2>4, Associative
  <2>7. Arrived' = Arrived /\ (InRead' <=> InRead)
    BY <2>2 DEF Arrived, InRead
  <2>8. Delivered'
    BY <2>1, <2>2, <2>3, <2>5, <2>6, <2>7 DEF Delivered
  <2>9. Left'
    BY <2>2, <2>7 DEF InputInv, Left
  <2> QED
    BY <2>2, <2>4, <2>8, <2>9
<1> QED
  BY <1>1, <1>2, <1>3 DEF AsyncPull

(* What is left of a buffer lies in memory.                                 *)
LEMMA RestType ==
  ASSUME NEW iov \in Window, NEW bytes \in Nat, bytes <= iov.len
  PROVE  Rest(iov, bytes) \in Window
<1>1. iov.buf \in Int /\ iov.len \in Nat /\ Cells(iov) \subseteq Address
  BY DEF Window
<1>2. iov.buf + bytes \in Int /\ iov.len - bytes \in Nat
  BY <1>1
<1>3. \A b \in Int, l \in Nat :
        bytes <= l => (b + bytes) .. (b + bytes) + (l - bytes) - 1 \subseteq b .. b + l - 1
  OBVIOUS
<1>4. Cells(Rest(iov, bytes)) = (iov.buf + bytes) .. (iov.buf + bytes) + (iov.len - bytes) - 1
  BY DEF Rest, Cells
<1>5. Cells(Rest(iov, bytes)) \subseteq Address
  BY <1>1, <1>3, <1>4 DEF Cells
<1>6. Rest(iov, bytes) \in [buf : Int, len : Nat]
  BY <1>2 DEF Rest
<1> QED
  BY <1>5, <1>6 DEF Window

(* readv copies pending bytes; what they do not fill is left.               *)
LEMMA AsyncCopyInput ==
  ASSUME IInv, InputInv, UNCHANGED start, InRead, asyncify, call.iovs # <<>>, AsyncCopy
  PROVE  Delivered' /\ Left' /\ got' \in Seq(Byte)
<1> DEFINE iov == Head(call.iovs)
           bytes == Smaller(iov.len, Len(buffer))
           tail == Tail(call.iovs)
           iovs == IF bytes = iov.len THEN tail ELSE <<Rest(iov, bytes)>> \o tail
<1>1. iov \in Window /\ iov.len \in Nat /\ iov.buf \in Int /\ tail \in Seq(Window)
  BY IovsType DEF IInv
<1>2. bytes \in 0 .. Len(buffer) /\ bytes \in Nat /\ bytes <= iov.len
  BY <1>1, LenProperties DEF IInv, Typed, Smaller
<1>3. CopyTo(bytes, iovs)
  BY DEF AsyncCopy
<1>4. got' \in Seq(Byte)
  BY <1>3 DEF CopyTo, InputInv, Answered
<1> HIDE DEF bytes
<1>5. Places(tail) \in Seq(Address) /\ Addresses(iov) \in Seq(Address) /\ Len(Addresses(iov)) = iov.len
      /\ \A i \in 1 .. iov.len : Addresses(iov)[i] = iov.buf + i - 1
  BY <1>1, PlacesType, AddressesType
<1>6. CASE bytes = iov.len
  <2>1. Beyond(Addresses(iov), bytes) = <<>>
    BY <1>1, <1>2, <1>5, <1>6, SubSeqEmpty DEF Beyond
  <2>2. Places(tail) = Beyond(Addresses(iov), bytes) \o Places(tail)
    BY <1>5, <2>1, ConcatEmptySeq
  <2>3. CopyTo(bytes, tail)
    BY <1>3, <1>6
  <2> HIDE DEF iov, tail
  <2> QED
    BY <1>1, <1>2, <1>4, <2>2, <2>3, CopyToInput DEF iov, tail
<1>7. CASE bytes # iov.len
  <2> DEFINE r == Rest(iov, bytes)
  <2>1. r \in Window
    BY <1>1, <1>2, RestType
  <2>2. r.buf = iov.buf + bytes /\ r.len = iov.len - bytes
    BY DEF Rest
  <2> HIDE DEF r
  <2>3. /\ Addresses(r) \in Seq(Address) /\ Len(Addresses(r)) = iov.len - bytes
        /\ \A i \in 1 .. iov.len - bytes : Addresses(r)[i] = iov.buf + bytes + i - 1
    BY <2>1, <2>2, AddressesType
  <2>4. Addresses(r) = Beyond(Addresses(iov), bytes)
    <3> DEFINE a == Addresses(iov)
               s == Beyond(a, bytes)
    <3>1. a \in Seq(Address) /\ bytes \in 0 .. Len(a) /\ Len(a) = iov.len
      BY <1>1, <1>2, <1>5
    <3> HIDE DEF a
    <3>2. s \in Seq(Address) /\ Len(s) = Len(a) - bytes /\ \A i \in 1 .. Len(a) - bytes : s[i] = a[bytes + i]
      BY <3>1, SuffixProperties
    <3> HIDE DEF s
    <3>3. ASSUME NEW i \in 1 .. iov.len - bytes PROVE Addresses(r)[i] = s[i]
      <4>1. bytes + i \in 1 .. iov.len /\ iov.buf + (bytes + i) - 1 = iov.buf + bytes + i - 1
        BY <1>1, <1>2
      <4>2. a[bytes + i] = iov.buf + (bytes + i) - 1
        BY <1>5, <4>1 DEF a
      <4> QED
        BY <2>3, <3>1, <3>2, <4>1, <4>2
    <3>4. Addresses(r) = s
      BY <2>3, <3>1, <3>2, <3>3, SeqEqual
    <3> QED
      BY <3>1, <3>4 DEF s, a
  <2>5. <<r>> \o tail \in Seq(Window) /\ <<r>> \o tail # <<>>
        /\ Head(<<r>> \o tail) = r /\ Tail(<<r>> \o tail) = tail
    BY <1>1, <2>1
  <2>6. Places(<<r>> \o tail) = Addresses(r) \o Places(tail)
    BY <2>5, PlacesCons
  <2>7. CopyTo(bytes, <<r>> \o tail)
    BY <1>3, <1>7 DEF r
  <2>8. Places(<<r>> \o tail) = Beyond(Addresses(iov), bytes) \o Places(tail)
    BY <2>4, <2>6
  <2> HIDE DEF iov, tail
  <2> DEFINE next == <<r>> \o tail
  <2>9. next \in Seq(Window) /\ CopyTo(bytes, next)
        /\ Places(next) = Beyond(Addresses(iov), bytes) \o Places(tail)
    BY <2>5, <2>7, <2>8
  <2> HIDE DEF next
  <2> QED
    BY <1>1, <1>2, <1>4, <2>9, CopyToInput DEF iov, tail
<1> QED
  BY <1>6, <1>7

(* All steps of fd_read.                                                    *)
LEMMA ReadInput ==
  ASSUME IInv, InputInv, UNCHANGED start, SyncReadIov \/ AsyncReadIov
  PROVE  Delivered' /\ Left' /\ got' \in Seq(Byte)
<1>1. CASE SyncReadIov
  BY <1>1, SyncReadInput
<1>2. CASE AsyncReadIov
  <2>1. InRead /\ asyncify
    BY <1>2 DEF AsyncReadIov
  <2>2. CASE call.iovs = <<>>
    BY <1>2, <2>1, <2>2, ReadReturnInput DEF AsyncReadIov
  <2>3. CASE call.iovs # <<>> /\ Head(call.iovs).len = 0
    BY <1>2, <2>1, <2>3, SkipIovInput DEF AsyncReadIov
  <2>4. CASE call.iovs # <<>> /\ Head(call.iovs).len # 0 /\ buffer = <<>>
    BY <1>2, <2>1, <2>4, AsyncPullInput DEF AsyncReadIov
  <2>5. CASE call.iovs # <<>> /\ Head(call.iovs).len # 0 /\ buffer # <<>>
    BY <1>2, <2>1, <2>5, AsyncCopyInput DEF AsyncReadIov
  <2> QED
    BY <2>2, <2>3, <2>4, <2>5
<1> QED
  BY <1>1, <1>2


-----------------------------------------------------------------------------
(* The growing buffer of the synchronous writer.                            *)

(* Times 1.5 is half a byte more, as long as there is a byte.               *)
LEMMA HalfMore ==
  ASSUME NEW num \in Nat, NEW den \in Nat, NEW n \in Nat,
         1 <= den, den <= num, n * den + 2 * den <= 2 * num
  PROVE  /\ 1 <= 2 * den /\ 2 * den <= 3 * num
         /\ (n + 1) * (2 * den) + 2 * (2 * den) <= 2 * (3 * num)
<1>1. (n + 1) * (2 * den) = 2 * (n * den) + 2 * den
  OBVIOUS
<1>2. n * den \in Nat
  OBVIOUS
<1> QED
  BY <1>1, <1>2

(* What is left of a fraction is no less than a number it is no less than.  *)
LEMMA Truncated ==
  ASSUME NEW num \in Nat, NEW den \in Nat \ {0}, NEW k \in Nat, k * den <= num
  PROVE  num \div den \in Nat /\ k <= num \div den
<1> DEFINE q == num \div den
           m == num % den
<1>1. q \in Int /\ m \in 0 .. den - 1 /\ num = den * q + m
  BY SMT
<1> HIDE DEF q, m
<1>2. ASSUME q < k PROVE FALSE
  <2>1. den * (q + 1) <= den * k
    BY <1>1, <1>2
  <2>2. den * (q + 1) = den * q + den
    BY <1>1
  <2> QED
    BY <1>1, <2>1, <2>2
<1> QED
  BY <1>1, <1>2 DEF q

(* The loop of desiredCapacity ends with what is required.                  *)
LEMMA GrownEnough ==
  ASSUME NEW size \in Nat \ {0}, NEW required \in Nat
  PROVE  Grown(size, required) \in Nat \ {0} /\ required <= Grown(size, required)
<1> DEFINE n == 2 * required
           Fraction == [num : Nat, den : Nat]
           once(last) == IF last.num < required * last.den
                         THEN [num |-> 3 * last.num, den |-> 2 * last.den] ELSE last
           step == [p \in Nat \X Fraction |-> once(p[2])]
           first == [num |-> size, den |-> 1]
           d == CHOOSE d : d = [i \in 0 .. 2 * required |->
                  IF i = 0 THEN [num |-> size, den |-> 1]
                  ELSE LET last == d[i - 1] IN
                       IF last.num < required * last.den
                       THEN [num |-> 3 * last.num, den |-> 2 * last.den] ELSE last]
<1>1. n \in Nat /\ first \in Fraction
  OBVIOUS
<1>2. \A last \in Fraction : once(last) \in Fraction
  OBVIOUS
<1> HIDE DEF Fraction
<1>3. step \in [Nat \X Fraction -> Fraction]
  <2> HIDE DEF once
  <2> QED
    BY <1>2
<1>4. \A i \in Nat, last \in Fraction : step[<<i, last>>] = once(last)
  <2> HIDE DEF once
  <2> SUFFICES ASSUME NEW i \in Nat, NEW last \in Fraction PROVE step[<<i, last>>] = once(last)
    OBVIOUS
  <2>1. <<i, last>> \in Nat \X Fraction /\ <<i, last>>[2] = last
    OBVIOUS
  <2> QED
    BY <2>1
<1> HIDE DEF step, first
<1>5. PICK g \in [0 .. n -> Fraction] : Recursive(g, first, step, 0, n)
  <2> HIDE DEF n
  <2> QED
    BY <1>1, <1>3, RecursionExists
<1>6. \A i \in 0 .. n : g[i] = IF i = 0 THEN first ELSE once(g[i - 1])
  <2> SUFFICES ASSUME NEW i \in 0 .. n PROVE g[i] = IF i = 0 THEN first ELSE once(g[i - 1])
    OBVIOUS
  <2> HIDE DEF once
  <2>1. g[i] = IF i = 0 THEN first ELSE step[<<i, g[i - 1]>>]
    BY <1>5 DEF Recursive
  <2>2. i # 0 => i \in Nat /\ i - 1 \in 0 .. n
    OBVIOUS
  <2>3. i # 0 => step[<<i, g[i - 1]>>] = once(g[i - 1])
    BY <1>4, <2>2
  <2> QED
    BY <2>1, <2>3
<1>7. \E h : h = [i \in 0 .. 2 * required |->
                  IF i = 0 THEN [num |-> size, den |-> 1]
                  ELSE LET last == h[i - 1] IN
                       IF last.num < required * last.den
                       THEN [num |-> 3 * last.num, den |-> 2 * last.den] ELSE last]
  <2>1. g = [i \in 0 .. 2 * required |->
                  IF i = 0 THEN [num |-> size, den |-> 1]
                  ELSE LET last == g[i - 1] IN
                       IF last.num < required * last.den
                       THEN [num |-> 3 * last.num, den |-> 2 * last.den] ELSE last]
    BY <1>6 DEF first
  <2> QED
    BY <2>1
<1>8. d = [i \in 0 .. 2 * required |->
                  IF i = 0 THEN [num |-> size, den |-> 1]
                  ELSE LET last == d[i - 1] IN
                       IF last.num < required * last.den
                       THEN [num |-> 3 * last.num, den |-> 2 * last.den] ELSE last]
  BY <1>7, Zenon
<1>9. Grown(size, required) = d[n].num \div d[n].den
  BY DEF Grown
<1> HIDE DEF d
<1>10. \A i \in 0 .. n : d[i] = IF i = 0 THEN first ELSE once(d[i - 1])
  BY <1>8 DEF first
<1> DEFINE Enough(f, i) ==
             /\ f \in Fraction /\ 1 <= f.den /\ f.den <= f.num
             /\ required * f.den <= f.num \/ i * f.den + 2 * f.den <= 2 * f.num
           T == {i \in Nat : Enough(d[i], i)}
<1>11. 0 \in T
  <2>1. 0 \in 0 .. n
    BY <1>1
  <2>2. d[0] = [num |-> size, den |-> 1]
    BY <1>10, <2>1 DEF first
  <2>3. d[0].num = size /\ d[0].den = 1 /\ d[0] \in Fraction
    BY <2>2 DEF Fraction
  <2> QED
    BY <2>3
<1>12. ASSUME NEW i \in 0 + 1 .. n, i - 1 \in T PROVE i \in T
  <2> DEFINE last == d[i - 1]
  <2>1. Enough(last, i - 1) /\ i - 1 \in Nat /\ i \in Nat
    BY <1>12
  <2>2. d[i] = once(last)
    BY <1>10
  <2> HIDE DEF last
  <2>3. last.num \in Nat /\ last.den \in Nat
    BY <2>1 DEF Fraction
  <2>4. CASE last.num < required * last.den
    <3>1. (i - 1) * last.den + 2 * last.den <= 2 * last.num
      BY <2>1, <2>3, <2>4
    <3>2. /\ 1 <= 2 * last.den /\ 2 * last.den <= 3 * last.num
          /\ ((i - 1) + 1) * (2 * last.den) + 2 * (2 * last.den) <= 2 * (3 * last.num)
      BY <2>1, <2>3, <3>1, HalfMore
    <3>3. d[i] = [num |-> 3 * last.num, den |-> 2 * last.den]
      BY <2>2, <2>4
    <3>4. d[i].num = 3 * last.num /\ d[i].den = 2 * last.den /\ d[i] \in Fraction
      BY <2>3, <3>3 DEF Fraction
    <3>5. (i - 1) + 1 = i
      BY <2>1
    <3>6. Enough(d[i], i)
      BY <3>2, <3>4, <3>5
    <3> QED
      BY <2>1, <3>6
  <2>5. CASE ~(last.num < required * last.den)
    <3>1. d[i] = last
      BY <2>2, <2>5
    <3>2. required * last.den <= last.num
      BY <2>3, <2>5
    <3> QED
      BY <2>1, <3>1, <3>2
  <2> QED
    BY <2>4, <2>5
<1>13. 0 .. n \subseteq T
  <2> HIDE DEF T, n
  <2> QED
    BY <1>1, <1>11, <1>12, IntervalInduction
<1>14. Enough(d[n], n)
  BY <1>1, <1>13
<1>15. d[n].num \in Nat /\ d[n].den \in Nat \ {0} /\ d[n].den <= d[n].num
  BY <1>14 DEF Fraction
<1>16. required * d[n].den <= d[n].num
  <2> DEFINE den == d[n].den
             num == d[n].num
  <2>1. den \in Nat /\ num \in Nat
    BY <1>15
  <2>2. required * den <= num \/ (2 * required) * den + 2 * den <= 2 * num
    BY <1>14
  <2> HIDE DEF den, num
  <2>3. (2 * required) * den = 2 * (required * den) /\ required * den \in Nat
    BY <2>1
  <2>4. required * den <= num
    BY <2>1, <2>2, <2>3
  <2> QED
    BY <2>4 DEF den, num
<1>17. 1 * d[n].den <= d[n].num
  BY <1>15
<1> DEFINE num == d[n].num
           den == d[n].den
<1>18. num \in Nat /\ den \in Nat \ {0} /\ required * den <= num /\ 1 * den <= num
  BY <1>15, <1>16, <1>17
<1> HIDE DEF num, den
<1>19. num \div den \in Nat /\ required <= num \div den /\ 1 <= num \div den
  BY <1>18, Truncated
<1> QED
  BY <1>9, <1>19 DEF num, den
-----------------------------------------------------------------------------
(* The other steps.                                                         *)

(* A step that leaves stdin and the call alone.                             *)
LEMMA SameCall ==
  ASSUME InputInv, UNCHANGED <<asyncify, buffer, offset, got, mem, call>>,
         phase' \in Before => phase \in Before
  PROVE  Delivered' /\ Left'
<1>1. (InRead' <=> InRead) /\ Arrived' = Arrived
  BY DEF InRead, Arrived
<1> QED
  BY <1>1 DEF InputInv, Delivered, Left

(* A step with no read under way before or after it.                        *)
LEMMA NotReading ==
  ASSUME InputInv, UNCHANGED <<asyncify, buffer, offset, got>>, ~InRead, ~InRead',
         phase' \in Before /\ call' # Threw => phase \in Before /\ call # Threw
  PROVE  Delivered' /\ Left'
<1>1. Arrived = <<>> /\ Arrived' = <<>>
  BY DEF Arrived
<1> QED
  BY <1>1 DEF InputInv, Delivered, Left

(* The guest calls: all the places of the vector are left.                  *)
LEMMA GuestCallsInput ==
  ASSUME IInv, InputInv, GuestCalls
  PROVE  Delivered' /\ Left'
<1>1. call = NoCall /\ phase = "guest" /\ UNCHANGED <<start, mem, stdin, stdout, task>>
  BY DEF GuestCalls, fd_read, fd_write
<1>2. UNCHANGED <<asyncify, buffer, offset, got, phase>> /\ ~InRead /\ call # Threw /\ phase \in Before
  BY <1>1 DEF stdin, start, InRead, NoCall, Threw, Before
<1>3. CASE ~InRead'
  BY <1>2, <1>3, NotReading
<1>4. CASE InRead'
  <2>1. PICK fd \in Stream, vec \in ReadArg : call' = Called("read", fd, vec) /\ fd \notin Sink
    BY <1>1, <1>4 DEF GuestCalls, fd_read, fd_write, InRead, Threw, Called
  <2>2. call'.fd = 0 /\ call'.vec = vec /\ call'.iovs = vec /\ call'.count = 0
    BY <1>4, <2>1 DEF InRead, Called, Sink
  <2> DEFINE P == Places(vec)
  <2>3. P \in Seq(Address) /\ Len(P) \in Nat
    BY ReadArgType, PlacesType
  <2> HIDE DEF P
  <2>4. Beyond(P, 0) = P /\ SubSeq(P, 1, 0) = <<>>
    BY <2>3, SubSeqFull, SubSeqEmpty DEF Beyond
  <2>5. Mapped(mem, <<>>) = <<>>
    BY EmptySeq DEF Mapped
  <2>6. Arrived = <<>> /\ Arrived' = <<>>
    BY <1>1, <1>2, <1>4, <2>2, <2>4, <2>5 DEF Arrived, P
  <2>7. Delivered'
    BY <1>2, <2>6 DEF InputInv, Delivered
  <2>8. Left'
    BY <2>2, <2>3, <2>4 DEF Left, P
  <2> QED
    BY <2>7, <2>8
<1> QED
  BY <1>3, <1>4

(* What a step that settles nothing leaves alone.                           *)
LEMMA SameAnswers ==
  ASSUME InputInv, UNCHANGED <<start, source, got, capacity>>
  PROVE  Answered'
BY DEF InputInv, Answered, start

(* A step that delivers nothing but to a guest that waits for it.           *)
LEMMA SameTasks ==
  ASSUME InputInv, UNCHANGED <<phase, asyncify>>, task'[0] = task[0], asyncify \/ offset' = offset
  PROVE  Collected'
BY DEF InputInv, Collected

(* A step of the guest or of a call leaves start and the tasks alone.       *)
LEMMA GuestAnswers ==
  ASSUME InputInv, Delivered', Left', UNCHANGED <<start, asyncify, source, capacity, task>>,
         asyncify \/ offset' = offset, got' \in Seq(Byte)
  PROVE  InputInv'
<1>1. Collected'
  BY SameTasks DEF start
<1>2. Answered'
  BY DEF InputInv, Answered, start
<1> QED
  BY <1>1, <1>2 DEF InputInv

(* The guest's own code and its calls.                                      *)
LEMMA GuestInput ==
  ASSUME IInv, InputInv, GuestStores \/ GuestCalls
  PROVE  InputInv'
<1>1. /\ call = NoCall /\ phase = "guest"
      /\ UNCHANGED <<start, asyncify, buffer, offset, source, got, capacity, task>>
  BY DEF GuestStores, GuestCalls, fd_read, fd_write, stdin, stdout
<1>2. got' \in Seq(Byte)
  BY <1>1 DEF InputInv, Answered
<1>3. CASE GuestStores
  <2>1. ~InRead /\ ~InRead' /\ call # Threw /\ phase \in Before
    BY <1>1, <1>3 DEF GuestStores, InRead, NoCall, Threw, Before
  <2> QED
    BY <1>1, <1>2, <2>1, NotReading, GuestAnswers
<1>4. CASE GuestCalls
  BY <1>1, <1>2, <1>4, GuestCallsInput, GuestAnswers
<1> QED
  BY <1>3, <1>4

(* The steps of fd_read.                                                    *)
LEMMA ReadStepsInput ==
  ASSUME IInv, InputInv, UNCHANGED start, ReadStep
  PROVE  InputInv'
<1>1. CASE DevNullRead
  <2>1. /\ call' = NoCall /\ ~InRead /\ call # Threw /\ call # NoCall
        /\ UNCHANGED <<asyncify, buffer, offset, source, got, capacity, task>>
    BY <1>1 DEF DevNullRead, InRead, Threw, NoCall, stdin, stdout
  <2>2. ~InRead' /\ phase \in Before /\ got' \in Seq(Byte)
    BY <2>1 DEF InRead, NoCall, IInv, InCall, Before, InputInv, Answered
  <2> QED
    BY <2>1, <2>2, NotReading, GuestAnswers
<1>2. CASE SyncReadIov \/ AsyncReadIov
  <2>1. UNCHANGED <<asyncify, source, stdout, task>>
    BY <1>2 DEF SyncReadIov, AsyncReadIov, ReadReturn, CopyTo, SkipIov, AsyncPull, AsyncCopy, stdin
  <2>2. asyncify \/ offset' = offset
    BY <1>2 DEF SyncReadIov, AsyncReadIov, ReadReturn, CopyTo
  <2> QED
    BY <1>2, <2>1, <2>2, ReadInput, GuestAnswers DEF stdout
<1> QED
  BY <1>1, <1>2 DEF ReadStep

(* The buffer of the synchronous writer stays one.                          *)
LEMMA CapacityGrows ==
  ASSUME IInv, InputInv, SyncWriteIov
  PROVE  /\ capacity' \in Sinks(Nat \ {0})
         /\ ~(Len(output[call.fd]) + Head(call.iovs).len > capacity'[call.fd])
<1> DEFINE s == call.fd
           required == Len(output[s]) + Head(call.iovs).len
           size == IF required > capacity[s] THEN Grown(capacity[s], required) ELSE capacity[s]
<1>1. InWrite /\ call.iovs # <<>> /\ capacity' = [capacity EXCEPT ![s] = size]
  BY DEF SyncWriteIov, Writing
<1>2. s \in Sink /\ Head(call.iovs).len \in Nat /\ output[s] \in Seq(Byte) /\ capacity[s] \in Nat \ {0}
  BY <1>1, IovsType DEF IInv, InCall, Typed, Sinks, InputInv, Answered
<1>3. required \in Nat
  BY <1>2, LenProperties
<1> HIDE DEF required, s
<1>4. Grown(capacity[s], required) \in Nat \ {0} /\ required <= Grown(capacity[s], required)
  BY <1>2, <1>3, GrownEnough
<1>5. size \in Nat \ {0} /\ ~(required > size)
  BY <1>2, <1>3, <1>4
<1> HIDE DEF size
<1>6. capacity' \in [Sink -> Nat \ {0}] /\ capacity'[s] = size
  BY <1>1, <1>2, <1>5 DEF InputInv, Answered, Sinks
<1> QED
  BY <1>5, <1>6 DEF required, s, Sinks

(* The steps of fd_write.                                                   *)
LEMMA WriteStepsInput ==
  ASSUME IInv, InputInv, UNCHANGED start, WriteStep
  PROVE  InputInv'
<1>1. /\ UNCHANGED <<asyncify, buffer, offset, source, got, task>>
      /\ SyncWriteIov \/ capacity' = capacity
  BY DEF WriteStep, DevNullWrite, WriteReturn, WriteSkip, SkipIov, SyncWriteIov, AsyncWriteIov,
         AsyncWritten, stdin, stdout
<1>2. call.op = "write" /\ ~InRead /\ call # Threw /\ call # NoCall
  BY DEF WriteStep, DevNullWrite, WriteReturn, WriteSkip, SyncWriteIov, AsyncWriteIov,
         AsyncWritten, Writing, InWrite, InRead, NoCall, Threw
<1>3. call \in Underway /\ phase \in Before
  BY <1>2 DEF IInv, Typed, Calls, InCall, Before
<1>4. ~InRead'
  <2>1. call' \in {NoCall, Threw} \/ call'.op = call.op
    BY <1>3 DEF WriteStep, DevNullWrite, WriteReturn, WriteSkip, SkipIov, SyncWriteIov,
                AsyncWriteIov, AsyncWritten, Underway
  <2> QED
    BY <1>2, <2>1 DEF InRead, NoCall, Threw
<1>5. Delivered' /\ Left'
  BY <1>1, <1>2, <1>3, <1>4, NotReading
<1>6. Collected'
  BY <1>1, SameTasks DEF start
<1>7. capacity' \in Sinks(Nat \ {0})
  BY <1>1, CapacityGrows DEF InputInv, Answered
<1>8. Answered'
  BY <1>1, <1>7 DEF InputInv, Answered, start
<1> QED
  BY <1>5, <1>6, <1>8 DEF InputInv

(* preRun collects the input.                                               *)
LEMMA PreRunInput ==
  ASSUME IInv, InputInv, UNCHANGED start, PreRunRead \/ PreRunEnd
  PROVE  InputInv'
<1>1. /\ task[0] = "reading" /\ phase = "preRun" /\ phase \in Before /\ ~asyncify
      /\ UNCHANGED <<phase, asyncify, mem, call, source, got, capacity>>
  BY DEF PreRunRead, PreRunEnd, memory, stdin, stdout, start, InputInv, Collected, Before
<1>2. call = NoCall /\ ~InRead /\ call # Threw
  BY <1>1 DEF IInv, InCall, InRead, NoCall, Threw
<1>3. Answered'
  BY <1>1, SameAnswers
<1>4. task \in [Stream -> {"idle", "reading", "writing", "closing", "failed"}] /\ 0 \in Stream
  BY DEF IInv, Typed, Stream
<1>5. CASE PreRunEnd
  <2>1. UNCHANGED <<buffer, offset>>
    BY <1>5 DEF PreRunEnd, stdin
  <2>2. Delivered' /\ Left'
    BY <1>1, <2>1, SameCall
  <2>3. task'[0] = IF SourceDone THEN "idle" ELSE "failed"
    BY <1>4, <1>5 DEF PreRunEnd, Done, Failed
  <2>4. Collected'
    BY <1>1, <2>1, <2>3 DEF Collected, SourceDone
  <2> QED
    BY <1>3, <2>2, <2>4 DEF InputInv
<1>6. CASE PreRunRead
  <2>1. PICK n \in ChunkLen : offset' = offset + n /\ buffer' = buffer \o Chunk(n) /\ task' = task
    BY <1>6 DEF PreRunRead, Deliver
  <2>2. Chunk(n) \in Seq(Byte) /\ SubSeq(Input, 1, offset) \o Chunk(n) = SubSeq(Input, 1, offset + n)
    BY ChunkType, ChunkFollows DEF IInv, Typed
  <2>3. ~InRead' /\ Arrived = <<>> /\ Arrived' = <<>>
    BY <1>1, <1>2 DEF Arrived, InRead
  <2>4. got \in Seq(Byte) /\ buffer \in Seq(Byte) /\ buffer \o Chunk(n) \in Seq(Byte)
    BY <2>2, ConcatProperties DEF InputInv, Answered, IInv, Typed
  <2>5. <<>> \o buffer = buffer /\ <<>> \o (buffer \o Chunk(n)) = buffer \o Chunk(n)
    BY <2>4, ConcatEmptySeq
  <2>6. got \o buffer = SubSeq(Input, 1, offset)
    BY <1>1, <1>2, <2>3, <2>5 DEF InputInv, Delivered
  <2>7. (got \o buffer) \o Chunk(n) = got \o (buffer \o Chunk(n))
    BY <2>2, <2>4, Associative
  <2>8. Delivered'
    BY <1>1, <2>1, <2>2, <2>3, <2>5, <2>6, <2>7 DEF Delivered
  <2>9. Left'
    BY <2>3 DEF Left
  <2>10. Collected'
    BY <1>1, <2>1 DEF Collected
  <2> QED
    BY <1>3, <2>8, <2>9, <2>10 DEF InputInv
<1> QED
  BY <1>5, <1>6

(* The outputs' jobs and the host touch only the source.                    *)
LEMMA OutsideInput ==
  ASSUME IInv, InputInv, UNCHANGED start,
         HostStep \/ \E s \in Sink : PostRunWritten(s) \/ Closed(s)
  PROVE  InputInv'
<1>1. /\ UNCHANGED <<phase, asyncify, mem, call, buffer, offset, got, capacity>>
      /\ source' \in {source, "errored"}
  BY DEF HostStep, SourceFail, SinkAccept, SinkClose, SinkFail, PostRunWritten, Closed,
         memory, stdin, stdout, start
<1>2. task'[0] = task[0]
  <2>1. task' = task \/ \E s \in Sink, what \in {"failed", "idle", "closing"} :
                          task' = [task EXCEPT ![s] = what]
    BY DEF HostStep, SourceFail, SinkAccept, SinkClose, SinkFail, PostRunWritten, Closed, Done, Failed
  <2> QED
    BY <2>1, SinksAreStreams DEF IInv, Typed, Stream
<1>3. Delivered' /\ Left'
  BY <1>1, SameCall
<1>4. Collected'
  BY <1>1, <1>2, SameTasks
<1>5. Answered'
  BY <1>1 DEF InputInv, Answered, start
<1> QED
  BY <1>3, <1>4, <1>5 DEF InputInv

(* The finally block begins.                                                *)
LEMMA FinallyInput ==
  ASSUME IInv, InputInv, call' = NoCall, Finally(outcome'),
         outcome' \in {"return", "unreachable", "exit", "error"}
  PROVE  InputInv'
<1>1. /\ phase' = "close" /\ UNCHANGED <<result, source, got, capacity>>
      /\ task' = [s \in Stream |-> IF s \in Sink /\ asyncify THEN "closing" ELSE "idle"]
  BY DEF Finally, CloseAll, stdin
<1>2. ~InRead' /\ task'[0] # "reading"
  BY <1>1 DEF InRead, NoCall, Stream
<1>3. Delivered' /\ Left' /\ Collected'
  BY <1>1, <1>2 DEF Delivered, Left, Collected, Before
<1>4. Answered'
  BY <1>1 DEF InputInv, Answered
<1> QED
  BY <1>3, <1>4 DEF InputInv

(* The steps of start's promise.                                            *)
LEMMA StartInput ==
  ASSUME IInv, InputInv, Start \/ GuestEnds \/ Await
  PROVE  InputInv'
<1>1. CASE call' = NoCall /\ \E how \in {"return", "unreachable", "exit", "error"} : Finally(how)
  <2>1. Finally(outcome') /\ outcome' \in {"return", "unreachable", "exit", "error"}
    BY <1>1 DEF Finally
  <2> QED
    BY <1>1, <2>1, FinallyInput
<1>2. CASE /\ phase = "new" /\ phase' = "preRun" /\ task' = PreRunAll
           /\ UNCHANGED <<outcome, result, memory, stdin, stdout>>
  <2>1. UNCHANGED <<asyncify, buffer, offset, source, got, mem, call, capacity>>
    BY <1>2 DEF memory, stdin, stdout
  <2>2. Delivered' /\ Left'
    BY <1>2, <2>1, SameCall DEF Before
  <2>3. task'[0] = IF 0 \in Present /\ ~asyncify THEN "reading" ELSE "idle"
    BY <1>2 DEF PreRunAll, Stream
  <2>4. Collected'
    BY <1>2, <2>1, <2>3 DEF Collected
  <2>5. Answered'
    BY <1>2, <2>1 DEF InputInv, Answered
  <2> QED
    BY <2>2, <2>4, <2>5 DEF InputInv
<1>3. CASE /\ phase = "preRun" /\ AllDone /\ phase' = "guest"
           /\ UNCHANGED <<outcome, result, streams>>
  <2>1. UNCHANGED <<asyncify, buffer, offset, source, got, mem, call, capacity, task>>
    BY <1>3 DEF streams, memory, stdin, stdout
  <2>2. Delivered' /\ Left'
    BY <1>3, <2>1, SameCall DEF Before
  <2>3. task[0] = "idle"
    BY <1>3 DEF AllDone, Stream
  <2>4. Collected'
    BY <1>3, <2>1, <2>3 DEF InputInv, Collected
  <2>5. Answered'
    BY <1>3, <2>1 DEF InputInv, Answered
  <2> QED
    BY <2>2, <2>4, <2>5 DEF InputInv
<1>4. CASE /\ phase \in {"close", "postRun"}
           /\ Settle(Throws("stream")) \/ (phase = "postRun" /\ AllDone /\ Settle(Answer))
  <2>1. /\ UNCHANGED <<asyncify, buffer, offset, source, got, mem, call, capacity, task, outcome>>
        /\ phase' = "settled" /\ result' \in {Throws("stream"), Answer}
    BY <1>4 DEF Settle, streams, memory, stdin, stdout
  <2>2. Delivered' /\ Left'
    BY <2>1, SameCall DEF Before
  <2>3. Collected'
    BY <1>4, <2>1 DEF InputInv, Collected
  <2>4. Answered'
    BY <2>1 DEF InputInv, Answered, Answer, Returns, Throws
  <2> QED
    BY <2>2, <2>3, <2>4 DEF InputInv
<1>5. CASE /\ phase = "close" /\ phase' = "postRun" /\ PostRunAll
           /\ UNCHANGED <<outcome, result, memory, stdin, output, capacity, sink, received, sent, told>>
  <2>1. UNCHANGED <<asyncify, buffer, offset, source, got, mem, call, capacity>>
    BY <1>5 DEF memory, stdin
  <2>2. Delivered' /\ Left'
    BY <1>5, <2>1, SameCall DEF Before
  <2>3. task'[0] # "reading"
    BY <1>5 DEF PostRunAll, Stream
  <2>4. Collected'
    BY <1>5, <2>3 DEF Collected
  <2>5. Answered'
    BY <1>5, <2>1 DEF InputInv, Answered
  <2> QED
    BY <2>2, <2>4, <2>5 DEF InputInv
<1> QED
  <2>1. CASE Start
    BY <1>1, <1>2, <2>1 DEF Start, IInv, InCall
  <2>2. CASE GuestEnds
    BY <1>1, <2>2 DEF GuestEnds
  <2>3. CASE PreRunSettled
    BY <1>1, <1>3, <2>3 DEF PreRunSettled, IInv, InCall
  <2>4. CASE CloseSettled
    BY <1>4, <1>5, <2>4 DEF CloseSettled
  <2>5. CASE PostRunSettled
    BY <1>4, <2>5 DEF PostRunSettled
  <2> QED
    BY <2>1, <2>2, <2>3, <2>4, <2>5 DEF Await

-----------------------------------------------------------------------------
(* The invariant, and what it implies.                                      *)

(* Nothing has been delivered, and no call has begun.                       *)
LEMMA InputInvInit == Init => InputInv
<1> SUFFICES ASSUME Init PROVE InputInv
  OBVIOUS
<1>1. PICK byte \in Byte : StreamsInit(byte)
  BY DEF Init
<1>2. /\ phase = "new" /\ outcome = "none" /\ result = Unsettled /\ call = NoCall
      /\ task = [s \in Stream |-> "idle"] /\ buffer = <<>> /\ offset = 0 /\ source = "open"
      /\ got = <<>> /\ capacity = [s \in Sink |-> BufferSize]
  BY <1>1 DEF Init, StreamsInit
<1>3. Answered
  BY <1>2, StreamsAssumption, EmptySeq DEF Answered, Sinks, Unsettled
<1>4. ~InRead /\ Arrived = <<>>
  BY <1>2 DEF Arrived, InRead, NoCall
<1>5. SubSeq(Input, 1, 0) = <<>> /\ <<>> \o (<<>> \o <<>>) = <<>>
  BY StreamsAssumption, SubSeqEmpty, EmptySeq, ConcatEmptySeq
<1>6. Delivered
  BY <1>2, <1>4, <1>5 DEF Delivered
<1>7. Left /\ Collected
  BY <1>2, <1>4 DEF Left, Collected, Stream
<1> QED
  BY <1>3, <1>6, <1>7 DEF InputInv

(* Every step preserves it.                                                 *)
LEMMA InputInvStep == IInv /\ InputInv /\ [Next]_vars => InputInv'
<1> SUFFICES ASSUME IInv, InputInv, [Next]_vars PROVE InputInv'
  OBVIOUS
<1>1. CASE Start
  BY <1>1, StartInput
<1>2. CASE Guest
  BY <1>2, GuestInput, StartInput DEF Guest
<1>3. CASE Import
  BY <1>3, ReadStepsInput, WriteStepsInput DEF Import
<1>4. CASE Task
  BY <1>4, PreRunInput, OutsideInput DEF Task, TaskStep
<1>5. CASE Host
  BY <1>5, OutsideInput DEF Host
<1>6. CASE Await
  BY <1>6, StartInput
<1>7. CASE UNCHANGED vars
  <2>1. UNCHANGED <<start, phase, asyncify, mem, call, buffer, offset, source, got, capacity, task>>
    BY <1>7 DEF vars, start, streams, memory, stdin, stdout
  <2>2. Delivered' /\ Left'
    BY <2>1, SameCall
  <2>3. got' \in Seq(Byte)
    BY <2>1 DEF InputInv, Answered
  <2> QED
    BY <2>1, <2>2, <2>3, GuestAnswers
<1> QED
  BY <1>1, <1>2, <1>3, <1>4, <1>5, <1>6, <1>7 DEF Next

(* The bytes of the source are where InputInv says, in order, and what a    *)
(* call of fd_read has left to fill follows what it has counted.            *)
THEOREM InputInvariance == Spec => [](IInv /\ InputInv)
<1>1. Init => IInv /\ InputInv
  BY IInvInit, InputInvInit
<1>2. IInv /\ InputInv /\ [Next]_vars => IInv' /\ InputInv'
  BY IInvStep, InputInvStep
<1> QED
  BY <1>1, <1>2, PTL DEF Spec

(* The types of IInv and those of Answered are all.                         *)
LEMMA InvTypes == IInv /\ InputInv => TypeOK
<1> SUFFICES ASSUME IInv, InputInv PROVE TypeOK
  OBVIOUS
<1>1. \A S, T : S \subseteq T => Seq(S) \subseteq Seq(T)
  OBVIOUS
<1>2. Window \subseteq [buf : Int, len : Nat] /\ Piece \subseteq Cell /\ Copies \subseteq Cell
  BY DEF Window, Piece, Copies
<1>3. /\ Seq(Window) \subseteq Seq([buf : Int, len : Nat])
      /\ Seq(Piece) \subseteq Seq(Cell) /\ Seq(Copies) \subseteq Seq(Cell)
  BY <1>1, <1>2
<1>4. call \in {NoCall, Threw} \cup
        [op : {"read", "write"}, fd : Stream, vec : Seq(Iov),
         iovs : Seq([buf : Int, len : Nat]), count : Nat, waiting : BOOLEAN]
  BY <1>3 DEF IInv, Typed, Calls, Underway
<1>5. queue \in Sinks(Seq(Seq(Cell)))
  <2>1. \A chunk \in Seq(Piece) : <<chunk>> \in Seq(Seq(Cell))
    BY <1>3
  <2>2. <<>> \in Seq(Seq(Cell))
    OBVIOUS
  <2>3. {<<>>} \cup {<<chunk>> : chunk \in Seq(Piece)} \subseteq Seq(Seq(Cell))
    BY <2>1, <2>2
  <2> QED
    BY <2>3 DEF IInv, Typed, Sinks
<1>6. received \in Sinks(Seq(Cell))
  BY <1>3 DEF IInv, Typed, Sinks
<1> QED
  BY <1>4, <1>5, <1>6 DEF TypeOK, IInv, Typed, InputInv, Answered, Before, After

(* Between calls nothing has arrived that the guest has not found.          *)
LEMMA InvReads == IInv /\ InputInv => ReadsInOrder
<1> SUFFICES ASSUME IInv, InputInv, phase = "guest", call = NoCall
             PROVE  got \o buffer = SubSeq(Input, 1, offset)
  BY DEF ReadsInOrder
<1>1. Arrived = <<>> /\ call # Threw /\ phase \in Before
  BY DEF Arrived, InRead, NoCall, Threw, Before
<1>2. <<>> \o buffer = buffer
  BY ConcatEmptySeq DEF IInv, Typed
<1> QED
  BY <1>1, <1>2 DEF InputInv, Delivered

(* What a call that has counted nothing has left are all its places.        *)
LEMMA CountedNothing ==
  ASSUME IInv, InputInv, InRead, call.count = 0, asyncify \/ buffer # <<>>
  PROVE  Places(call.iovs) = Places(call.vec)
<1> DEFINE P == Places(call.vec)
<1>1. P \in Seq(Address)
  BY ReadingType, PlacesType
<1>2. Places(call.iovs) = Beyond(P, 0)
  BY DEF InputInv, Left
<1> HIDE DEF P
<1>3. Beyond(P, 0) = P
  BY <1>1, SubSeqFull DEF Beyond
<1> QED
  BY <1>2, <1>3 DEF P

(* A read that answers 0.                                                   *)
LEMMA StepZero ==
  ASSUME IInv, InputInv, [Next]_vars, InRead, call' = NoCall, call.count = 0
  PROVE  \/ buffer = <<>> /\ offset = Len(Input)
         \/ \A i \in DOMAIN call.vec : call.vec[i].len = 0
         \/ ~asyncify /\ call.vec[1].len = 0
<1>1. /\ call # NoCall /\ call # Threw /\ call.op = "read" /\ phase = "guest" /\ call \in Underway
      /\ call.vec \in Seq(Window) /\ 0 \in Present
  BY ReadingType
<1>2. SyncReadIov \/ AsyncReadIov
  <2>1. ~Start /\ ~Await /\ ~GuestStores /\ ~GuestCalls /\ ~GuestEnds
    BY <1>1 DEF Start, Await, PreRunSettled, CloseSettled, PostRunSettled, GuestStores, GuestCalls,
                fd_read, fd_write, GuestEnds
  <2>2. ~WriteStep /\ ~DevNullRead
    BY <1>1 DEF WriteStep, DevNullWrite, WriteReturn, WriteSkip, SyncWriteIov, AsyncWriteIov,
                AsyncWritten, Writing, InWrite, InRead, DevNullRead
  <2>3. TaskStep \/ HostStep \/ UNCHANGED vars => call' = call
    BY DEF TaskStep, PreRunRead, PreRunEnd, PostRunWritten, Closed, HostStep, SourceFail,
           SinkAccept, SinkClose, SinkFail, memory, vars, streams
  <2> QED
    BY <1>1, <2>1, <2>2, <2>3 DEF Next, Guest, Import, Task, Host, ReadStep
<1>3. CASE call.iovs = <<>> /\ (asyncify \/ buffer # <<>>)
  <2>1. Places(call.vec) = <<>>
    BY <1>3, CountedNothing, PlacesEmpty
  <2> QED
    BY <1>1, <2>1, PlacesNone
<1>4. CASE SyncReadIov
  <2>1. ~asyncify /\ (offset = Len(Input) \/ buffer # <<>>)
    BY <1>1, <1>4 DEF SyncReadIov, InputInv, Collected
  <2>2. CASE buffer = <<>>
    BY <2>1, <2>2
  <2>3. CASE buffer # <<>> /\ call.iovs # <<>>
    <3>1. call.iovs = call.vec
      BY <2>1, <2>3 DEF InputInv, Left
    <3>2. Head(call.iovs).len = 0
      <4>1. CopyTo(Smaller(Head(call.iovs).len, Len(buffer)), Tail(call.iovs)) => call'.op = "read"
        BY <1>1 DEF CopyTo, Underway
      <4> QED
        BY <1>4, <2>3, <4>1 DEF SyncReadIov, NoCall
    <3> QED
      BY <1>1, <2>1, <2>3, <3>1, <3>2, HeadTailProperties
  <2> QED
    BY <1>3, <2>1, <2>2, <2>3
<1>5. CASE AsyncReadIov /\ call.iovs # <<>>
  <2>1. asyncify
    BY <1>5 DEF AsyncReadIov
  <2>2. ~SkipIov /\ ~AsyncCopy
    BY <1>1 DEF SkipIov, AsyncCopy, CopyTo, Underway, NoCall
  <2>3. buffer = <<>> /\ SourceDone
    BY <1>1, <1>5, <2>2 DEF AsyncReadIov, AsyncPull, memory, NoCall, Threw
  <2> QED
    BY <2>3 DEF SourceDone
<1> QED
  BY <1>2, <1>3, <1>4, <1>5 DEF AsyncReadIov

(* A write of the synchronous adapter.                                      *)
LEMMA StepWrites ==
  ASSUME IInv, InputInv, [Next]_vars, InWrite, ~asyncify
  PROVE  call' # Threw
<1>1. /\ call.op = "write" /\ call \in Underway /\ call # NoCall /\ call # Threw /\ phase = "guest"
      /\ call.waiting = FALSE
  BY CallType DEF InWrite, IInv, InCall, Underway, NoCall, Threw
<1>2. WriteStep \/ call' = call
  <2>1. ~Start /\ ~Await /\ ~GuestStores /\ ~GuestCalls /\ ~GuestEnds
    BY <1>1 DEF Start, Await, PreRunSettled, CloseSettled, PostRunSettled, GuestStores, GuestCalls,
                fd_read, fd_write, GuestEnds
  <2>2. ~ReadStep
    BY <1>1 DEF ReadStep, DevNullRead, SyncReadIov, AsyncReadIov, InRead
  <2>3. TaskStep \/ HostStep \/ UNCHANGED vars => call' = call
    BY DEF TaskStep, PreRunRead, PreRunEnd, PostRunWritten, Closed, HostStep, SourceFail,
           SinkAccept, SinkClose, SinkFail, memory, vars, streams
  <2> QED
    BY <2>1, <2>2, <2>3 DEF Next, Guest, Import, Task, Host
<1>3. CASE SyncWriteIov
  <2>1. ~(Len(output[call.fd]) + Head(call.iovs).len > capacity'[call.fd])
    BY <1>3, CapacityGrows
  <2>2. capacity[call.fd] \in Nat /\ call.fd \in Sink /\ capacity \in [Sink -> Nat \ {0}]
    BY <1>1 DEF InputInv, Answered, IInv, InCall, Sinks
  <2>3. call' = [call EXCEPT !.iovs = Tail(@), !.count = Counted(Head(call.iovs).len)]
    BY <1>3, <2>1, <2>2 DEF SyncWriteIov
  <2> QED
    BY <1>1, <2>3 DEF Underway, Threw
<1>4. CASE call' = call \/ call' = NoCall
  BY <1>1, <1>4 DEF NoCall, Threw
<1>5. CASE WriteSkip
  BY <1>1, <1>5 DEF WriteSkip, SkipIov, Underway, Threw
<1> QED
  BY <1>1, <1>2, <1>3, <1>4, <1>5
     DEF WriteStep, DevNullWrite, WriteReturn, AsyncWriteIov, AsyncWritten

(* Every variable of a run of start has its type, for all inputs, vectors,  *)
(* options and sizes (start in src/index.ts, src/streams.ts).               *)
THEOREM ThmTypeOK == Spec => []TypeOK
BY InputInvariance, InvTypes, PTL

(* Between calls of fd_read, what the guest has found and what is pending   *)
(* in the adapter are the bytes of the source in order, none lost or        *)
(* repeated (preRun and readv of both adapters in src/streams.ts).          *)
THEOREM ThmReadsInOrder == Spec => []ReadsInOrder
BY InputInvariance, InvReads, PTL

(* When fd_read answers 0 the source has ended and nothing is pending,      *)
(* unless no bytes were asked for, or, without streamStdio, none by the     *)
(* first buffer (readv of both adapters in src/streams.ts).                 *)
THEOREM ThmZeroMeansEnd == Spec => ZeroMeansEnd
<1>1. IInv /\ InputInv /\ [Next]_vars =>
        [InRead /\ call' = NoCall /\ call.count = 0 =>
           \/ buffer = <<>> /\ offset = Len(Input)
           \/ \A i \in DOMAIN call.vec : call.vec[i].len = 0
           \/ ~asyncify /\ call.vec[1].len = 0]_vars
  BY StepZero
<1> QED
  BY <1>1, InputInvariance, PTL DEF Spec, ZeroMeansEnd

(* Whatever the guest writes, the buffer of the synchronous adapter grows   *)
(* enough: writev never throws (growing in writev of                        *)
(* SyncWritableStreamAdapter, src/streams.ts).                              *)
THEOREM ThmSyncWritesSucceed == Spec => SyncWritesSucceed
<1>1. IInv /\ InputInv /\ [Next]_vars => [InWrite /\ ~asyncify => call' # Threw]_vars
  BY StepWrites
<1> QED
  BY <1>1, InputInvariance, PTL DEF Spec, SyncWritesSucceed

-----------------------------------------------------------------------------
(* The loops over the buffers of a call.                                    *)

(* The bytes wanted are as many as the places.                              *)
LEMMA WantedIs ==
  ASSUME NEW iovs \in Seq(Window)
  PROVE  Wanted(iovs) = Len(Places(iovs)) /\ Wanted(iovs) \in Nat
<1> DEFINE here == [a \in Address |-> [at |-> a, val |-> 0]]
           all == AllAddresses(iovs)
<1>1. Len(iovs) \in Nat /\ DOMAIN iovs = 1 .. Len(iovs) /\ \A i \in 1 .. Len(iovs) : iovs[i] \in Window
  BY LenProperties, ElementOfSeq
<1>2. ASSUME NEW iov \in Window PROVE View(iov) = Mapped(here, Addresses(iov))
  <2>1. /\ Len(Addresses(iov)) = iov.len /\ iov.len \in Nat
        /\ \A i \in 1 .. iov.len : Addresses(iov)[i] = iov.buf + i - 1
    BY AddressesType
  <2>2. \A i \in 1 .. iov.len : Addresses(iov)[i] \in Address
    BY <2>1, AddressesType, ElementOfSeq
  <2>3. \A i \in 1 .. iov.len : here[Addresses(iov)[i]] = [at |-> iov.buf + i - 1, val |-> 0]
    BY <2>1, <2>2
  <2> HIDE DEF here
  <2> QED
    BY <2>1, <2>3 DEF View, Mapped
<1> HIDE DEF here
<1>3. all \in Seq(Seq(Address)) /\ Len(all) = Len(iovs)
  BY PlacesType
<1>4. [i \in DOMAIN iovs |-> View(iovs[i])] = AllMapped(here, all)
  <2>1. \A i \in 1 .. Len(iovs) : View(iovs[i]) = Mapped(here, all[i])
    BY <1>1, <1>2 DEF AllAddresses
  <2> HIDE DEF all
  <2> QED
    BY <1>1, <1>3, <2>1 DEF AllMapped
<1>5. FlattenSeq(AllMapped(here, all)) = Mapped(here, Places(iovs))
  <2>1. FlattenSeq(AllMapped(here, all)) = Mapped(here, FlattenSeq(all))
    <3> HIDE DEF all
    <3> QED
      BY <1>3, FlattenMapped
  <2> QED
    BY <2>1 DEF Places
<1>6. Len(Places(iovs)) \in Nat
  BY PlacesType
<1>7. Len(Mapped(here, Places(iovs))) = Len(Places(iovs))
  BY <1>6 DEF Mapped
<1> QED
  BY <1>4, <1>5, <1>6, <1>7 DEF Wanted

(* The first buffer's bytes, and those of the others.                       *)
LEMMA WantedCons ==
  ASSUME NEW iovs \in Seq(Window), iovs # <<>>
  PROVE  /\ Wanted(iovs) = Head(iovs).len + Wanted(Tail(iovs))
         /\ Len(iovs) = Len(Tail(iovs)) + 1 /\ Len(Tail(iovs)) \in Nat
<1>1. /\ Head(iovs) \in Window /\ Tail(iovs) \in Seq(Window)
      /\ Places(iovs) = Addresses(Head(iovs)) \o Places(Tail(iovs))
  BY PlacesCons
<1>2. /\ Addresses(Head(iovs)) \in Seq(Address) /\ Len(Addresses(Head(iovs))) = Head(iovs).len
      /\ Places(Tail(iovs)) \in Seq(Address)
  BY <1>1, AddressesType, PlacesType
<1>3. Len(Places(iovs)) = Head(iovs).len + Len(Places(Tail(iovs)))
  BY <1>1, <1>2, ConcatProperties
<1>4. Len(Tail(iovs)) = Len(iovs) - 1 /\ Len(iovs) \in Nat /\ Len(Tail(iovs)) \in Nat
  BY <1>1, HeadTailProperties, LenProperties
<1>5. Wanted(iovs) = Len(Places(iovs))
  BY WantedIs
<1>6. Wanted(Tail(iovs)) = Len(Places(Tail(iovs)))
  BY <1>1, WantedIs
<1> QED
  BY <1>3, <1>4, <1>5, <1>6

(* Either way of going on after a copy is nearer to the end.                *)
LEMMA Less ==
  ASSUME NEW len \in Nat, NEW bytes \in Nat, bytes >= 1, bytes <= len,
         NEW n \in Nat, NEW wanted \in Nat, NEW pull \in {0, 1}
  PROVE  /\ 2 * n + (2 * wanted + pull) < 2 * (n + 1) + 2 * (len + wanted)
         /\ 2 * (n + 1) + (2 * ((len - bytes) + wanted) + pull) < 2 * (n + 1) + 2 * (len + wanted)
OBVIOUS

(* Copying uses up a buffer, or a part of one.                              *)
LEMMA CopyAdvances ==
  ASSUME IInv, InputInv, InRead, call.iovs # <<>>, Head(call.iovs).len # 0, buffer # <<>>,
         \/ AsyncCopy
         \/ CopyTo(Smaller(Head(call.iovs).len, Len(buffer)), Tail(call.iovs))
  PROVE  Ahead' < Ahead
<1> DEFINE iov == Head(call.iovs)
           bytes == Smaller(iov.len, Len(buffer))
           tail == Tail(call.iovs)
           rest == <<Rest(iov, bytes)>> \o tail
<1>1. call \in Underway /\ call.op = "read" /\ call.iovs \in Seq(Window)
  BY ReadingType
<1>2. iov \in Window /\ iov.len \in Nat /\ iov.buf \in Int /\ tail \in Seq(Window)
  BY <1>1, IovsType DEF IInv
<1>3. Len(buffer) \in Nat \ {0}
  BY EmptySeq, LenProperties DEF IInv, Typed
<1>4. bytes \in Nat /\ bytes >= 1 /\ bytes <= iov.len
  BY <1>2, <1>3 DEF Smaller
<1>5. Wanted(call.iovs) = iov.len + Wanted(tail) /\ Len(call.iovs) = Len(tail) + 1
      /\ Len(tail) \in Nat /\ Wanted(tail) \in Nat
  BY <1>1, <1>2, WantedCons, WantedIs
<1>6. call'.op = "read" /\ (call'.iovs = tail \/ (call'.iovs = rest /\ bytes # iov.len))
  BY <1>1 DEF AsyncCopy, CopyTo, Underway
<1>7. Ahead = 2 * Len(call.iovs) + 2 * Wanted(call.iovs)
  BY <1>1, <1>5, <1>2 DEF Ahead
<1> DEFINE pull == IF buffer' = <<>> THEN 1 ELSE 0
<1>8. Ahead' = 2 * Len(call'.iovs) + (2 * Wanted(call'.iovs) + pull)
  <2>1. Wanted(call.iovs)' = Wanted(call'.iovs)
    BY DEF Wanted, View
  <2> QED
    BY <1>6, <2>1 DEF Ahead
<1>9. pull \in {0, 1}
  OBVIOUS
<1>10. CASE call'.iovs = tail
  <2>1. Len(call'.iovs) = Len(tail) /\ Wanted(call'.iovs) = Wanted(tail)
    BY <1>10
  <2> QED
    BY <1>2, <1>4, <1>5, <1>7, <1>8, <1>9, <2>1, Less
<1>11. CASE call'.iovs = rest /\ bytes # iov.len
  <2>1. Rest(iov, bytes) \in Window
    BY <1>2, <1>4, RestType
  <2>2. Rest(iov, bytes).len = iov.len - bytes
    BY DEF Rest
  <2>3. rest \in Seq(Window) /\ rest # <<>> /\ Head(rest) = Rest(iov, bytes) /\ Tail(rest) = tail
    BY <1>2, <2>1
  <2> HIDE DEF rest
  <2>4. Wanted(rest) = (iov.len - bytes) + Wanted(tail) /\ Len(rest) = Len(tail) + 1
    BY <2>2, <2>3, WantedCons
  <2>5. Len(call'.iovs) = Len(tail) + 1 /\ Wanted(call'.iovs) = (iov.len - bytes) + Wanted(tail)
    BY <1>11, <2>4
  <2> QED
    BY <1>2, <1>4, <1>5, <1>7, <1>8, <1>9, <2>5, Less
<1> QED
  BY <1>6, <1>10, <1>11

(* A buffer is skipped, or written.                                         *)
LEMMA TailAdvances ==
  ASSUME IInv, InputInv, InRead \/ InWrite, call.iovs # <<>>, buffer' = buffer,
         call'.op = call.op, call'.iovs = Tail(call.iovs), ~call'.waiting
  PROVE  Ahead' < Ahead
<1>1. call \in Underway /\ call.iovs \in Seq(Window)
  BY CallType DEF IInv, Underway
<1>2. /\ Len(call.iovs) = Len(call'.iovs) + 1 /\ Len(call'.iovs) \in Nat
      /\ Wanted(call.iovs) = Head(call.iovs).len + Wanted(call'.iovs)
      /\ Head(call.iovs).len \in Nat /\ Wanted(call'.iovs) \in Nat
  BY <1>1, WantedCons, WantedIs, IovsType DEF IInv
<1>3. Wanted(call.iovs)' = Wanted(call'.iovs)
  BY DEF Wanted, View
<1>4. call.op \in {"read", "write"}
  BY <1>1 DEF Underway
<1>5. CASE call.op = "read"
  BY <1>2, <1>3, <1>5 DEF Ahead
<1>6. CASE call.op = "write"
  <2>1. Ahead' = 2 * Len(call'.iovs) + 1
    BY <1>6 DEF Ahead
  <2>2. Ahead = 2 * Len(call.iovs) + (IF call.waiting THEN 0 ELSE 1)
    BY <1>6 DEF Ahead
  <2>3. ASSUME NEW n \in Nat, NEW pending \in {0, 1} PROVE 2 * n + 1 < 2 * (n + 1) + pending
    OBVIOUS
  <2>4. (IF call.waiting THEN 0 ELSE 1) \in {0, 1}
    OBVIOUS
  <2> QED
    BY <1>2, <2>1, <2>2, <2>3, <2>4
<1> QED
  BY <1>4, <1>5, <1>6

(* A chunk is pulled, or a write begun.                                     *)
LEMMA SameAdvances ==
  ASSUME IInv, InputInv, InRead \/ InWrite, call'.op = call.op, call'.iovs = call.iovs,
         \/ InRead /\ buffer = <<>> /\ buffer' # <<>>
         \/ InWrite /\ ~call.waiting /\ call'.waiting
  PROVE  Ahead' < Ahead
<1>1. call \in Underway /\ call.iovs \in Seq(Window)
  BY CallType DEF IInv, Underway
<1>2. Len(call.iovs) \in Nat /\ Wanted(call.iovs) \in Nat
  BY <1>1, WantedIs, LenProperties
<1>3. Wanted(call.iovs)' = Wanted(call.iovs)
  BY DEF Wanted, View
<1> QED
  BY <1>2, <1>3 DEF Ahead, InRead, InWrite

(* Every step of a call that goes on is one of these.                       *)
LEMMA StepAdvances ==
  ASSUME IInv, InputInv, [Next]_vars, InRead \/ InWrite, (InRead \/ InWrite)'
  PROVE  Ahead' < Ahead \/ UNCHANGED <<call, buffer>>
<1>1. /\ call \in Underway /\ call # NoCall /\ call # Threw /\ phase = "guest"
      /\ call'.op \in {"read", "write"}
  <2>1. call \in Underway
    BY CallType DEF IInv
  <2>2. call # NoCall /\ call # Threw
    BY <2>1 DEF Underway, NoCall, Threw
  <2> QED
    BY <2>1, <2>2 DEF IInv, InCall, InRead, InWrite
<1>2. call' # NoCall /\ call' # Threw
  BY <1>1 DEF NoCall, Threw
<1>3. CASE TaskStep \/ HostStep \/ UNCHANGED vars
  <2>1. ~PreRunRead
    BY <1>1 DEF PreRunRead, InputInv, Collected
  <2> QED
    BY <1>3, <2>1 DEF TaskStep, PreRunEnd, PostRunWritten, Closed, HostStep, SourceFail,
                      SinkAccept, SinkClose, SinkFail, memory, stdin, vars, streams
<1>4. CASE ReadStep
  <2>1. InRead
    BY <1>2, <1>4 DEF ReadStep, DevNullRead, SyncReadIov, AsyncReadIov
  <2>2. ~ReadReturn
    BY <1>2 DEF ReadReturn
  <2>3. CASE SyncReadIov
    BY <2>1, <2>2, <2>3, CopyAdvances DEF SyncReadIov
  <2>4. CASE AsyncReadIov
    <3>1. call.iovs # <<>>
      BY <2>2, <2>4 DEF AsyncReadIov
    <3>2. CASE Head(call.iovs).len = 0
      <4>1. SkipIov
        BY <2>4, <3>1, <3>2 DEF AsyncReadIov
      <4>2. /\ buffer' = buffer /\ call'.op = call.op /\ call'.iovs = Tail(call.iovs)
            /\ call'.waiting = call.waiting
        BY <1>1, <4>1 DEF SkipIov, stdin, Underway
      <4>3. ~call.waiting
        BY <2>1 DEF IInv, InCall, InRead, InWrite
      <4> QED
        BY <2>1, <3>1, <4>2, <4>3, TailAdvances
    <3>3. CASE Head(call.iovs).len # 0 /\ buffer = <<>>
      <4>1. AsyncPull
        BY <2>4, <3>1, <3>3 DEF AsyncReadIov
      <4>2. PICK n \in ChunkLen : buffer' = Chunk(n) /\ call' = call
        BY <1>2, <2>2, <4>1 DEF AsyncPull, Deliver, memory
      <4>3. Chunk(n) # <<>>
        <5>1. /\ n \in Nat \ {0} /\ offset + 1 \in Nat \ {0} /\ offset + n \in 1 .. Len(Input)
              /\ Input \in Seq(Byte)
          BY StreamsAssumption, LenProperties DEF ChunkLen, IInv, Typed
        <5>2. Len(Chunk(n)) = n
          BY <5>1, LenProperties DEF Chunk, IInv, Typed
        <5> QED
          BY <5>1, <5>2
      <4> QED
        BY <2>1, <3>3, <4>2, <4>3, SameAdvances
    <3>4. CASE Head(call.iovs).len # 0 /\ buffer # <<>>
      BY <2>1, <2>4, <3>1, <3>4, CopyAdvances DEF AsyncReadIov
    <3> QED
      BY <3>2, <3>3, <3>4
  <2> QED
    BY <1>2, <1>4, <2>3, <2>4 DEF ReadStep, DevNullRead
<1>5. CASE WriteStep
  <2>1. InWrite /\ buffer' = buffer /\ ~DevNullWrite /\ ~WriteReturn
    BY <1>2, <1>5 DEF WriteStep, DevNullWrite, WriteReturn, WriteSkip, SkipIov, SyncWriteIov,
                      AsyncWriteIov, AsyncWritten, Writing, stdin
  <2>2. call.waiting => asyncify /\ call.iovs # <<>> /\ Head(call.iovs).len > 0
    BY <2>1 DEF IInv, InCall
  <2>3. CASE AsyncWriteIov
    <3>1. call'.op = call.op /\ call'.iovs = call.iovs /\ call'.waiting /\ ~call.waiting
      BY <1>1, <2>3 DEF AsyncWriteIov, Underway
    <3> QED
      BY <2>1, <3>1, SameAdvances
  <2>4. CASE WriteSkip \/ SyncWriteIov \/ AsyncWritten
    <3>1. call.iovs # <<>>
      BY <2>2, <2>4 DEF WriteSkip, SyncWriteIov, Writing, AsyncWritten
    <3>2. Head(call.iovs).len \in Nat
      BY <2>1, <3>1, IovsType DEF IInv
    <3>3. call'.op = call.op /\ call'.iovs = Tail(call.iovs) /\ call'.waiting \in {FALSE, call.waiting}
      BY <1>1, <1>2, <2>4 DEF WriteSkip, SkipIov, SyncWriteIov, AsyncWritten, Underway
    <3>4. ~call'.waiting
      <4>1. CASE WriteSkip \/ SyncWriteIov
        <5>1. Head(call.iovs).len = 0 \/ ~asyncify
          BY <4>1 DEF WriteSkip, SyncWriteIov
        <5>2. ~call.waiting
          BY <2>2, <3>2, <5>1
        <5> QED
          BY <3>3, <5>2
      <4>2. CASE AsyncWritten
        BY <1>1, <1>2, <4>2 DEF AsyncWritten, Underway
      <4> QED
        BY <2>4, <4>1, <4>2
    <3> QED
      BY <2>1, <3>1, <3>3, <3>4, TailAdvances
  <2> QED
    BY <1>5, <2>1, <2>3, <2>4 DEF WriteStep
<1>6. ~Start /\ ~Await /\ ~Guest
  BY <1>1, <1>2 DEF Start, Await, PreRunSettled, CloseSettled, PostRunSettled, Guest, GuestStores,
                    GuestCalls, fd_read, fd_write, GuestEnds
<1> QED
  BY <1>3, <1>4, <1>5, <1>6 DEF Next, Import, Task, Host

(* Every iteration of the loop over the buffers of a call brings it nearer  *)
(* to its end, whatever the vector and the chunks (readv and writev of the  *)
(* adapters in src/streams.ts): with the fairness of the runs, the part of  *)
(* CallsEnd that depends on the code.                                       *)
THEOREM ThmCallsAdvance == Spec => CallsAdvance
<1>1. IInv /\ InputInv /\ [Next]_vars =>
        [(InRead \/ InWrite) /\ (InRead \/ InWrite)' =>
           Ahead' < Ahead \/ UNCHANGED <<call, buffer>>]_vars
  BY StepAdvances
<1> QED
  BY <1>1, InputInvariance, PTL DEF Spec, CallsAdvance
=============================================================================
