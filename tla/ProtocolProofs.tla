--------------------------- MODULE ProtocolProofs ---------------------------
(***************************************************************************)
(* What holds of the packets that are built and taken apart, for payloads, *)
(* answers and buffers of every size, and of their checksums, for words of *)
(* every width.                                                            *)
(*                                                                         *)
(* The walk over the options of a DHCP answer: until it has read option    *)
(* 53, the bytes that are left are those of the last options of the        *)
(* answer, so the walk is always at the start of an option.                *)
(*                                                                         *)
(* The builders: when a builder is called, the layers outside it are laid  *)
(* out, and nothing is written behind them; it writes its own fields,      *)
(* which lie side by side, behind what is written.                         *)
(*                                                                         *)
(* The checksum: the accumulator and the one's complement sum differ by a  *)
(* multiple of M - 1, as each carry added back takes M - 1 away.  Folding  *)
(* the accumulator takes overflows * (M - 1) away.  Both results are in    *)
(* 0..M-1, so they can only differ as 0 and M - 1 do, and both are 0 only  *)
(* for no bit set.                                                         *)
(***************************************************************************)
EXTENDS Packets, Checksum, TLAPS, SequenceTheorems, WellFoundedInduction

-----------------------------------------------------------------------------
(* Counting up.                                                            *)

\* A set of numbers that is not empty has a least element.
LEMMA LeastElement ==
  ASSUME NEW T, T \subseteq Nat, T # {}
  PROVE  \E x \in T : \A y \in T : x <= y
<1> DEFINE R == {ss \in Nat \X Nat : ss[1] < ss[2]}
<1>0. OpToRel(<, Nat) = R
  BY Zenon DEF OpToRel
<1>2. IsWellFoundedOn(R, Nat)
  BY <1>0, NatLessThanWellFounded, Zenon
<1>1. \E x \in T : \A y \in T : ~(<<y, x>> \in R)
  <2> HIDE DEF R
  <2> QED BY <1>2, WFMin, Zenon
<1>3. ASSUME NEW x \in Nat, NEW y \in Nat, ~(<<y, x>> \in R) PROVE x <= y
  <2>1. <<y, x>> \in Nat \X Nat /\ <<y, x>>[1] = y /\ <<y, x>>[2] = x
    OBVIOUS
  <2>2. ~(y < x)
    BY <1>3, <2>1
  <2> QED BY <2>2
<1> HIDE DEF R
<1>4. PICK x \in T : \A y \in T : ~(<<y, x>> \in R)
  BY <1>1, Zenon
<1>5. ASSUME NEW y \in T PROVE x <= y
  <2>1. x \in Nat /\ y \in Nat
    BY Zenon
  <2> QED BY <1>3, <1>4, <2>1, Zenon
<1> QED BY <1>5, Zenon

\* What holds of 0, and of a number after it holds of the one before, holds of
\* every number up to the last.
LEMMA UpTo ==
  ASSUME NEW m \in Nat, NEW T, 0 \in T,
         \A i \in 0..m-1 : i \in T => i + 1 \in T
  PROVE  0..m \subseteq T
<1> SUFFICES ASSUME ~(0..m \subseteq T) PROVE FALSE
  OBVIOUS
<1> DEFINE U == {i \in 0..m : i \notin T}
<1>1. U \subseteq Nat /\ U # {}
  OBVIOUS
<1>2. PICK x \in U : \A y \in U : x <= y
  <2> HIDE DEF U
  <2> QED BY <1>1, LeastElement, Zenon
<1>3. x \in 1..m /\ x \notin T
  OBVIOUS
<1>4. x - 1 \in 0..m-1 /\ (x - 1) + 1 = x
  BY <1>3
<1>5. x - 1 \in T
  BY <1>2, <1>4
<1> QED BY <1>3, <1>4, <1>5

-----------------------------------------------------------------------------
(* The bytes of an answer.                                                 *)

\* One step of the definition of BytesOfLast.
More(a, g, k) ==
  IF k = 0 THEN <<>> ELSE OptionBytes(a[Len(a) - k + 1]) \o g[k - 1]

\* What BytesOfLast adds for each option.
LEMMA BytesRecursion ==
  ASSUME NEW a, Len(a) \in Nat
  PROVE  /\ BytesOfLast(a)[0] = <<>>
         /\ \A k \in 1..Len(a) : BytesOfLast(a)[k] =
              OptionBytes(a[Len(a) - k + 1]) \o BytesOfLast(a)[k - 1]
<1> DEFINE Good(g, m) == g = [k \in 0..m |-> More(a, g, k)]
           T == {m \in Nat : \E g : Good(g, m)}
<1>1. 0 \in T
  <2> DEFINE g == [k \in 0..0 |-> <<>>]
  <2>1. \A k \in 0..0 : More(a, g, k) = <<>>
    BY DEF More
  <2>2. Good(g, 0)
    BY <2>1, Zenon
  <2> QED BY <2>2, 0 \in Nat, Zenon
<1>2. ASSUME NEW m \in 0..Len(a)-1, m \in T PROVE m + 1 \in T
  <2>1. PICK g : Good(g, m)
    BY <1>2, Zenon
  <2> DEFINE h == [k \in 0..m+1 |-> IF k \in 0..m THEN g[k] ELSE More(a, g, k)]
  <2>2. \A k \in 0..m : g[k] = More(a, g, k) /\ h[k] = g[k]
    <3>1. ASSUME NEW k \in 0..m PROVE k \in 0..m+1
      OBVIOUS
    <3> QED BY <2>1, <3>1, Zenon
  <2>3. \A k \in 0..m+1 : k = 0 \/ k - 1 \in 0..m
    OBVIOUS
  <2>4. ASSUME NEW k \in 0..m+1 PROVE More(a, h, k) = More(a, g, k)
    <3> HIDE DEF h
    <3> QED BY <2>2, <2>3, Zenon DEF More
  <2>5. ASSUME NEW k \in 0..m+1 PROVE h[k] = More(a, h, k)
    <3>1. h[k] = IF k \in 0..m THEN g[k] ELSE More(a, g, k)
      BY Zenon
    <3> HIDE DEF h
    <3> QED BY <2>2, <2>4, <3>1, Zenon
  <2>6. h = [k \in 0..m+1 |-> h[k]]
    BY Zenon
  <2> HIDE DEF h
  <2>7. Good(h, m + 1)
    BY <2>5, <2>6, Zenon
  <2>8. m + 1 \in Nat
    OBVIOUS
  <2> QED BY <2>7, <2>8, Zenon
<1>3. Len(a) \in T
  <2> HIDE DEF T
  <2>1. 0..Len(a) \subseteq T
    BY <1>1, <1>2, UpTo, Zenon
  <2>2. Len(a) \in 0..Len(a)
    OBVIOUS
  <2> QED BY <2>1, <2>2, Zenon
<1>4. PICK g : Good(g, Len(a))
  BY <1>3, Zenon
<1> DEFINE F == BytesOfLast(a)
<1>5. F = [k \in 0..Len(a) |-> More(a, F, k)]
  BY <1>4, Zenon DEF BytesOfLast, More
<1>6. ASSUME NEW k \in 0..Len(a) PROVE F[k] = More(a, F, k)
  BY <1>5, Zenon
<1> HIDE DEF F
<1>7. 0 \in 0..Len(a) /\ \A k \in 1..Len(a) : k \in 0..Len(a) /\ k # 0
  OBVIOUS
<1>8. F[0] = <<>>
  BY <1>6, <1>7, Zenon DEF More
<1>9. ASSUME NEW k \in 1..Len(a)
      PROVE  F[k] = OptionBytes(a[Len(a) - k + 1]) \o F[k - 1]
  BY <1>6, <1>7, Zenon DEF More
<1> QED BY <1>8, <1>9, Zenon DEF F

\* An option has a byte that says which it is, a length and a value; its length
\* is that of the value and two bytes more.
LEMMA OptionShape ==
  ASSUME NEW o \in Option, Len(o.value) \in Byte
  PROVE  /\ OptionBytes(o) \in Seq(Byte) /\ Len(OptionBytes(o)) \in Nat
         /\ Len(OptionBytes(o)) > 0 /\ OptionBytes(o)[1] = o.code
         /\ o.code \notin {Pad, EndOption} =>
              /\ Len(o.value) \in Byte /\ Len(OptionBytes(o)) = Len(o.value) + 2
              /\ OptionBytes(o)[2] = Len(o.value)
              /\ o.value # <<>> => Len(o.value) > 0 /\ OptionBytes(o)[3] = o.value[1]
<1> DEFINE c == o.code
           v == o.value
<1>1. c \in Byte /\ v \in Seq(Byte) /\ Len(v) \in Nat /\ Len(v) \in Byte
  <2>1. c \in Byte /\ v \in Seq(Byte)
    BY DEF Option
  <2>2. Len(v) \in Nat
    BY <2>1, LenProperties, Zenon
  <2> QED BY <2>1, <2>2, Zenon
<1> HIDE DEF c, v
<1>2. CASE c \in {Pad, EndOption}
  <2>1. OptionBytes(o) = <<c>>
    BY <1>2, Zenon DEF OptionBytes, c, v
  <2>2. <<c>> \in Seq(Byte) /\ Len(<<c>>) = 1 /\ <<c>>[1] = c
    BY <1>1
  <2>3. Len(OptionBytes(o)) > 0 /\ Len(OptionBytes(o)) \in Nat
    BY <2>1, <2>2
  <2> QED BY <1>2, <2>1, <2>2, <2>3, Zenon DEF c
<1>3. CASE c \notin {Pad, EndOption}
  <2>1. OptionBytes(o) = <<c, Len(v)>> \o v
    BY <1>3, Zenon DEF OptionBytes, c, v
  <2> DEFINE s == <<c, Len(v)>>
  <2>2. s \in Seq(Byte) /\ Len(s) = 2 /\ s[1] = c /\ s[2] = Len(v)
    BY <1>1
  <2> HIDE DEF s
  <2>3. /\ s \o v \in Seq(Byte) /\ Len(s \o v) = 2 + Len(v)
        /\ \A i \in 1..2 + Len(v) : (s \o v)[i] = IF i <= 2 THEN s[i] ELSE v[i - 2]
    <3>1. /\ s \o v \in Seq(Byte) /\ Len(s \o v) = Len(s) + Len(v)
          /\ \A i \in 1..Len(s) + Len(v) :
               (s \o v)[i] = IF i <= Len(s) THEN s[i] ELSE v[i - Len(s)]
      BY <1>1, <2>2, ConcatProperties, Zenon
    <3> QED BY <2>2, <3>1, Zenon
  <2>4. (s \o v)[1] = c /\ (s \o v)[2] = Len(v)
    BY <1>1, <2>2, <2>3
  <2>5. ASSUME v # <<>> PROVE Len(v) > 0 /\ (s \o v)[3] = v[1]
    <3>1. Len(v) > 0
      BY <1>1, <2>5, EmptySeq
    <3> QED BY <1>1, <2>3, <3>1
  <2>6. OptionBytes(o) = s \o v
    BY <2>1 DEF s
  <2>7. Len(s \o v) = Len(v) + 2 /\ Len(s \o v) > 0 /\ Len(s \o v) \in Nat
    BY <1>1, <2>3
  <2> QED BY <1>1, <2>3, <2>4, <2>5, <2>6, <2>7, ZenonT(30) DEF c, v
<1> QED BY <1>2, <1>3, ZenonT(30)

\* The bytes of the options from option i on.
From(a, i) == BytesOfLast(a)[Len(a) - i + 1]

\* The bytes from option i on are its own and those from the next option on.
LEMMA Unfold ==
  ASSUME NEW a, IsAnswer(a)
  PROVE  /\ Len(a) \in Nat /\ Len(a) > 0 /\ DOMAIN a = 1..Len(a)
         /\ \A i \in 1..Len(a) : From(a, i) = OptionBytes(a[i]) \o From(a, i + 1)
         /\ \A i \in 1..Len(a) + 1 : From(a, i) \in Seq(Byte)
<1> DEFINE F == BytesOfLast(a)
           T == {k \in 0..Len(a) : F[k] \in Seq(Byte)}
<1>1. a \in Seq(Option) /\ a # <<>> /\ \A i \in DOMAIN a : Len(a[i].value) \in Byte
  BY Zenon DEF IsAnswer
<1>2. Len(a) \in Nat /\ Len(a) > 0 /\ DOMAIN a = 1..Len(a)
  BY <1>1, EmptySeq, LenProperties
<1>3. /\ F[0] = <<>>
      /\ \A k \in 1..Len(a) : F[k] = OptionBytes(a[Len(a) - k + 1]) \o F[k - 1]
  BY <1>2, BytesRecursion, Zenon
<1>4. \A i \in 1..Len(a) : OptionBytes(a[i]) \in Seq(Byte)
  <2>1. \A i \in 1..Len(a) : a[i] \in Option /\ Len(a[i].value) \in Byte
    BY <1>1, <1>2, ElementOfSeq, Zenon
  <2> QED BY <2>1, OptionShape, Zenon
<1> HIDE DEF F
<1>5. 0 \in T
  <2>1. 0 \in 0..Len(a) /\ <<>> \in Seq(Byte)
    BY <1>2
  <2> QED BY <1>3, <2>1, Zenon
<1>6. ASSUME NEW k \in 0..Len(a)-1, k \in T PROVE k + 1 \in T
  <2>1. /\ k + 1 \in 1..Len(a) /\ (k + 1) - 1 = k /\ k + 1 \in 0..Len(a)
        /\ Len(a) - (k + 1) + 1 \in 1..Len(a)
    BY <1>2
  <2>2. F[k] \in Seq(Byte)
    BY <1>6, Zenon
  <2>3. PICK o \in Seq(Byte) : F[k + 1] = o \o F[k]
    BY <1>3, <1>4, <2>1, Zenon
  <2>4. F[k + 1] \in Seq(Byte)
    BY <2>2, <2>3, ConcatProperties, ZenonT(30)
  <2> QED BY <2>1, <2>4, Zenon
<1>7. 0..Len(a) \subseteq T
  <2> HIDE DEF T
  <2> QED BY <1>2, <1>5, <1>6, UpTo, Zenon
<1>8. ASSUME NEW i \in 1..Len(a)
      PROVE  From(a, i) = OptionBytes(a[i]) \o From(a, i + 1)
  <2>1. /\ Len(a) - i + 1 \in 1..Len(a) /\ Len(a) - (Len(a) - i + 1) + 1 = i
        /\ (Len(a) - i + 1) - 1 = Len(a) - (i + 1) + 1
    BY <1>2
  <2> QED BY <1>3, <2>1, Zenon DEF From, F
<1>9. ASSUME NEW i \in 1..Len(a) + 1 PROVE From(a, i) \in Seq(Byte)
  <2>1. Len(a) - i + 1 \in 0..Len(a)
    BY <1>2
  <2> QED BY <1>7, <2>1, Zenon DEF From, F
<1> QED BY <1>2, <1>8, <1>9, Zenon

\* What is left of s \o t without as many elements as s has.
LEMMA DropFirst ==
  ASSUME NEW S, NEW s \in Seq(S), NEW t \in Seq(S)
  PROVE  SubSeq(s \o t, Len(s) + 1, Len(s \o t)) = t
<1> DEFINE u == s \o t
           d == SubSeq(u, Len(s) + 1, Len(u))
<1>1. /\ u \in Seq(S) /\ Len(u) = Len(s) + Len(t)
      /\ \A i \in 1..Len(s) + Len(t) : u[i] = IF i <= Len(s) THEN s[i] ELSE t[i - Len(s)]
  BY ConcatProperties, Zenon
<1>2. Len(s) \in Nat /\ Len(t) \in Nat
  BY LenProperties
<1> HIDE DEF u
<1>3. \A i \in Len(s) + 1..Len(u) : u[i] \in S
  <2>1. \A i \in Len(s) + 1..Len(u) : i \in 1..Len(u)
    BY <1>1, <1>2
  <2> QED BY <1>1, <2>1, ElementOfSeq, Zenon
<1>4. Len(s) + 1 \in Int /\ Len(u) \in Int
  BY <1>1, <1>2
<1>5. /\ d \in Seq(S) /\ Len(d) = IF Len(s) + 1 <= Len(u) THEN Len(u) - (Len(s) + 1) + 1 ELSE 0
      /\ \A i \in 1..Len(u) - (Len(s) + 1) + 1 : d[i] = u[Len(s) + 1 + i - 1]
  BY <1>3, <1>4, SubSeqProperties
<1> HIDE DEF d
<1>6. Len(d) = Len(t)
  BY <1>1, <1>2, <1>5
<1>7. ASSUME NEW i \in 1..Len(t) PROVE d[i] = t[i]
  <2>1. /\ i \in 1..Len(u) - (Len(s) + 1) + 1 /\ Len(s) + 1 + i - 1 \in 1..Len(s) + Len(t)
        /\ ~(Len(s) + 1 + i - 1 <= Len(s)) /\ (Len(s) + 1 + i - 1) - Len(s) = i
    BY <1>1, <1>2
  <2> QED BY <1>1, <1>5, <2>1, Zenon
<1>8. d = t
  BY <1>5, <1>6, <1>7, SeqEqual, Zenon
<1> QED BY <1>8, Zenon DEF d, u

-----------------------------------------------------------------------------
(* The walk over the options.                                              *)

\* Before option t come options with a value, and none of them is number 53.
Behind(a, t) ==
  /\ a[t].code = MessageType /\ Len(a[t].value) = 1
  /\ \A i \in 1..t-1 : a[i].code \notin {Pad, MessageType} /\ a[i].value # <<>>

\* A place that is not the last.
LEMMA NotLast == ASSUME NEW l \in Nat, NEW i \in 1..l, i # l PROVE i < l /\ i + 1 \in 1..l
  OBVIOUS

\* From an option with a value, the walk reads its length and gets to the next.
LEMMA SkipsOption ==
  ASSUME NEW a, IsAnswer(a), NEW i \in 1..Len(a), a[i].code # Pad, a[i].value # <<>>
  PROVE  LET s == From(a, i)
         IN  /\ s[1] = a[i].code /\ s[2] \in Byte \ {0} /\ s[2] = Len(a[i].value)
             /\ s[3] = a[i].value[1] /\ Len(s) >= 3
             /\ i < Len(a) /\ Len(s) >= 4
             /\ SubSeq(s, s[2] + 3, Len(s)) = From(a, i + 1)
<1> DEFINE s == From(a, i)
           o == a[i]
           b == OptionBytes(o)
           r == From(a, i + 1)
<1>1. /\ a \in Seq(Option) /\ \A k \in DOMAIN a : Len(a[k].value) \in Byte
      /\ \A k \in DOMAIN a : a[k].code \in {Pad, EndOption} => a[k].value = <<>>
      /\ a[Len(a)].code = EndOption
  BY Zenon DEF IsAnswer
<1>2. Len(a) \in Nat /\ Len(a) > 0 /\ DOMAIN a = 1..Len(a)
  BY Unfold, Zenon
<1>3. i < Len(a) /\ i + 1 \in 1..Len(a)
  <2>1. i # Len(a)
    BY <1>1, <1>2, Zenon
  <2> QED BY <1>2, <2>1, NotLast, Zenon
<1>3a. s = b \o r /\ s \in Seq(Byte) /\ r \in Seq(Byte)
  <2>1. i \in 1..Len(a) + 1 /\ i + 1 \in 1..Len(a) + 1
    BY <1>2
  <2> QED BY <2>1, Unfold, Zenon
<1>4. o \in Option /\ Len(o.value) \in Byte /\ o.code \notin {Pad, EndOption}
  BY <1>1, <1>2, ElementOfSeq, Zenon
<1>5. /\ b \in Seq(Byte) /\ Len(b) \in Nat /\ b[1] = o.code
      /\ Len(b) = Len(o.value) + 2 /\ b[2] = Len(o.value)
      /\ Len(o.value) > 0 /\ b[3] = o.value[1]
  BY <1>4, OptionShape, ZenonT(30)
<1>6. Len(r) \in Nat /\ Len(r) > 0
  <2>1. i + 1 \in 1..Len(a)
    BY <1>3
  <2>2. r = OptionBytes(a[i + 1]) \o From(a, i + 1 + 1)
    BY <2>1, Unfold, Zenon
  <2>3. From(a, i + 1 + 1) \in Seq(Byte)
    <3>1. i + 1 + 1 \in 1..Len(a) + 1
      BY <1>2, <1>3
    <3> QED BY <3>1, Unfold, Zenon
  <2>4. a[i + 1] \in Option /\ Len(a[i + 1].value) \in Byte
    BY <1>1, <1>2, <2>1, ElementOfSeq, Zenon
  <2>5. /\ OptionBytes(a[i + 1]) \in Seq(Byte) /\ Len(OptionBytes(a[i + 1])) \in Nat
        /\ Len(OptionBytes(a[i + 1])) > 0
    BY <2>4, OptionShape, ZenonT(30)
  <2> HIDE DEF r
  <2>6. Len(r) = Len(OptionBytes(a[i + 1])) + Len(From(a, i + 1 + 1))
    BY <2>2, <2>3, <2>5, ConcatProperties, ZenonT(30)
  <2>7. Len(From(a, i + 1 + 1)) \in Nat
    BY <2>3, LenProperties, ZenonT(30)
  <2> QED BY <2>5, <2>6, <2>7
<1> HIDE DEF s, b, r, o
<1>7. /\ Len(s) = Len(b) + Len(r)
      /\ \A k \in 1..Len(b) + Len(r) : s[k] = IF k <= Len(b) THEN b[k] ELSE r[k - Len(b)]
  <2>1. /\ Len(b \o r) = Len(b) + Len(r)
        /\ \A k \in 1..Len(b) + Len(r) :
             (b \o r)[k] = IF k <= Len(b) THEN b[k] ELSE r[k - Len(b)]
    <3>1. b \in Seq(Byte) /\ r \in Seq(Byte)
      BY <1>3a, <1>5, Zenon
    <3> QED BY <3>1, ConcatProperties, ZenonT(30)
  <2> QED BY <1>3a, <2>1, ZenonT(30)
<1>8. Len(o.value) \in Nat
  <2>1. Len(o.value) \in Byte
    BY <1>4, Zenon
  <2> QED BY <2>1 DEF Byte
<1>9. \A k \in 1..3 : k \in 1..Len(b) + Len(r) /\ k <= Len(b)
  BY <1>5, <1>6, <1>8
<1>10. s[1] = b[1] /\ s[2] = b[2] /\ s[3] = b[3]
  BY <1>7, <1>9
<1>11. Len(s) >= 3 /\ Len(s) >= 4
  BY <1>5, <1>6, <1>7, <1>8
<1>12. Len(o.value) \in Byte \ {0} /\ Len(o.value) + 3 = Len(b) + 1
  BY <1>4, <1>5, <1>8 DEF Byte
<1>13. SubSeq(s, Len(b) + 1, Len(s)) = r
  <2>1. b \in Seq(Byte) /\ r \in Seq(Byte)
    BY <1>3a, <1>5, Zenon
  <2> QED BY <1>3a, <2>1, DropFirst, ZenonT(30)
<1>14. /\ s[1] = o.code /\ s[2] \in Byte \ {0} /\ s[2] = Len(o.value) /\ s[3] = o.value[1]
       /\ SubSeq(s, s[2] + 3, Len(s)) = r
  <2>1. s[2] = Len(o.value) /\ s[2] + 3 = Len(b) + 1
    BY <1>5, <1>10, <1>12
  <2>2. s[2] \in Byte \ {0}
    BY <1>12, <2>1
  <2> QED BY <1>5, <1>10, <1>13, <2>1, <2>2, ZenonT(30)
<1> QED BY <1>3, <1>11, <1>14, ZenonT(30) DEF s, r, o

\* Until the walk has read option t, it stands at an option before it, or at it.
Walked(t) ==
  /\ pc # "panicked"
  /\ pc = "data" => iter = From(answer, 1)
  /\ pc = "options" => \E i \in 1..t : iter = From(answer, i)
  /\ pc = "parsed" => raw_op = answer[t].value[1]

Walk == /\ answer = <<>> \/ IsAnswer(answer)
        /\ \A t \in DOMAIN answer : Behind(answer, t) => Walked(t)

\* Every option that the walk meets has a value.
LEMMA MetOptions ==
  ASSUME NEW a, NEW t, IsAnswer(a), t \in DOMAIN a, Behind(a, t)
  PROVE  /\ t \in 1..Len(a) /\ 1 \in 1..t
         /\ \A i \in 1..t : i \in 1..Len(a) /\ a[i].code # Pad /\ a[i].value # <<>>
         /\ \A i \in 1..t : i = t \/ (a[i].code # MessageType /\ i + 1 \in 1..t)
<1>1. Len(a) \in Nat /\ t \in 1..Len(a)
  BY Unfold, Zenon
<1>2. \A i \in 1..t : i \in 1..Len(a) /\ (i = t \/ (i \in 1..t-1 /\ i + 1 \in 1..t))
  BY <1>1
<1>3. 1 \in 1..t
  BY <1>1
<1>4. a[t].code # Pad /\ a[t].value # <<>>
  <2>1. a[t].code = MessageType /\ Len(a[t].value) = 1
    BY Zenon DEF Behind
  <2>2. Len(<<>>) = 0 /\ Pad # MessageType
    BY DEF Pad, MessageType
  <2> QED BY <2>1, <2>2
<1>5. \A i \in 1..t-1 : a[i].code # Pad /\ a[i].code # MessageType /\ a[i].value # <<>>
  BY Zenon DEF Behind
<1> QED BY <1>1, <1>2, <1>3, <1>4, <1>5, Zenon

LEMMA WalkInit == Init => Walk
<1> SUFFICES ASSUME Init PROVE Walk
  OBVIOUS
<1>1. answer \in (IF kind = "answer" THEN Answers ELSE {<<>>})
  BY Zenon DEF Init
<1>2. answer = <<>> \/ IsAnswer(answer)
  BY <1>1, PacketAssumption, Zenon
<1>3. ASSUME NEW t \in DOMAIN answer, Behind(answer, t) PROVE Walked(t)
  <2>1. IsAnswer(answer)
    <3>1. DOMAIN <<>> = {}
      OBVIOUS
    <3> QED BY <1>2, <3>1, Zenon
  <2>2. pc \in {"data", "ethernet"} /\ iter = BytesOfLast(answer)[Len(answer)]
    BY Zenon DEF Init
  <2>3. Len(answer) - 1 + 1 = Len(answer)
    <3>1. Len(answer) \in Nat
      BY <2>1, Unfold, Zenon
    <3> QED BY <3>1
  <2>4. iter = From(answer, 1)
    BY <2>2, <2>3, Zenon DEF From
  <2>5. pc # "panicked" /\ pc # "options" /\ pc # "parsed"
    BY <2>2
  <2> QED BY <2>4, <2>5, Zenon DEF Walked
<1> QED BY <1>2, <1>3, Zenon DEF Walk

\* A step of the builders does not touch the answer.
LEMMA BuilderWalk ==
  ASSUME Walk, BuildEthernet \/ BuildArp \/ BuildIpv4 \/ BuildIcmp \/ BuildUdp
               \/ BuildPayload \/ Finish
  PROVE  Walk'
<1>1. /\ answer' = answer
      /\ pc' \in {"arp", "ipv4", "icmp", "udp", "payload", "finish", "done"}
  <2>1. CASE BuildEthernet
    BY <2>1, ZenonT(30) DEF BuildEthernet, parser
  <2>2. CASE BuildArp
    BY <2>2, ZenonT(30) DEF BuildArp, parser
  <2>3. CASE BuildIpv4
    BY <2>3, ZenonT(30) DEF BuildIpv4, parser
  <2>4. CASE BuildIcmp
    BY <2>4 DEF BuildIcmp, parser
  <2>5. CASE BuildUdp
    BY <2>5 DEF BuildUdp, parser
  <2>6. CASE BuildPayload
    BY <2>6, ZenonT(30) DEF BuildPayload, parser
  <2>7. CASE Finish
    BY <2>7, ZenonT(30) DEF Finish, parser
  <2> QED BY <2>1, <2>2, <2>3, <2>4, <2>5, <2>6, <2>7, Zenon
<1>2. pc' # "panicked" /\ pc' # "data" /\ pc' # "options" /\ pc' # "parsed"
  BY <1>1
<1> QED BY <1>1, <1>2, Zenon DEF Walk, Walked

\* One less than a length that is not zero, as a byte.
LEMMA OneLess == \A b \in Byte \ {0} : 3 + ((b + 255) % 256) + 1 = b + 3
  BY DEF Byte

\* A step of try_from goes on to the next option, or reads option 53.
LEMMA ParserWalk ==
  ASSUME Walk, try_from \/ TakeOperation \/ SkipOption \/ EndOfOptions
  PROVE  Walk'
<1>1. answer' = answer
  BY Zenon DEF try_from, TakeOperation, SkipOption, EndOfOptions, builder
<1> SUFFICES ASSUME NEW t \in DOMAIN answer, Behind(answer, t) PROVE Walked(t)'
  BY <1>1, Zenon DEF Walk
<1>2. Walked(t) /\ IsAnswer(answer)
  <2>1. DOMAIN <<>> = {}
    OBVIOUS
  <2> QED BY <2>1, Zenon DEF Walk
<1>3. /\ t \in 1..Len(answer) /\ 1 \in 1..t
      /\ \A i \in 1..t : /\ i \in 1..Len(answer)
                         /\ answer[i].code # Pad /\ answer[i].value # <<>>
      /\ \A i \in 1..t : i = t \/ (answer[i].code # MessageType /\ i + 1 \in 1..t)
  BY <1>2, MetOptions, Zenon
<1>4. ASSUME NEW i \in 1..t, iter = From(answer, i)
      PROVE  /\ iter[1] = answer[i].code /\ iter[2] \in Byte \ {0} /\ iter[3] = answer[i].value[1]
             /\ Len(iter) >= 3 /\ Len(iter) >= 4 /\ Len(iter) \in Nat
             /\ SubSeq(iter, iter[2] + 3, Len(iter)) = From(answer, i + 1)
  <2>1. /\ iter[1] = answer[i].code /\ iter[2] \in Byte \ {0} /\ iter[3] = answer[i].value[1]
        /\ Len(iter) >= 3 /\ Len(iter) >= 4
        /\ SubSeq(iter, iter[2] + 3, Len(iter)) = From(answer, i + 1)
    BY <1>2, <1>3, <1>4, SkipsOption, ZenonT(30)
  <2>2. iter \in Seq(Byte)
    <3>1. i \in 1..Len(answer) + 1
      <4>1. Len(answer) \in Nat /\ i \in 1..Len(answer)
        BY <1>2, <1>3, Unfold, Zenon
      <4> QED BY <4>1
    <3> QED BY <1>2, <1>4, <3>1, Unfold, Zenon
  <2>3. Len(iter) \in Nat
    BY <2>2, LenProperties, Zenon
  <2> QED BY <2>1, <2>3, Zenon
<1>5. CASE try_from
  <2>1. pc = "data" /\ iter = From(answer, 1)
    BY <1>2, <1>5, Zenon DEF try_from, Walked
  <2>2. Len(iter) \in Nat /\ Len(iter) >= 4
    BY <1>3, <1>4, <2>1, Zenon
  <2>3. ~(Len(iter) < 4)
    BY <2>2
  <2>4. pc' = "options" /\ iter' = iter
    BY <1>5, <2>3, Zenon DEF try_from
  <2>5. pc' # "panicked" /\ pc' # "data" /\ pc' # "parsed"
    BY <2>4
  <2> QED BY <1>1, <1>3, <2>1, <2>4, <2>5, Zenon DEF Walked
<1>6. CASE TakeOperation
  <2>1. pc = "options" /\ iter[1] = MessageType
    BY <1>6, Zenon DEF TakeOperation
  <2>2. PICK i \in 1..t : iter = From(answer, i)
    BY <1>2, <2>1, Zenon DEF Walked
  <2>3. i = t /\ iter[3] = answer[t].value[1] /\ Len(iter) \in Nat /\ Len(iter) >= 3
    BY <1>3, <1>4, <2>1, <2>2, Zenon
  <2>4. ~(Len(iter) < 3)
    BY <2>3
  <2>5. pc' = "parsed" /\ raw_op' = iter[3]
    BY <1>6, <2>4, Zenon DEF TakeOperation
  <2>6. pc' # "panicked" /\ pc' # "data" /\ pc' # "options"
    BY <2>5
  <2> QED BY <1>1, <2>3, <2>5, <2>6, Zenon DEF Walked
<1>7. CASE SkipOption
  <2>1. pc = "options" /\ iter[1] # MessageType
    BY <1>7, Zenon DEF SkipOption
  <2>2. PICK i \in 1..t : iter = From(answer, i)
    BY <1>2, <2>1, Zenon DEF Walked
  <2>3. /\ iter[1] = answer[i].code /\ iter[2] \in Byte \ {0}
        /\ Len(iter) >= 3 /\ Len(iter) \in Nat
        /\ SubSeq(iter, iter[2] + 3, Len(iter)) = From(answer, i + 1)
    BY <1>4, <2>2, Zenon
  <2>4. i + 1 \in 1..t
    <3>1. answer[t].code = MessageType
      BY Zenon DEF Behind
    <3> QED BY <1>3, <2>1, <2>3, <3>1, Zenon
  <2>5. ~(Len(iter) < 2) /\ iter[2] # 0 /\ 3 + ((iter[2] + 255) % 256) + 1 = iter[2] + 3
    <3>1. 3 + ((iter[2] + 255) % 256) + 1 = iter[2] + 3
      BY <2>3, OneLess, SMT
    <3> QED BY <2>3, <3>1
  <2>6. iter' = SubSeq(iter, iter[2] + 3, Len(iter)) /\ pc' = pc
    BY <1>7, <2>5 DEF SkipOption
  <2>7. iter' = From(answer, i + 1) /\ pc' = "options"
    BY <2>1, <2>3, <2>6, Zenon
  <2>8. pc' # "panicked" /\ pc' # "data" /\ pc' # "parsed"
    BY <2>7
  <2> QED BY <1>1, <2>4, <2>7, <2>8, Zenon DEF Walked
<1>8. CASE EndOfOptions
  <2>1. pc = "options" /\ iter = <<>>
    BY <1>8, Zenon DEF EndOfOptions
  <2>2. PICK i \in 1..t : iter = From(answer, i)
    BY <1>2, <2>1, Zenon DEF Walked
  <2>3. Len(iter) >= 3
    BY <1>4, <2>2, Zenon
  <2>4. Len(<<>>) = 0
    OBVIOUS
  <2> QED BY <2>1, <2>3, <2>4
<1> QED BY <1>5, <1>6, <1>7, <1>8, Zenon

-----------------------------------------------------------------------------
(* The builders.  Each writes its fields behind those of the layer outside *)
(* it, into bytes that nobody has written yet.                             *)

\* The fields lie side by side in so many bytes.
Well(fields, size) ==
  /\ \A f \in fields : f[2] \in Nat /\ f[3] \in Nat /\ f[2] + f[3] <= size
  /\ \A f, g \in fields : f = g \/ f[2] + f[3] <= g[2] \/ g[2] + g[3] <= f[2]

\* The bytes of c below top that belong to a field hold that field.
LaidOut(c, base, fields, top) ==
  \A f \in fields : \A i \in Span(base, f) : i < top => c[i] = <<f[1], i - base - f[2]>>

\* How far the payload reaches: the end option of the request lies past its size.
PayloadEnd == IF kind = "discover" THEN 244 ELSE IF kind = "request" THEN 258 ELSE n

\* What is not written is zero.
Blank(c, w) == \A i \in 0..BufferSize-1 : i \notin w => c[i] = Zero

\* The layers, each with its bytes below top in place and the values in its
\* header that say what is inside it.
EthernetLayer(top) ==
  /\ LaidOut(content, 0, EthFields, top)
  /\ val.eth = EthType_into(IF IsArp THEN "Arp" ELSE "Ipv4")
ArpLayer(top) ==
  LaidOut(content, 14, ArpFields, top) /\ val.operation = Operation_into(kind)
IpLayer(top) ==
  /\ LaidOut(content, 14, IpFields, top)
  /\ val.protocol = Protocol_into(IF IsIcmp THEN "Icmp" ELSE "Udp")
  /\ val.total = 28 + payload_size
IcmpLayer(top) == LaidOut(content, 34, IcmpFields, top) /\ val.type = Type_into(kind)
UdpLayer(top) ==
  /\ LaidOut(content, 34, UdpFields, top)
  /\ val.udp = 8 + payload_size
  /\ val.ports = Ports
InnerLayers(top) ==
  /\ EthernetLayer(top) /\ IpLayer(top)
  /\ IF IsIcmp THEN IcmpLayer(top) ELSE UdpLayer(top)
\* Behind the headers, only the fields of the payload are written.
PayloadOnly == \A i \in written : i \in 0..41 \/ \E f \in PayloadFields : i \in Span(42, f)
WholeFrame(top) ==
  /\ IF IsArp THEN EthernetLayer(top) /\ ArpLayer(top)
     ELSE InnerLayers(top) /\ LaidOut(content, 42, PayloadFields, top) /\ PayloadOnly
  /\ written \subseteq 0..(IF IsArp THEN 42 ELSE 42 + PayloadEnd) - 1

\* The layers that stand when a builder is called, and the bytes they take up.
Stages ==
  /\ pc = "ethernet" => written = {}
  /\ pc = "arp" => IsArp /\ EthernetLayer(BufferSize) /\ written \subseteq 0..13
  /\ pc = "ipv4" => ~IsArp /\ EthernetLayer(BufferSize) /\ written \subseteq 0..13
  /\ pc \in {"icmp", "udp"} =>
       /\ ~IsArp /\ (pc = "icmp" <=> IsIcmp)
       /\ EthernetLayer(BufferSize) /\ IpLayer(BufferSize) /\ written \subseteq 0..33
  /\ pc = "payload" => ~IsArp /\ InnerLayers(BufferSize) /\ written \subseteq 0..41
  /\ pc = "finish" => WholeFrame(BufferSize)
  /\ pc = "done" => /\ WholeFrame(len)
                    /\ len = FrameLength(IF IsArp THEN 28 ELSE 28 + payload_size)
                    /\ \A i \in 0..BufferSize-1 : i >= len => content[i] = Zero

ValFields == {"eth", "protocol", "operation", "type", "ports", "total", "udp"}
Parsing == {"data", "options", "parsed", "panicked"}

Sized ==
  /\ n \in Nat /\ 42 + payload_size < BufferSize
  /\ DOMAIN content = 0..BufferSize-1 /\ DOMAIN val = ValFields
  /\ Blank(content, written)
  /\ kind \in AllKinds /\ (kind = "answer" <=> pc \in Parsing)

BuildInv == Sized /\ Stages

\* The layouts.
LEMMA HeadersWell ==
  /\ Well(EthFields, 14) /\ Well(UdpFields, 8) /\ Well(IcmpFields, 8)
<1>1. Well(EthFields, 14)
  BY DEF Well, EthFields
<1>2. Well(UdpFields, 8)
  BY DEF Well, UdpFields
<1>3. Well(IcmpFields, 8)
  BY DEF Well, IcmpFields
<1> QED BY <1>1, <1>2, <1>3

LEMMA ArpWell == Well(ArpFields, 28)
  BY SMTT(30) DEF Well, ArpFields

LEMMA IpWell == Well(IpFields, 20)
  BY SMTT(30) DEF Well, IpFields

LEMMA BootpWell == Well(BootpFields, 243)
  BY SMTT(30) DEF Well, BootpFields

\* A field behind the others.
LEMMA AddField ==
  ASSUME NEW fields, NEW size \in Nat, Well(fields, size),
         NEW f, f[2] \in Nat, f[3] \in Nat, f[2] >= size
  PROVE  Well(fields \cup {f}, f[2] + f[3])
<1> DEFINE e == f[2] + f[3]
<1>1. \A g \in fields : g[2] \in Nat /\ g[3] \in Nat /\ g[2] + g[3] <= f[2] /\ g[2] + g[3] <= e
  BY DEF Well
<1>2. e \in Nat /\ e <= e
  OBVIOUS
<1>3. \A g, h \in fields : g = h \/ g[2] + g[3] <= h[2] \/ h[2] + h[3] <= g[2]
  BY Zenon DEF Well
<1> QED BY <1>1, <1>2, <1>3, ZenonT(30) DEF Well

LEMMA DhcpWell == Well(DiscoverFields, 244) /\ Well(RequestFields, 258)
<1>1. Well(DiscoverFields, 244)
  <2> DEFINE f == <<"dhcp.end", 243, 1>>
  <2>1. f[2] = 243 /\ f[3] = 1
    OBVIOUS
  <2> HIDE DEF f
  <2>2. Well(BootpFields \cup {f}, f[2] + f[3])
    BY <2>1, BootpWell, AddField
  <2>3. f[2] + f[3] = 244
    BY <2>1
  <2> QED BY <2>2, <2>3 DEF f, DiscoverFields
<1>2. Well(RequestFields, 258)
  <2> DEFINE f == <<"dhcp.server", 243, 6>>
             g == <<"dhcp.requested", 250, 6>>
             h == <<"dhcp.end", 257, 1>>
  <2>1. f[2] = 243 /\ f[3] = 6 /\ g[2] = 250 /\ g[3] = 6 /\ h[2] = 257 /\ h[3] = 1
    OBVIOUS
  <2>2. RequestFields = ((BootpFields \cup {f}) \cup {g}) \cup {h}
    BY DEF RequestFields
  <2> HIDE DEF f, g, h
  <2>3. Well(BootpFields \cup {f}, f[2] + f[3])
    BY <2>1, BootpWell, AddField
  <2>4. Well((BootpFields \cup {f}) \cup {g}, g[2] + g[3])
    BY <2>1, <2>3, AddField
  <2>5. Well(((BootpFields \cup {f}) \cup {g}) \cup {h}, h[2] + h[3])
    BY <2>1, <2>4, AddField
  <2>6. h[2] + h[3] = 258
    BY <2>1
  <2> QED BY <2>2, <2>5, <2>6
<1> QED BY <1>1, <1>2

\* What a caller's payload writes.
LEMMA BytesWell == ASSUME NEW m \in Nat PROVE Well({<<"payload", 0, m>>}, m)
  BY DEF Well

\* The fields of a layer are where the layer is.
LEMMA InLayer ==
  ASSUME NEW fields, NEW size \in Nat, Well(fields, size), NEW base \in Nat,
         NEW f \in fields, NEW i \in Span(base, f)
  PROVE  /\ i \in base..base + size - 1
         /\ \A g \in fields : i \in Span(base, g) => g = f
<1>1. /\ f[2] \in Nat /\ f[3] \in Nat /\ f[2] + f[3] <= size
      /\ i \in base + f[2]..base + f[2] + f[3] - 1
  BY Zenon DEF Well, Span
<1>2. i \in base..base + size - 1
  BY <1>1
<1>3. ASSUME NEW g \in fields, i \in Span(base, g) PROVE g = f
  <2>1. /\ g[2] \in Nat /\ g[3] \in Nat
        /\ i \in base + g[2]..base + g[2] + g[3] - 1
        /\ g = f \/ g[2] + g[3] <= f[2] \/ f[2] + f[3] <= g[2]
    BY <1>3, Zenon DEF Well, Span
  <2> QED BY <1>1, <2>1
<1> QED BY <1>2, <1>3, Zenon

\* A builder writes its own layer and nothing below it.
LEMMA PutLayer ==
  ASSUME NEW base \in Nat, NEW size \in Nat, NEW fields, Well(fields, size),
         base + size <= BufferSize, DOMAIN content = 0..BufferSize-1,
         written \subseteq 0..base-1, Blank(content, written), Put(base, fields)
  PROVE  /\ DOMAIN content' = 0..BufferSize-1
         /\ LaidOut(content', base, fields, BufferSize)
         /\ \A i \in 0..base-1 : content'[i] = content[i]
         /\ written' \subseteq 0..base + size - 1
         /\ Blank(content', written')
<1> USE PacketAssumption
<1> DEFINE New(i) == LET f == CHOOSE g \in fields : i \in Span(base, g)
                     IN  <<f[1], i - base - f[2]>>
           Hit(i) == \E f \in fields : i \in Span(base, f)
<1>0. BufferSize \in Nat
  BY Zenon
<1> HIDE PacketAssumption
<1>1. /\ content' = [i \in 0..BufferSize-1 |-> IF Hit(i) THEN New(i) ELSE content[i]]
      /\ written' = written \cup UNION {Span(base, f) : f \in fields}
  BY Zenon DEF Put
<1>2. /\ DOMAIN content' = 0..BufferSize-1
      /\ \A i \in 0..BufferSize-1 : content'[i] = IF Hit(i) THEN New(i) ELSE content[i]
  BY <1>1, Zenon
<1>3. ASSUME NEW f \in fields, NEW i \in Span(base, f)
      PROVE  i \in base..base + size - 1 /\ New(i) = <<f[1], i - base - f[2]>>
  <2>1. i \in base..base + size - 1 /\ \A g \in fields : i \in Span(base, g) => g = f
    BY InLayer, Zenon
  <2>2. (CHOOSE g \in fields : i \in Span(base, g)) = f
    BY <1>3, <2>1, Zenon
  <2> QED BY <2>1, <2>2, Zenon
<1> HIDE DEF New
<1>5. LaidOut(content', base, fields, BufferSize)
  <2>1. ASSUME NEW f \in fields, NEW i \in Span(base, f)
        PROVE  content'[i] = <<f[1], i - base - f[2]>>
    <3>1. i \in 0..BufferSize-1
      BY <1>0, <1>3
    <3> QED BY <1>2, <1>3, <3>1, Zenon
  <2> QED BY <2>1, Zenon DEF LaidOut
<1>6. ASSUME NEW i \in 0..base-1 PROVE content'[i] = content[i]
  <2>1. i \in 0..BufferSize-1 /\ i \notin base..base + size - 1
    BY <1>0
  <2>2. ~Hit(i)
    BY <1>3, <2>1, Zenon
  <2> QED BY <1>2, <2>1, <2>2, Zenon
<1>7. written' \subseteq 0..base + size - 1
  <2>1. 0..base-1 \subseteq 0..base + size - 1 /\ base..base + size - 1 \subseteq 0..base + size - 1
    OBVIOUS
  <2> QED BY <1>1, <1>3, <2>1, Zenon
<1>8. Blank(content', written')
  <2>1. ASSUME NEW i \in 0..BufferSize-1, i \notin written' PROVE content'[i] = Zero
    <3>1. ~Hit(i) /\ i \notin written
      BY <1>1, <2>1, Zenon
    <3> QED BY <1>2, <3>1, Zenon DEF Blank
  <2> QED BY <2>1, Zenon DEF Blank
<1> QED BY <1>2, <1>5, <1>6, <1>7, <1>8, Zenon

\* The layers below stay.
LEMMA LayerStays ==
  ASSUME NEW c, NEW d, NEW base \in Nat, NEW size \in Nat, NEW fields, Well(fields, size),
         NEW top \in Nat, base + size <= top, \A i \in 0..top-1 : d[i] = c[i],
         LaidOut(c, base, fields, BufferSize)
  PROVE  LaidOut(d, base, fields, BufferSize)
<1> SUFFICES ASSUME NEW f \in fields, NEW i \in Span(base, f), i < BufferSize
             PROVE  d[i] = <<f[1], i - base - f[2]>>
  BY Zenon DEF LaidOut
<1>1. i \in base..base + size - 1
  BY InLayer, Zenon
<1>2. i \in 0..top-1
  BY <1>1
<1> QED BY <1>2, Zenon DEF LaidOut

\* What a builder leaves behind: its own layer and those below it.
LEMMA Layer ==
  ASSUME Sized, NEW base \in Nat, NEW size \in Nat, NEW fields, Well(fields, size),
         base + size <= BufferSize, written \subseteq 0..base-1, Put(base, fields)
  PROVE  /\ DOMAIN content' = 0..BufferSize-1 /\ Blank(content', written')
         /\ LaidOut(content', base, fields, BufferSize)
         /\ written' \subseteq 0..base + size - 1
         /\ \A b, m \in Nat : \A under :
              Well(under, m) /\ b + m <= base /\ LaidOut(content, b, under, BufferSize)
                => LaidOut(content', b, under, BufferSize)
<1>1. DOMAIN content = 0..BufferSize-1 /\ Blank(content, written)
  BY Zenon DEF Sized
<1>2. /\ DOMAIN content' = 0..BufferSize-1 /\ Blank(content', written')
      /\ LaidOut(content', base, fields, BufferSize)
      /\ \A i \in 0..base-1 : content'[i] = content[i]
      /\ written' \subseteq 0..base + size - 1
  BY <1>1, PutLayer, Zenon
<1>3. ASSUME NEW b \in Nat, NEW m \in Nat, NEW under, Well(under, m), b + m <= base,
             LaidOut(content, b, under, BufferSize)
      PROVE  LaidOut(content', b, under, BufferSize)
  BY <1>2, <1>3, LayerStays, Zenon
<1> QED BY <1>2, <1>3, Zenon

\* A builder sets one field of the values and keeps the others.
LEMMA SetVal ==
  ASSUME DOMAIN val = ValFields, NEW f \in ValFields, NEW x, val' = [val EXCEPT ![f] = x]
  PROVE  DOMAIN val' = ValFields /\ val'[f] = x /\ \A g \in ValFields \ {f} : val'[g] = val[g]
  BY Zenon

\* The packet that is built stays the same.
LEMMA SamePacket ==
  ASSUME kind' = kind, n' = n
  PROVE  /\ IsArp' = IsArp /\ IsIcmp' = IsIcmp /\ payload_size' = payload_size
         /\ PayloadFields' = PayloadFields /\ PayloadEnd' = PayloadEnd
<1>1. IsArp' = IsArp /\ IsIcmp' = IsIcmp
  BY Zenon DEF IsArp, IsIcmp
<1>2. payload_size' = payload_size
  BY Zenon DEF payload_size
<1>3. PayloadFields' = PayloadFields
  BY Zenon DEF PayloadFields
<1>4. PayloadEnd' = PayloadEnd
  BY Zenon DEF PayloadEnd
<1> QED BY <1>1, <1>2, <1>3, <1>4, Zenon

LEMMA SamePorts == ASSUME kind' = kind PROVE Ports' = Ports
  BY DEF Ports

\* The sizes fit the buffer.
LEMMA Fits ==
  ASSUME Sized
  PROVE  /\ payload_size \in Nat /\ PayloadEnd \in Nat /\ BufferSize \in Nat
         /\ 42 + PayloadEnd <= BufferSize /\ 42 + payload_size < BufferSize
         /\ payload_size <= PayloadEnd
         /\ kind # "request" => PayloadEnd = payload_size
         /\ Well(PayloadFields, PayloadEnd)
<1>1. BufferSize \in Nat
  BY PacketAssumption, Zenon
<1>2. n \in Nat /\ 42 + payload_size < BufferSize
  BY Zenon DEF Sized
<1>3. CASE kind = "discover"
  <2>1. payload_size = 244 /\ PayloadEnd = 244 /\ PayloadFields = DiscoverFields /\ kind # "request"
    BY <1>3 DEF payload_size, PayloadEnd, PayloadFields
  <2>2. Well(PayloadFields, PayloadEnd)
    BY <2>1, DhcpWell, Zenon
  <2> QED BY <1>1, <1>2, <2>1, <2>2
<1>4. CASE kind = "request"
  <2>1. payload_size = 257 /\ PayloadEnd = 258 /\ PayloadFields = RequestFields
    BY <1>4 DEF payload_size, PayloadEnd, PayloadFields
  <2>2. Well(PayloadFields, PayloadEnd)
    BY <2>1, DhcpWell, Zenon
  <2> QED BY <1>1, <1>2, <1>4, <2>1, <2>2
<1>5. CASE kind # "discover" /\ kind # "request"
  <2>1. payload_size = n /\ PayloadEnd = n /\ PayloadFields = {<<"payload", 0, n>>}
    BY <1>5 DEF payload_size, PayloadEnd, PayloadFields
  <2>2. Well(PayloadFields, PayloadEnd)
    BY <1>2, <2>1, BytesWell, Zenon
  <2> QED BY <1>1, <1>2, <1>5, <2>1, <2>2
<1> QED BY <1>3, <1>4, <1>5, Zenon

LEMMA EthernetInv ==
  ASSUME BuildInv, BuildEthernet
  PROVE  BuildInv'
<1>1. /\ pc = "ethernet" /\ Put(0, EthFields) /\ kind' = kind /\ n' = n
      /\ val' = [val EXCEPT !["eth"] = EthType_into(IF IsArp THEN "Arp" ELSE "Ipv4")]
      /\ pc' = IF IsArp THEN "arp" ELSE "ipv4"
  BY Zenon DEF BuildEthernet
<1>2. Sized /\ written = {}
  BY <1>1, Zenon DEF BuildInv, Stages
<1>3. /\ DOMAIN content' = 0..BufferSize-1 /\ Blank(content', written')
      /\ LaidOut(content', 0, EthFields, BufferSize) /\ written' \subseteq 0..13
  <2>1. 0 \in Nat /\ 14 \in Nat /\ 0 + 14 <= BufferSize /\ 0 + 14 - 1 = 13
    BY <1>2, Fits
  <2>2. written \subseteq 0..0-1
    BY <1>2, Zenon
  <2> QED BY <1>1, <1>2, <2>1, <2>2, HeadersWell, Layer, Zenon
<1>4. /\ DOMAIN val' = ValFields
      /\ val'["eth"] = EthType_into(IF IsArp THEN "Arp" ELSE "Ipv4")
  <2>1. "eth" \in ValFields
    BY Zenon DEF ValFields
  <2> QED BY <1>1, <1>2, <2>1, SetVal, Zenon DEF Sized
<1>5. IsArp' = IsArp /\ IsIcmp' = IsIcmp /\ payload_size' = payload_size
  BY <1>1, SamePacket, Zenon
<1>6. EthernetLayer(BufferSize)'
  BY <1>3, <1>4, <1>5, Zenon DEF EthernetLayer
<1>7. Sized'
  <2>1. pc \notin Parsing /\ pc' \notin Parsing
    BY <1>1 DEF Parsing
  <2> QED BY <1>1, <1>2, <1>3, <1>4, <1>5, <2>1, Zenon DEF Sized
<1>8. Stages'
  <2>1. CASE IsArp
    <3>1. pc' = "arp"
      BY <1>1, <2>1, Zenon
    <3>2. /\ pc' # "ethernet" /\ pc' # "ipv4" /\ pc' \notin {"icmp", "udp"}
          /\ pc' # "payload" /\ pc' # "finish" /\ pc' # "done"
      BY <3>1
    <3> QED BY <1>3, <1>5, <1>6, <2>1, <3>1, <3>2, Zenon DEF Stages
  <2>2. CASE ~IsArp
    <3>1. pc' = "ipv4"
      BY <1>1, <2>2, Zenon
    <3>2. /\ pc' # "ethernet" /\ pc' # "arp" /\ pc' \notin {"icmp", "udp"}
          /\ pc' # "payload" /\ pc' # "finish" /\ pc' # "done"
      BY <3>1
    <3> QED BY <1>3, <1>5, <1>6, <2>2, <3>1, <3>2, Zenon DEF Stages
  <2> QED BY <2>1, <2>2, Zenon
<1> QED BY <1>7, <1>8, Zenon DEF BuildInv

LEMMA ArpInv ==
  ASSUME BuildInv, BuildArp
  PROVE  BuildInv'
<1>1. /\ pc = "arp" /\ Put(14, ArpFields) /\ kind' = kind /\ n' = n
      /\ val' = [val EXCEPT !["operation"] = Operation_into(kind)]
      /\ pc' = "finish"
  BY Zenon DEF BuildArp
<1>2. Sized /\ IsArp /\ EthernetLayer(BufferSize) /\ written \subseteq 0..13
  BY <1>1, Zenon DEF BuildInv, Stages
<1>3. /\ DOMAIN content' = 0..BufferSize-1 /\ Blank(content', written')
      /\ LaidOut(content', 14, ArpFields, BufferSize) /\ written' \subseteq 0..42-1
      /\ LaidOut(content', 0, EthFields, BufferSize)
  <2>1. /\ 0 \in Nat /\ 14 \in Nat /\ 28 \in Nat /\ 14 + 28 <= BufferSize
        /\ 14 + 28 - 1 = 42 - 1 /\ 14 - 1 = 13 /\ 0 + 14 <= 14
    BY <1>2, Fits
  <2>2. LaidOut(content, 0, EthFields, BufferSize)
    BY <1>2, Zenon DEF EthernetLayer
  <2>3. written \subseteq 0..14-1
    BY <1>2, <2>1, Zenon
  <2>4. /\ DOMAIN content' = 0..BufferSize-1 /\ Blank(content', written')
        /\ LaidOut(content', 14, ArpFields, BufferSize)
        /\ written' \subseteq 0..14 + 28 - 1
        /\ \A b, m \in Nat : \A under :
             Well(under, m) /\ b + m <= 14 /\ LaidOut(content, b, under, BufferSize)
               => LaidOut(content', b, under, BufferSize)
    BY <1>1, <1>2, <2>1, <2>3, ArpWell, Layer, Zenon
  <2> QED BY <2>1, <2>2, <2>4, HeadersWell, Zenon
<1>4. /\ DOMAIN val' = ValFields /\ val'["operation"] = Operation_into(kind)
      /\ val'["eth"] = val["eth"]
  <2>1. "operation" \in ValFields /\ "eth" \in ValFields \ {"operation"}
    BY DEF ValFields
  <2> QED BY <1>1, <1>2, <2>1, SetVal, Zenon DEF Sized
<1>5. /\ IsArp' = IsArp /\ IsIcmp' = IsIcmp /\ payload_size' = payload_size
  BY <1>1, SamePacket, Zenon
<1>6. EthernetLayer(BufferSize)' /\ ArpLayer(BufferSize)'
  BY <1>1, <1>2, <1>3, <1>4, <1>5, Zenon DEF EthernetLayer, ArpLayer
<1>7. Sized'
  <2>1. pc \notin Parsing /\ pc' \notin Parsing
    BY <1>1 DEF Parsing
  <2> QED BY <1>1, <1>2, <1>3, <1>4, <1>5, <2>1, Zenon DEF Sized
<1>8. Stages'
  <2>1. /\ pc' # "ethernet" /\ pc' # "arp" /\ pc' # "ipv4" /\ pc' \notin {"icmp", "udp"}
        /\ pc' # "payload" /\ pc' # "done"
    BY <1>1
  <2>2. WholeFrame(BufferSize)'
    BY <1>2, <1>3, <1>5, <1>6, Zenon DEF WholeFrame
  <2> QED BY <2>1, <2>2, Zenon DEF Stages
<1> QED BY <1>7, <1>8, Zenon DEF BuildInv

LEMMA Ipv4Inv ==
  ASSUME BuildInv, BuildIpv4
  PROVE  BuildInv'
<1> DEFINE proto == Protocol_into(IF IsIcmp THEN "Icmp" ELSE "Udp")
<1>1. /\ pc = "ipv4" /\ Put(14, IpFields) /\ kind' = kind /\ n' = n
      /\ val' = [val EXCEPT !["protocol"] = proto, !["total"] = 20 + ip_payload_size]
      /\ pc' = IF IsIcmp THEN "icmp" ELSE "udp"
  BY Zenon DEF BuildIpv4
<1>2. Sized /\ ~IsArp /\ EthernetLayer(BufferSize) /\ written \subseteq 0..13
  BY <1>1, Zenon DEF BuildInv, Stages
<1>3. /\ DOMAIN content' = 0..BufferSize-1 /\ Blank(content', written')
      /\ LaidOut(content', 14, IpFields, BufferSize) /\ written' \subseteq 0..33
      /\ LaidOut(content', 0, EthFields, BufferSize)
  <2>1. /\ 0 \in Nat /\ 14 \in Nat /\ 20 \in Nat /\ 14 + 20 <= BufferSize
        /\ 14 + 20 - 1 = 33 /\ 14 - 1 = 13 /\ 0 + 14 <= 14
    BY <1>2, Fits
  <2>2. LaidOut(content, 0, EthFields, BufferSize)
    BY <1>2, Zenon DEF EthernetLayer
  <2>3. written \subseteq 0..14-1
    BY <1>2, <2>1, Zenon
  <2>4. /\ DOMAIN content' = 0..BufferSize-1 /\ Blank(content', written')
        /\ LaidOut(content', 14, IpFields, BufferSize)
        /\ written' \subseteq 0..14 + 20 - 1
        /\ \A b, m \in Nat : \A under :
             Well(under, m) /\ b + m <= 14 /\ LaidOut(content, b, under, BufferSize)
               => LaidOut(content', b, under, BufferSize)
    BY <1>1, <1>2, <2>1, <2>3, IpWell, Layer, Zenon
  <2> QED BY <2>1, <2>2, <2>4, HeadersWell, Zenon
<1>4. /\ DOMAIN val' = ValFields /\ val'["protocol"] = proto
      /\ val'["total"] = 28 + payload_size /\ val'["eth"] = val["eth"]
  <2>1. /\ "protocol" \in ValFields /\ "total" \in ValFields /\ "eth" \in ValFields
        /\ "eth" # "protocol" /\ "eth" # "total" /\ "protocol" # "total"
    BY DEF ValFields
  <2>2. 20 + ip_payload_size = 28 + payload_size
    BY <1>2, Fits DEF ip_payload_size
  <2> HIDE DEF proto
  <2>3. DOMAIN val = ValFields
    BY <1>2, Zenon DEF Sized
  <2>4. /\ DOMAIN val' = ValFields /\ val'["protocol"] = proto
        /\ val'["total"] = 20 + ip_payload_size /\ val'["eth"] = val["eth"]
    BY <1>1, <2>1, <2>3, Zenon
  <2> QED BY <2>2, <2>4, Zenon
<1>5. /\ IsArp' = IsArp /\ IsIcmp' = IsIcmp /\ payload_size' = payload_size
  BY <1>1, SamePacket, Zenon
<1>6. EthernetLayer(BufferSize)' /\ IpLayer(BufferSize)'
  BY <1>2, <1>3, <1>4, <1>5, Zenon DEF EthernetLayer, IpLayer
<1>7. Sized'
  <2>1. pc \notin Parsing /\ pc' \notin Parsing
    BY <1>1 DEF Parsing
  <2> QED BY <1>1, <1>2, <1>3, <1>4, <1>5, <2>1, Zenon DEF Sized
<1>8. Stages'
  <2>1. /\ pc' # "ethernet" /\ pc' # "arp" /\ pc' # "ipv4" /\ (pc' = "icmp" <=> IsIcmp)
        /\ pc' # "payload" /\ pc' # "finish" /\ pc' # "done"
    BY <1>1
  <2> QED BY <1>2, <1>3, <1>5, <1>6, <2>1, Zenon DEF Stages
<1> QED BY <1>7, <1>8, Zenon DEF BuildInv

\* A layer behind the IPv4 header.
LEMMA BehindIp ==
  ASSUME Sized, EthernetLayer(BufferSize), IpLayer(BufferSize), written \subseteq 0..33,
         NEW fields, Well(fields, 8), Put(34, fields)
  PROVE  /\ DOMAIN content' = 0..BufferSize-1 /\ Blank(content', written')
         /\ LaidOut(content', 34, fields, BufferSize) /\ written' \subseteq 0..41
         /\ LaidOut(content', 0, EthFields, BufferSize)
         /\ LaidOut(content', 14, IpFields, BufferSize)
<1> DEFINE base == 34
<1>1. /\ 0 \in Nat /\ 14 \in Nat /\ 20 \in Nat /\ 8 \in Nat /\ base \in Nat
      /\ base + 8 <= BufferSize /\ base + 8 - 1 = 41 /\ base - 1 = 33
      /\ 0 + 14 <= base /\ 14 + 20 <= base
  BY Fits
<1>2. LaidOut(content, 0, EthFields, BufferSize) /\ LaidOut(content, 14, IpFields, BufferSize)
  BY Zenon DEF EthernetLayer, IpLayer
<1>3. written \subseteq 0..base-1
  BY <1>1, Zenon
<1>4. Put(base, fields)
  OBVIOUS
<1> HIDE DEF base
<1>5. /\ DOMAIN content' = 0..BufferSize-1 /\ Blank(content', written')
      /\ LaidOut(content', base, fields, BufferSize)
      /\ written' \subseteq 0..base + 8 - 1
      /\ \A b, m \in Nat : \A under :
           Well(under, m) /\ b + m <= base /\ LaidOut(content, b, under, BufferSize)
             => LaidOut(content', b, under, BufferSize)
  BY <1>1, <1>3, <1>4, Layer, Zenon
<1>6. /\ LaidOut(content', 0, EthFields, BufferSize) /\ LaidOut(content', 14, IpFields, BufferSize)
      /\ written' \subseteq 0..41
  <2>1. LaidOut(content', 0, EthFields, BufferSize)
    BY <1>1, <1>2, <1>5, HeadersWell, ZenonT(30)
  <2>2. LaidOut(content', 14, IpFields, BufferSize)
    BY <1>1, <1>2, <1>5, IpWell, ZenonT(30)
  <2> QED BY <1>1, <1>5, <2>1, <2>2, Zenon
<1> QED BY <1>5, <1>6, Zenon DEF base

LEMMA IcmpInv ==
  ASSUME BuildInv, BuildIcmp
  PROVE  BuildInv'
<1>1. /\ pc = "icmp" /\ Put(34, IcmpFields) /\ kind' = kind /\ n' = n
      /\ val' = [val EXCEPT !["type"] = Type_into(kind)]
      /\ pc' = "payload"
  BY Zenon DEF BuildIcmp
<1>2. /\ Sized /\ ~IsArp /\ IsIcmp /\ EthernetLayer(BufferSize) /\ IpLayer(BufferSize)
      /\ written \subseteq 0..33
  <2>1. pc \in {"icmp", "udp"} /\ (pc = "icmp" <=> TRUE)
    BY <1>1
  <2> QED BY <2>1, Zenon DEF BuildInv, Stages
<1>3. /\ DOMAIN content' = 0..BufferSize-1 /\ Blank(content', written')
      /\ LaidOut(content', 34, IcmpFields, BufferSize) /\ written' \subseteq 0..41
      /\ LaidOut(content', 0, EthFields, BufferSize)
      /\ LaidOut(content', 14, IpFields, BufferSize)
  BY <1>1, <1>2, HeadersWell, BehindIp, Zenon
<1>4. /\ DOMAIN val' = ValFields /\ val'["type"] = Type_into(kind) /\ val'["eth"] = val["eth"]
      /\ val'["protocol"] = val["protocol"] /\ val'["total"] = val["total"]
  <2>1. "type" \in ValFields /\ {"eth", "protocol", "total"} \subseteq ValFields \ {"type"}
    BY DEF ValFields
  <2> QED BY <1>1, <1>2, <2>1, SetVal, Zenon DEF Sized
<1>5. /\ IsArp' = IsArp /\ IsIcmp' = IsIcmp /\ payload_size' = payload_size
  BY <1>1, SamePacket, Zenon
<1>6. InnerLayers(BufferSize)'
  <2>1. EthernetLayer(BufferSize)' /\ IpLayer(BufferSize)'
    BY <1>2, <1>3, <1>4, <1>5, Zenon DEF EthernetLayer, IpLayer
  <2>2. IcmpLayer(BufferSize)'
    BY <1>1, <1>3, <1>4, <1>5, Zenon DEF IcmpLayer
  <2> QED BY <1>2, <1>5, <2>1, <2>2, Zenon DEF InnerLayers
<1>7. Sized'
  <2>1. pc \notin Parsing /\ pc' \notin Parsing
    BY <1>1 DEF Parsing
  <2> QED BY <1>1, <1>2, <1>3, <1>4, <1>5, <2>1, Zenon DEF Sized
<1>8. Stages'
  <2>1. /\ pc' # "ethernet" /\ pc' # "arp" /\ pc' # "ipv4" /\ pc' \notin {"icmp", "udp"}
        /\ pc' # "finish" /\ pc' # "done"
    BY <1>1
  <2> QED BY <1>2, <1>3, <1>5, <1>6, <2>1, Zenon DEF Stages
<1> QED BY <1>7, <1>8, Zenon DEF BuildInv

LEMMA UdpInv ==
  ASSUME BuildInv, BuildUdp
  PROVE  BuildInv'
<1>1. /\ pc = "udp" /\ Put(34, UdpFields) /\ kind' = kind /\ n' = n
      /\ val' = [val EXCEPT !["udp"] = 8 + payload_size, !["ports"] = Ports]
      /\ pc' = "payload"
  BY Zenon DEF BuildUdp
<1>2. /\ Sized /\ ~IsArp /\ ~IsIcmp /\ EthernetLayer(BufferSize) /\ IpLayer(BufferSize)
      /\ written \subseteq 0..33
  <2>1. pc \in {"icmp", "udp"} /\ (pc = "icmp" <=> FALSE)
    BY <1>1
  <2> QED BY <2>1, Zenon DEF BuildInv, Stages
<1>3. /\ DOMAIN content' = 0..BufferSize-1 /\ Blank(content', written')
      /\ LaidOut(content', 34, UdpFields, BufferSize) /\ written' \subseteq 0..41
      /\ LaidOut(content', 0, EthFields, BufferSize)
      /\ LaidOut(content', 14, IpFields, BufferSize)
  BY <1>1, <1>2, HeadersWell, BehindIp, Zenon
<1>4. /\ DOMAIN val' = ValFields /\ val'["udp"] = 8 + payload_size
      /\ val'["ports"] = Ports
      /\ val'["eth"] = val["eth"]
      /\ val'["protocol"] = val["protocol"] /\ val'["total"] = val["total"]
  <2>1. /\ "udp" \in ValFields /\ "ports" \in ValFields /\ "udp" # "ports"
        /\ {"eth", "protocol", "total"} \subseteq ValFields \ {"udp", "ports"}
    BY DEF ValFields
  <2>3. DOMAIN val = ValFields
    BY <1>2, Zenon DEF Sized
  <2>4. /\ DOMAIN val' = ValFields /\ val'["udp"] = 8 + payload_size /\ val'["ports"] = Ports
        /\ \A g \in ValFields \ {"udp", "ports"} : val'[g] = val[g]
    BY <1>1, <2>1, <2>3, Zenon
  <2> QED BY <2>1, <2>4, Zenon
<1>5. /\ IsArp' = IsArp /\ IsIcmp' = IsIcmp /\ payload_size' = payload_size
      /\ Ports' = Ports
  BY <1>1, SamePacket, SamePorts, Zenon
<1>6. InnerLayers(BufferSize)'
  <2>1. EthernetLayer(BufferSize)' /\ IpLayer(BufferSize)'
    BY <1>2, <1>3, <1>4, <1>5, Zenon DEF EthernetLayer, IpLayer
  <2>2. UdpLayer(BufferSize)'
    BY <1>1, <1>3, <1>4, <1>5, Zenon DEF UdpLayer
  <2> QED BY <1>2, <1>5, <2>1, <2>2, Zenon DEF InnerLayers
<1>7. Sized'
  <2>1. pc \notin Parsing /\ pc' \notin Parsing
    BY <1>1 DEF Parsing
  <2> QED BY <1>1, <1>2, <1>3, <1>4, <1>5, <2>1, Zenon DEF Sized
<1>8. Stages'
  <2>1. /\ pc' # "ethernet" /\ pc' # "arp" /\ pc' # "ipv4" /\ pc' \notin {"icmp", "udp"}
        /\ pc' # "finish" /\ pc' # "done"
    BY <1>1
  <2> QED BY <1>2, <1>3, <1>5, <1>6, <2>1, Zenon DEF Stages
<1> QED BY <1>7, <1>8, Zenon DEF BuildInv

LEMMA PayloadInv ==
  ASSUME BuildInv, BuildPayload
  PROVE  BuildInv'
<1>1. /\ pc = "payload" /\ Put(42, PayloadFields) /\ kind' = kind /\ n' = n /\ val' = val
      /\ pc' = "finish"
  BY Zenon DEF BuildPayload
<1>2. Sized /\ ~IsArp /\ InnerLayers(BufferSize) /\ written \subseteq 0..41
  BY <1>1, Zenon DEF BuildInv, Stages
<1> DEFINE inner == IF IsIcmp THEN IcmpFields ELSE UdpFields
<1>3. /\ DOMAIN content' = 0..BufferSize-1 /\ Blank(content', written')
      /\ LaidOut(content', 42, PayloadFields, BufferSize)
      /\ written' \subseteq 0..(42 + PayloadEnd) - 1
      /\ LaidOut(content', 0, EthFields, BufferSize)
      /\ LaidOut(content', 14, IpFields, BufferSize)
      /\ LaidOut(content', 34, inner, BufferSize)
  <2> DEFINE base == 42
             base2 == 34
  <2>0. PayloadEnd \in Nat /\ Well(PayloadFields, PayloadEnd) /\ 42 + PayloadEnd <= BufferSize
    BY <1>2, Fits, Zenon
  <2>1. /\ 0 \in Nat /\ 14 \in Nat /\ 20 \in Nat /\ 8 \in Nat /\ base \in Nat /\ base2 \in Nat
        /\ base - 1 = 41 /\ 0 + 14 <= base /\ 14 + 20 <= base /\ base2 + 8 <= base
    OBVIOUS
  <2>2. /\ LaidOut(content, 0, EthFields, BufferSize) /\ LaidOut(content, 14, IpFields, BufferSize)
        /\ LaidOut(content, base2, inner, BufferSize)
    BY <1>2, Zenon DEF InnerLayers, EthernetLayer, IpLayer, IcmpLayer, UdpLayer
  <2>3. written \subseteq 0..base-1
    BY <1>2, <2>1, Zenon
  <2>4. Put(base, PayloadFields) /\ base + PayloadEnd <= BufferSize
    BY <1>1, <2>0, Zenon
  <2> HIDE DEF base, base2
  <2>5. Well(inner, 8)
    BY HeadersWell, Zenon
  <2> HIDE DEF inner
  <2>6. /\ DOMAIN content' = 0..BufferSize-1 /\ Blank(content', written')
        /\ LaidOut(content', base, PayloadFields, BufferSize)
        /\ written' \subseteq 0..(base + PayloadEnd) - 1
        /\ \A b, m \in Nat : \A under :
             Well(under, m) /\ b + m <= base /\ LaidOut(content, b, under, BufferSize)
               => LaidOut(content', b, under, BufferSize)
    <3>1. PICK fields, size : fields = PayloadFields /\ size = PayloadEnd
      BY Zenon
    <3>2. Put(base, fields)
      BY <2>4, <3>1, Zenon DEF Put
    <3>3. /\ Sized /\ base \in Nat /\ size \in Nat /\ Well(fields, size)
          /\ base + size <= BufferSize /\ written \subseteq 0..base-1
      BY <1>2, <2>0, <2>1, <2>3, <2>4, <3>1, Zenon
    <3>4. /\ DOMAIN content' = 0..BufferSize-1 /\ Blank(content', written')
          /\ LaidOut(content', base, fields, BufferSize)
          /\ written' \subseteq 0..base + size - 1
          /\ \A b, m \in Nat : \A under :
               Well(under, m) /\ b + m <= base /\ LaidOut(content, b, under, BufferSize)
                 => LaidOut(content', b, under, BufferSize)
      BY <3>2, <3>3, Layer, Zenon
    <3>5. base + size - 1 = (base + size) - 1
      BY <3>3
    <3> QED BY <3>1, <3>4, <3>5, Zenon
  <2>7. /\ LaidOut(content', 0, EthFields, BufferSize)
        /\ LaidOut(content', 14, IpFields, BufferSize)
        /\ LaidOut(content', base2, inner, BufferSize)
    <3>1. LaidOut(content', 0, EthFields, BufferSize)
      BY <2>1, <2>2, <2>6, HeadersWell, ZenonT(30)
    <3>2. LaidOut(content', 14, IpFields, BufferSize)
      BY <2>1, <2>2, <2>6, IpWell, ZenonT(30)
    <3>3. LaidOut(content', base2, inner, BufferSize)
      BY <2>1, <2>2, <2>5, <2>6, ZenonT(30)
    <3> QED BY <3>1, <3>2, <3>3, Zenon
  <2> QED BY <2>6, <2>7, Zenon DEF base, base2
<1>5. /\ IsArp' = IsArp /\ IsIcmp' = IsIcmp /\ payload_size' = payload_size
      /\ PayloadFields' = PayloadFields /\ PayloadEnd' = PayloadEnd /\ Ports' = Ports
  BY <1>1, SamePacket, SamePorts, Zenon
<1>6. InnerLayers(BufferSize)'
  <2>1. EthernetLayer(BufferSize)' /\ IpLayer(BufferSize)'
    BY <1>1, <1>2, <1>3, <1>5, Zenon DEF InnerLayers, EthernetLayer, IpLayer
  <2>2. CASE IsIcmp
    BY <1>1, <1>2, <1>3, <1>5, <2>1, <2>2, Zenon DEF InnerLayers, IcmpLayer
  <2>3. CASE ~IsIcmp
    BY <1>1, <1>2, <1>3, <1>5, <2>1, <2>3, Zenon DEF InnerLayers, UdpLayer
  <2> QED BY <2>2, <2>3, Zenon
<1>7. Sized'
  <2>1. pc \notin Parsing /\ pc' \notin Parsing
    BY <1>1 DEF Parsing
  <2> QED BY <1>1, <1>2, <1>3, <1>5, <2>1, Zenon DEF Sized
<1>8. Stages'
  <2>1. /\ pc' # "ethernet" /\ pc' # "arp" /\ pc' # "ipv4" /\ pc' \notin {"icmp", "udp"}
        /\ pc' # "payload" /\ pc' # "done"
    BY <1>1
  <2>2. PayloadOnly'
    <3>1. written' = written \cup UNION {Span(42, f) : f \in PayloadFields}
      BY <1>1, Zenon DEF Put
    <3> QED BY <1>2, <1>5, <3>1, Zenon DEF PayloadOnly
  <2>3. WholeFrame(BufferSize)'
    BY <1>2, <1>3, <1>5, <1>6, <2>2, Zenon DEF WholeFrame
  <2> QED BY <2>1, <2>3, Zenon DEF Stages
<1> QED BY <1>7, <1>8, Zenon DEF BuildInv

\* The frame that is copied keeps the bytes of each layer that it holds.
LEMMA Copied ==
  ASSUME NEW c, NEW d, NEW top \in Nat, NEW base \in Nat, NEW size \in Nat, NEW fields,
         Well(fields, size), base + size <= BufferSize,
         \A i \in 0..BufferSize-1 : i < top => d[i] = c[i],
         LaidOut(c, base, fields, BufferSize)
  PROVE  LaidOut(d, base, fields, top)
<1> SUFFICES ASSUME NEW f \in fields, NEW i \in Span(base, f), i < top
             PROVE  d[i] = <<f[1], i - base - f[2]>>
  BY Zenon DEF LaidOut
<1>1. i \in base..base + size - 1
  BY InLayer, Zenon
<1>2. i \in 0..BufferSize-1 /\ i < BufferSize
  BY <1>1, PacketAssumption
<1> QED BY <1>2, Zenon DEF LaidOut

LEMMA FinishInv ==
  ASSUME BuildInv, Finish
  PROVE  BuildInv'
<1>1. /\ pc = "finish" /\ pc' = "done" /\ kind' = kind /\ n' = n /\ val' = val
      /\ written' = written
      /\ len' = FrameLength(IF IsArp THEN 28 ELSE 20 + ip_payload_size)
      /\ content' = [i \in DOMAIN content |-> IF i < len' THEN content[i] ELSE Zero]
  BY Zenon DEF Finish
<1>2. Sized /\ WholeFrame(BufferSize)
  BY <1>1, Zenon DEF BuildInv, Stages
<1>3. /\ payload_size \in Nat /\ PayloadEnd \in Nat /\ BufferSize \in Nat
      /\ 42 + PayloadEnd <= BufferSize /\ Well(PayloadFields, PayloadEnd)
      /\ 42 + payload_size < BufferSize
  BY <1>2, Fits, Zenon
<1>4. len' = FrameLength(IF IsArp THEN 28 ELSE 28 + payload_size) /\ len' \in Nat
  <2>1. 20 + ip_payload_size = 28 + payload_size
    BY <1>3 DEF ip_payload_size
  <2>2. len' = FrameLength(IF IsArp THEN 28 ELSE 28 + payload_size)
    BY <1>1, <2>1, Zenon
  <2>3. \A m \in Nat : FrameLength(m) \in Nat
    BY DEF FrameLength
  <2>4. 28 \in Nat /\ 28 + payload_size \in Nat
    BY <1>3
  <2> QED BY <2>2, <2>3, <2>4, Zenon
<1>5. /\ IsArp' = IsArp /\ IsIcmp' = IsIcmp /\ payload_size' = payload_size
      /\ PayloadFields' = PayloadFields /\ PayloadEnd' = PayloadEnd /\ Ports' = Ports
  BY <1>1, SamePacket, SamePorts, Zenon
<1>6. /\ DOMAIN content' = 0..BufferSize-1
      /\ \A i \in 0..BufferSize-1 : content'[i] = IF i < len' THEN content[i] ELSE Zero
  BY <1>1, <1>2, Zenon DEF Sized
<1>7. \A b, m \in Nat : \A under :
        Well(under, m) /\ b + m <= BufferSize /\ LaidOut(content, b, under, BufferSize)
          => LaidOut(content', b, under, len')
  <2>1. \A i \in 0..BufferSize-1 : i < len' => content'[i] = content[i]
    BY <1>6, Zenon
  <2>2. PICK c, d, top : c = content /\ d = content' /\ top = len'
    BY Zenon
  <2>3. ASSUME NEW b \in Nat, NEW m \in Nat, NEW under, Well(under, m), b + m <= BufferSize,
               LaidOut(content, b, under, BufferSize)
        PROVE  LaidOut(content', b, under, len')
    <3>1. /\ top \in Nat /\ LaidOut(c, b, under, BufferSize)
          /\ \A i \in 0..BufferSize-1 : i < top => d[i] = c[i]
      BY <1>4, <2>1, <2>2, <2>3, Zenon
    <3>2. LaidOut(d, b, under, top)
      BY <2>3, <3>1, Copied, Zenon
    <3> QED BY <2>2, <3>2, Zenon
  <2> QED BY <2>3, Zenon
<1>8. EthernetLayer(BufferSize) => EthernetLayer(len)'
  <2>1. 0 \in Nat /\ 14 \in Nat /\ 0 + 14 <= BufferSize
    BY <1>3
  <2> QED BY <1>1, <1>5, <1>7, <2>1, HeadersWell, Zenon DEF EthernetLayer
<1>9. ArpLayer(BufferSize) => ArpLayer(len)'
  <2>1. 14 \in Nat /\ 28 \in Nat /\ 14 + 28 <= BufferSize
    BY <1>3
  <2> QED BY <1>1, <1>5, <1>7, <2>1, ArpWell, Zenon DEF ArpLayer
<1>10. IpLayer(BufferSize) => IpLayer(len)'
  <2>1. 14 \in Nat /\ 20 \in Nat /\ 14 + 20 <= BufferSize
    BY <1>3
  <2> QED BY <1>1, <1>5, <1>7, <2>1, IpWell, Zenon DEF IpLayer
<1>11. /\ IcmpLayer(BufferSize) => IcmpLayer(len)'
       /\ UdpLayer(BufferSize) => UdpLayer(len)'
  <2>1. 34 \in Nat /\ 8 \in Nat /\ 34 + 8 <= BufferSize
    BY <1>3
  <2>2. IcmpLayer(BufferSize) => IcmpLayer(len)'
    BY <1>1, <1>5, <1>7, <2>1, HeadersWell, Zenon DEF IcmpLayer
  <2>3. UdpLayer(BufferSize) => UdpLayer(len)'
    BY <1>1, <1>5, <1>7, <2>1, HeadersWell, Zenon DEF UdpLayer
  <2> QED BY <2>2, <2>3, Zenon
<1>12. LaidOut(content, 42, PayloadFields, BufferSize) => LaidOut(content', 42, PayloadFields, len')
  <2>1. 42 \in Nat
    OBVIOUS
  <2> QED BY <1>3, <1>7, <2>1, Zenon
<1>13. WholeFrame(len)'
  <2>1. CASE IsArp
    BY <1>1, <1>2, <1>5, <1>8, <1>9, <2>1, Zenon DEF WholeFrame
  <2>2. CASE ~IsArp
    <3>1. InnerLayers(len)'
      BY <1>2, <1>5, <1>8, <1>10, <1>11, <2>2, Zenon DEF WholeFrame, InnerLayers
    <3>2. PayloadOnly'
      BY <1>1, <1>2, <1>5, <2>2, Zenon DEF WholeFrame, PayloadOnly
    <3> QED BY <1>1, <1>2, <1>5, <1>12, <2>2, <3>1, <3>2, Zenon DEF WholeFrame
  <2> QED BY <2>1, <2>2, Zenon
<1>14. Sized'
  <2>1. pc \notin Parsing /\ pc' \notin Parsing
    BY <1>1 DEF Parsing
  <2>2. Blank(content', written')
    BY <1>1, <1>2, <1>6, Zenon DEF Sized, Blank
  <2> QED BY <1>1, <1>2, <1>5, <1>6, <2>1, <2>2, Zenon DEF Sized
<1>15. Stages'
  <2>1. /\ pc' # "ethernet" /\ pc' # "arp" /\ pc' # "ipv4" /\ pc' \notin {"icmp", "udp"}
        /\ pc' # "payload" /\ pc' # "finish"
    BY <1>1
  <2>2. \A i \in 0..BufferSize-1 : i >= len' => ~(i < len')
    BY <1>3, <1>4
  <2>3. \A i \in 0..BufferSize-1 : i >= len' => content'[i] = Zero
    BY <1>6, <2>2, Zenon
  <2>4. len' = FrameLength(IF IsArp' THEN 28 ELSE 28 + payload_size')
    BY <1>4, <1>5, Zenon
  <2> QED BY <1>13, <2>1, <2>3, <2>4, Zenon DEF Stages
<1> QED BY <1>14, <1>15, Zenon DEF BuildInv

\* Nothing is built while an answer is parsed.
LEMMA ParserInv ==
  ASSUME BuildInv, try_from \/ TakeOperation \/ SkipOption \/ EndOfOptions
  PROVE  BuildInv'
<1>1. /\ kind' = kind /\ n' = n /\ content' = content /\ written' = written /\ val' = val
      /\ pc \in Parsing /\ pc' \in Parsing
  <2>1. UNCHANGED builder
    BY Zenon DEF try_from, TakeOperation, SkipOption, EndOfOptions
  <2>2. pc \in Parsing /\ pc' \in Parsing
    <3>1. CASE try_from
      BY <3>1, Zenon DEF try_from, Panics, Parsing
    <3>2. CASE TakeOperation
      BY <3>2, Zenon DEF TakeOperation, Panics, Parsing
    <3>3. CASE SkipOption
      BY <3>3 DEF SkipOption, Panics, Parsing
    <3>4. CASE EndOfOptions
      BY <3>4, Zenon DEF EndOfOptions, Panics, Parsing
    <3> QED BY <3>1, <3>2, <3>3, <3>4, Zenon
  <2> QED BY <2>1, <2>2, Zenon DEF builder
<1>2. payload_size' = payload_size
  BY <1>1, SamePacket, Zenon
<1>3. Sized'
  BY <1>1, <1>2, Zenon DEF BuildInv, Sized
<1>4. /\ pc' # "ethernet" /\ pc' # "arp" /\ pc' # "ipv4" /\ pc' \notin {"icmp", "udp"}
      /\ pc' # "payload" /\ pc' # "finish" /\ pc' # "done"
  BY <1>1 DEF Parsing
<1> QED BY <1>3, <1>4, Zenon DEF BuildInv, Stages

LEMMA BuildInit == Init => BuildInv
<1> SUFFICES ASSUME Init PROVE BuildInv
  OBVIOUS
<1>1. /\ kind \in Kinds /\ n \in (IF kind = "udp" \/ IsIcmp THEN Sizes ELSE {0})
      /\ pc = IF kind = "answer" THEN "data" ELSE "ethernet"
      /\ content = [i \in 0..BufferSize-1 |-> Zero] /\ written = {}
  BY Zenon DEF Init
<1>2. DOMAIN val = ValFields
  <2>1. val = [eth |-> <<0, 0>>, protocol |-> 0, operation |-> 0,
               type |-> <<0, 0>>, ports |-> <<0, 0>>, total |-> 0, udp |-> 0]
    BY Zenon DEF Init
  <2> QED BY <2>1 DEF ValFields
<1>3. n \in Nat /\ 42 + payload_size < BufferSize
  <2>1. /\ BufferSize \in Nat /\ Sizes \subseteq Nat
        /\ \A m \in Sizes \cup {257} : 14 + 20 + 8 + m < BufferSize
    BY PacketAssumption, Zenon
  <2>2. 299 < BufferSize /\ \A m \in Sizes : 42 + m < BufferSize
    BY <2>1
  <2>3. n \in Sizes \/ n = 0
    BY <1>1, Zenon
  <2>4. n \in Nat /\ 42 + n < BufferSize
    <3>1. CASE n \in Sizes
      BY <2>1, <2>2, <3>1, Zenon
    <3>2. CASE n = 0
      BY <2>1, <2>2, <3>2
    <3> QED BY <2>3, <3>1, <3>2, Zenon
  <2> QED BY <2>1, <2>2, <2>4 DEF payload_size
<1>4. Sized
  <2>1. kind \in AllKinds
    BY <1>1, PacketAssumption, Zenon
  <2>2. kind = "answer" <=> pc \in Parsing
    BY <1>1 DEF Parsing
  <2>3. DOMAIN content = 0..BufferSize-1 /\ Blank(content, written)
    BY <1>1, Zenon DEF Blank
  <2> QED BY <1>2, <1>3, <2>1, <2>2, <2>3, Zenon DEF Sized
<1>5. Stages
  <2>1. /\ pc # "arp" /\ pc # "ipv4" /\ pc \notin {"icmp", "udp"}
        /\ pc # "payload" /\ pc # "finish" /\ pc # "done"
    BY <1>1
  <2> QED BY <1>1, <2>1, Zenon DEF Stages
<1> QED BY <1>4, <1>5, Zenon DEF BuildInv

LEMMA BuildStep == BuildInv /\ [Next]_vars => BuildInv'
<1> SUFFICES ASSUME BuildInv, [Next]_vars PROVE BuildInv'
  OBVIOUS
<1>1. CASE UNCHANGED vars
  <2>1. /\ kind' = kind /\ n' = n /\ pc' = pc /\ content' = content /\ written' = written
        /\ val' = val /\ len' = len
    BY <1>1, Zenon DEF vars
  <2>2. /\ IsArp' = IsArp /\ IsIcmp' = IsIcmp /\ payload_size' = payload_size
        /\ PayloadFields' = PayloadFields /\ PayloadEnd' = PayloadEnd /\ Ports' = Ports
    BY <2>1, SamePacket, SamePorts, Zenon
  <2>3. Sized'
    BY <2>1, <2>2, Zenon DEF BuildInv, Sized
  <2>4. /\ EthernetLayer(BufferSize)' = EthernetLayer(BufferSize)
        /\ EthernetLayer(len)' = EthernetLayer(len)
    BY <2>1, <2>2, Zenon DEF EthernetLayer
  <2>5. /\ ArpLayer(BufferSize)' = ArpLayer(BufferSize) /\ ArpLayer(len)' = ArpLayer(len)
    BY <2>1, <2>2, Zenon DEF ArpLayer
  <2>6. /\ IpLayer(BufferSize)' = IpLayer(BufferSize) /\ IpLayer(len)' = IpLayer(len)
    BY <2>1, <2>2, Zenon DEF IpLayer
  <2>7. /\ IcmpLayer(BufferSize)' = IcmpLayer(BufferSize) /\ IcmpLayer(len)' = IcmpLayer(len)
        /\ UdpLayer(BufferSize)' = UdpLayer(BufferSize) /\ UdpLayer(len)' = UdpLayer(len)
    BY <2>1, <2>2, Zenon DEF IcmpLayer, UdpLayer
  <2>8. /\ InnerLayers(BufferSize)' = InnerLayers(BufferSize)
        /\ InnerLayers(len)' = InnerLayers(len)
    BY <2>1, <2>2, <2>4, <2>6, <2>7, Zenon DEF InnerLayers
  <2>9. /\ WholeFrame(BufferSize)' = WholeFrame(BufferSize) /\ WholeFrame(len)' = WholeFrame(len)
    <3>1. PayloadOnly' = PayloadOnly
      BY <2>1, <2>2, Zenon DEF PayloadOnly
    <3> QED BY <2>1, <2>2, <2>4, <2>5, <2>8, <3>1, Zenon DEF WholeFrame
  <2>10. Stages'
    BY <2>1, <2>2, <2>4, <2>6, <2>8, <2>9, Zenon DEF BuildInv, Stages
  <2> QED BY <2>3, <2>10, Zenon DEF BuildInv
<1> QED BY <1>1, EthernetInv, ArpInv, Ipv4Inv, IcmpInv, UdpInv, PayloadInv, FinishInv, ParserInv,
           Zenon DEF Next

-----------------------------------------------------------------------------
(* Taking the frame apart.                                                 *)

\* The dispatch of handle_packet.
LEMMA ParsedArp ==
  ASSUME EthType_from(val.eth) = "Arp", NEW name, name = Operation_from(val.operation),
         name # "dhcp"
  PROVE  Parsed.name = name /\ Parsed.reads = ({14} \X ArpReads) \cup ({0} \X EthReads) \cup {}
  BY DEF Parsed

LEMMA ParsedIcmp ==
  ASSUME EthType_from(val.eth) = "Ipv4", Protocol_from(val.protocol) = "Icmp",
         NEW name, name = Type_from(val.type), name # "dhcp"
  PROVE  /\ Parsed.name = name
         /\ Parsed.reads = (({14} \X IpReads) \cup ({34} \X IcmpReads)) \cup ({0} \X EthReads)
                            \cup {}
  BY DEF Parsed

LEMMA ParsedUdp ==
  ASSUME EthType_from(val.eth) = "Ipv4", Protocol_from(val.protocol) = "Udp",
         val.ports # <<67, 68>>
  PROVE  /\ Parsed.name = "udp"
         /\ Parsed.reads = (({14} \X IpReads) \cup ({34} \X UdpReads)) \cup ({0} \X EthReads)
                            \cup {}
  BY DEF Parsed

\* The field of the DHCP messages that is longer than what is put in it.
Chaddr == "dhcp.chaddr"

\* A field that is laid out inside the frame is read as it was written.
LEMMA FieldReads ==
  ASSUME NEW base \in Nat, NEW fields, NEW f \in fields, f[2] \in Nat, f[3] \in Nat,
         f[1] # Chaddr,
         len \in Nat, base + f[2] + f[3] <= len, LaidOut(content, base, fields, len)
  PROVE  ReadsAs(base, f)
<1> SUFFICES ASSUME NEW k \in 0..f[3]-1
             PROVE  base + f[2] + k < len /\ content[base + f[2] + k] = <<f[1], k>>
  BY Zenon DEF ReadsAs, ByteOf, Chaddr
<1> DEFINE i == base + f[2] + k
<1>1. i < len /\ i \in Span(base, f) /\ i - base - f[2] = k
  BY DEF Span
<1> HIDE DEF i
<1>2. content[i] = <<f[1], i - base - f[2]>>
  BY <1>1, Zenon DEF LaidOut
<1> QED BY <1>1, <1>2, Zenon DEF i

LEMMA LayerReads ==
  ASSUME NEW base \in Nat, NEW size \in Nat, NEW fields, Well(fields, size), len \in Nat,
         base + size <= len, LaidOut(content, base, fields, len), NEW reads \in SUBSET fields,
         \A f \in reads : f[1] # Chaddr
  PROVE  \A f \in reads : ReadsAs(base, f)
<1> SUFFICES ASSUME NEW f \in reads PROVE ReadsAs(base, f)
  OBVIOUS
<1>1. /\ f \in fields /\ f[2] \in Nat /\ f[3] \in Nat /\ f[2] + f[3] <= size /\ f[1] # Chaddr
  BY Zenon DEF Well
<1>2. base + f[2] + f[3] <= len
  BY <1>1
<1> QED BY <1>1, <1>2, FieldReads, Zenon

\* What the parsers of the headers read is among what the builders write.
Readable(reads, fields) == reads \in SUBSET fields /\ \A f \in reads : f[1] # Chaddr

LEMMA ReadsWritten ==
  /\ Readable(EthReads, EthFields) /\ Readable(ArpReads, ArpFields)
  /\ Readable(IpReads, IpFields) /\ Readable(UdpReads, UdpFields)
  /\ Readable(IcmpReads, IcmpFields)
<1>1. Readable(EthReads, EthFields)
  BY DEF EthReads, EthFields, Readable, Chaddr
<1>2. Readable(ArpReads, ArpFields)
  BY DEF ArpReads, ArpFields, Readable, Chaddr
<1>3. Readable(IpReads, IpFields)
  BY DEF IpReads, IpFields, Readable, Chaddr
<1>4. Readable(UdpReads, UdpFields) /\ Readable(IcmpReads, IcmpFields)
  BY DEF UdpReads, UdpFields, IcmpReads, IcmpFields, Readable, Chaddr
<1> QED BY <1>1, <1>2, <1>3, <1>4, Zenon

\* Data::try_from reads the fields of the message, and chaddr with what follows it,
\* where there is none.
LEMMA MessageReads ==
  /\ DhcpReads \ {<<"dhcp.chaddr", 28, 16>>} \subseteq BootpFields
  /\ \A f \in DhcpReads \ {<<"dhcp.chaddr", 28, 16>>} :
       f[1] # Chaddr /\ f[2] \in Nat /\ f[3] \in Nat /\ f[2] + f[3] <= 28
  /\ <<"dhcp.chaddr", 28, 6>> \in BootpFields
  /\ BootpFields \subseteq DiscoverFields /\ BootpFields \subseteq RequestFields
<1>1. /\ DhcpReads \ {<<"dhcp.chaddr", 28, 16>>} \subseteq BootpFields
      /\ <<"dhcp.chaddr", 28, 6>> \in BootpFields
  BY DEF DhcpReads, BootpFields
<1>2. \A f \in DhcpReads \ {<<"dhcp.chaddr", 28, 16>>} :
        f[1] # Chaddr /\ f[2] \in Nat /\ f[3] \in Nat /\ f[2] + f[3] <= 28
  BY DEF DhcpReads, Chaddr
<1>3. BootpFields \subseteq DiscoverFields /\ BootpFields \subseteq RequestFields
  BY SMT DEF DiscoverFields, RequestFields
<1> QED BY <1>1, <1>2, <1>3, Zenon

\* No field of a DHCP message lies in the rest of chaddr.
LEMMA ChaddrRest ==
  \A f \in DiscoverFields \cup RequestFields :
    f[2] \in Nat /\ f[3] \in Nat /\ (f[2] + f[3] <= 34 \/ f[2] >= 44)
  BY DEF DiscoverFields, RequestFields, BootpFields

\* The first bytes of chaddr are those of the field, the others were never written.
LEMMA ChaddrReads ==
  ASSUME len \in Nat, len >= 286, len <= BufferSize, BufferSize \in Nat,
         LaidOut(content, 42, BootpFields, len),
         PayloadFields \subseteq DiscoverFields \cup RequestFields,
         PayloadOnly, Blank(content, written)
  PROVE  ReadsAs(42, <<"dhcp.chaddr", 28, 16>>)
<1> DEFINE f == <<"dhcp.chaddr", 28, 16>>
           g == <<"dhcp.chaddr", 28, 6>>
<1>1. f[1] = "dhcp.chaddr" /\ f[2] = 28 /\ f[3] = 16
  OBVIOUS
<1>2. g[1] = "dhcp.chaddr" /\ g[2] = 28 /\ g[3] = 6 /\ g \in BootpFields
  BY MessageReads
<1> HIDE DEF f, g
<1> SUFFICES ASSUME NEW k \in 0..15
             PROVE  42 + 28 + k < len /\ content[42 + 28 + k] = ByteOf(f, k)
  BY <1>1 DEF ReadsAs, f
<1>3. PICK i : i = 42 + 28 + k
  BY Zenon
<1>4. i \in 0..BufferSize-1 /\ i < len /\ i \notin 0..41
  BY <1>3
<1>5. CASE k < Hlen
  <2>1. i \in Span(42, g) /\ i - 42 - g[2] = k
    BY <1>2, <1>3, <1>5 DEF Span, Hlen
  <2>2. content[i] = <<g[1], k>>
    BY <1>2, <1>4, <2>1, Zenon DEF LaidOut
  <2>3. ~(k >= Hlen)
    BY <1>5 DEF Hlen
  <2> QED BY <1>1, <1>2, <1>3, <1>4, <2>2, <2>3, Zenon DEF ByteOf
<1>6. CASE k >= Hlen
  <2>1. ASSUME NEW h \in PayloadFields PROVE i \notin Span(42, h)
    <3>1. h[2] \in Nat /\ h[3] \in Nat /\ (h[2] + h[3] <= 34 \/ h[2] >= 44)
      BY ChaddrRest, Zenon
    <3> QED BY <1>3, <1>6, <3>1 DEF Span, Hlen
  <2>2. i \notin written
    BY <1>4, <2>1, Zenon DEF PayloadOnly
  <2>3. content[i] = Zero
    BY <1>4, <2>2, Zenon DEF Blank
  <2> QED BY <1>1, <1>3, <1>4, <1>6, <2>3, Zenon DEF ByteOf
<1>7. k < Hlen \/ k >= Hlen
  BY DEF Hlen
<1> QED BY <1>5, <1>6, <1>7, Zenon

\* The finished frame is long enough for its layers.
LEMMA FrameLengths ==
  ASSUME BuildInv, pc = "done"
  PROVE  /\ len \in Nat /\ len >= 60 /\ len <= BufferSize
         /\ ~IsArp => len >= 42 + payload_size
         /\ ~IsArp /\ len > 60 => len = 42 + payload_size
<1>1. /\ payload_size \in Nat /\ BufferSize \in Nat /\ 42 + payload_size < BufferSize
  BY Fits, Zenon DEF BuildInv
<1>2. 60 <= BufferSize
  <2>1. 257 \in Sizes \cup {257}
    OBVIOUS
  <2>2. 14 + 20 + 8 + 257 < BufferSize
    BY <2>1, PacketAssumption, Zenon
  <2> QED BY <1>1, <2>2
<1>3. len = FrameLength(IF IsArp THEN 28 ELSE 28 + payload_size)
  BY Zenon DEF BuildInv, Stages
<1> QED BY <1>1, <1>2, <1>3 DEF FrameLength

\* The values in the headers are read back.
LEMMA HeaderValues ==
  /\ EthType_from(EthType_into("Arp")) = "Arp" /\ EthType_from(EthType_into("Ipv4")) = "Ipv4"
  /\ Protocol_from(Protocol_into("Icmp")) = "Icmp" /\ Protocol_from(Protocol_into("Udp")) = "Udp"
  /\ \A k \in {"arp_request", "arp_response"} : Operation_from(Operation_into(k)) = k
  /\ \A k \in {"echo_request", "echo_reply"} : Type_from(Type_into(k)) = k
<1>1. EthType_from(EthType_into("Arp")) = "Arp" /\ EthType_from(EthType_into("Ipv4")) = "Ipv4"
  BY DEF EthType_from, EthType_into
<1>2. Protocol_from(Protocol_into("Icmp")) = "Icmp" /\ Protocol_from(Protocol_into("Udp")) = "Udp"
  BY DEF Protocol_from, Protocol_into
<1>3. \A k \in {"arp_request", "arp_response"} : Operation_from(Operation_into(k)) = k
  BY DEF Operation_from, Operation_into
<1>4. \A k \in {"echo_request", "echo_reply"} : Type_from(Type_into(k)) = k
  BY DEF Type_from, Type_into
<1> QED BY <1>1, <1>2, <1>3, <1>4, Zenon

LEMMA InvRoundTrip == BuildInv => RoundTrip
<1> SUFFICES ASSUME BuildInv, pc = "done"
             PROVE  /\ Parsed.name = IF kind \in {"discover", "request"} THEN "udp" ELSE kind
                    /\ \A r \in Parsed.reads : ReadsAs(r[1], r[2])
                    /\ kind \in {"discover", "request"} => \A f \in DhcpReads : ReadsAs(42, f)
  BY Zenon DEF RoundTrip
<1>1. Sized /\ WholeFrame(len)
  BY Zenon DEF BuildInv, Stages
<1>2. /\ len \in Nat /\ len >= 60 /\ (~IsArp => len >= 42 + payload_size)
      /\ payload_size \in Nat
  BY <1>1, FrameLengths, Fits, Zenon
<1>3. /\ 0 \in Nat /\ 14 \in Nat /\ 20 \in Nat /\ 28 \in Nat /\ 34 \in Nat /\ 8 \in Nat
      /\ 0 + 14 <= len /\ 14 + 28 <= len /\ 14 + 20 <= len /\ 34 + 8 <= len
  BY <1>2
<1>4. EthernetLayer(len)
  BY <1>1, Zenon DEF WholeFrame, InnerLayers
<1>5. \A r \in {0} \X EthReads : ReadsAs(r[1], r[2])
  <2>1. LaidOut(content, 0, EthFields, len)
    BY <1>4, Zenon DEF EthernetLayer
  <2>2. \A f \in EthReads : ReadsAs(0, f)
    BY <1>2, <1>3, <2>1, HeadersWell, ReadsWritten, LayerReads, Zenon DEF Readable
  <2> QED BY <2>2, Zenon
<1>6. IpLayer(len) => \A r \in {14} \X IpReads : ReadsAs(r[1], r[2])
  <2>1. LaidOut(content, 14, IpFields, len) => \A f \in IpReads : ReadsAs(14, f)
    BY <1>2, <1>3, IpWell, ReadsWritten, LayerReads, Zenon DEF Readable
  <2> QED BY <2>1, Zenon DEF IpLayer
<1>7. CASE IsArp
  <2>1. /\ kind \in {"arp_request", "arp_response"} /\ kind # "dhcp"
        /\ kind \notin {"discover", "request"}
    BY <1>7 DEF IsArp
  <2>2. EthType_from(val.eth) = "Arp"
    BY <1>4, <1>7, HeaderValues, Zenon DEF EthernetLayer
  <2>3. LaidOut(content, 14, ArpFields, len) /\ Operation_from(val.operation) = kind
    BY <1>1, <1>7, <2>1, HeaderValues, Zenon DEF WholeFrame, ArpLayer
  <2>4. /\ Parsed.name = kind
        /\ Parsed.reads = ({14} \X ArpReads) \cup ({0} \X EthReads) \cup {}
    BY <2>1, <2>2, <2>3, ParsedArp, Zenon
  <2>5. \A f \in ArpReads : ReadsAs(14, f)
    BY <1>2, <1>3, <2>3, ArpWell, ReadsWritten, LayerReads, Zenon DEF Readable
  <2>6. \A r \in {14} \X ArpReads : ReadsAs(r[1], r[2])
    BY <2>5, Zenon
  <2> QED BY <1>5, <2>1, <2>4, <2>6, Zenon
<1>8. CASE IsIcmp
  <2>1. /\ kind \in {"echo_request", "echo_reply"} /\ kind \notin {"discover", "request"}
        /\ kind # "dhcp" /\ ~IsArp
    BY <1>8 DEF IsIcmp, IsArp
  <2>2. IpLayer(len) /\ IcmpLayer(len)
    BY <1>1, <1>8, <2>1, Zenon DEF WholeFrame, InnerLayers
  <2>3. EthType_from(val.eth) = "Ipv4" /\ Protocol_from(val.protocol) = "Icmp"
    BY <1>4, <1>8, <2>1, <2>2, HeaderValues, Zenon DEF EthernetLayer, IpLayer
  <2>4. LaidOut(content, 34, IcmpFields, len) /\ Type_from(val.type) = kind
    BY <2>1, <2>2, HeaderValues, Zenon DEF IcmpLayer
  <2>5. /\ Parsed.name = kind
        /\ Parsed.reads = (({14} \X IpReads) \cup ({34} \X IcmpReads)) \cup ({0} \X EthReads)
                           \cup {}
    BY <2>1, <2>3, <2>4, ParsedIcmp, Zenon
  <2>6. \A f \in IcmpReads : ReadsAs(34, f)
    BY <1>2, <1>3, <2>4, HeadersWell, ReadsWritten, LayerReads, Zenon DEF Readable
  <2>7. \A r \in {34} \X IcmpReads : ReadsAs(r[1], r[2])
    BY <2>6, Zenon
  <2> QED BY <1>5, <1>6, <2>1, <2>2, <2>5, <2>7, Zenon
<1>9. CASE ~IsArp /\ ~IsIcmp
  <2>1. kind \in {"udp", "discover", "request"}
    <3>1. kind # "answer"
      <4>1. pc \notin Parsing
        BY DEF Parsing
      <4> QED BY <1>1, <4>1, Zenon DEF Sized
    <3>2. kind \in AllKinds
      BY <1>1, Zenon DEF Sized
    <3> QED BY <1>9, <3>1, <3>2 DEF IsArp, IsIcmp, AllKinds
  <2>2. IpLayer(len) /\ UdpLayer(len) /\ LaidOut(content, 42, PayloadFields, len)
    BY <1>1, <1>9, Zenon DEF WholeFrame, InnerLayers
  <2>3. EthType_from(val.eth) = "Ipv4" /\ Protocol_from(val.protocol) = "Udp"
    BY <1>4, <1>9, <2>2, HeaderValues, Zenon DEF EthernetLayer, IpLayer
  <2>4. LaidOut(content, 34, UdpFields, len) /\ val.ports = Ports
    BY <2>2, Zenon DEF UdpLayer
  <2>5. val.ports # <<67, 68>>
    BY <2>4 DEF Ports
  <2>6. /\ Parsed.name = "udp"
        /\ Parsed.reads = (({14} \X IpReads) \cup ({34} \X UdpReads)) \cup ({0} \X EthReads)
                           \cup {}
    BY <2>3, <2>5, ParsedUdp
  <2>7. \A f \in UdpReads : ReadsAs(34, f)
    BY <1>2, <1>3, <2>4, HeadersWell, ReadsWritten, LayerReads, Zenon DEF Readable
  <2>8. \A r \in {34} \X UdpReads : ReadsAs(r[1], r[2])
    BY <2>7, Zenon
  <2>9. ASSUME kind \in {"discover", "request"}, NEW f \in DhcpReads PROVE ReadsAs(42, f)
    <3>1. PayloadFields \in {DiscoverFields, RequestFields} /\ payload_size >= 244
      BY <2>9 DEF PayloadFields, payload_size
    <3>2. BootpFields \subseteq PayloadFields
      BY <3>1, MessageReads, Zenon
    <3>3. CASE f = <<"dhcp.chaddr", 28, 16>>
      <4>1. LaidOut(content, 42, BootpFields, len) /\ PayloadOnly /\ Blank(content, written)
        BY <1>1, <1>9, <2>2, <3>2, Zenon DEF LaidOut, WholeFrame, Sized
      <4>2. PayloadFields \subseteq DiscoverFields \cup RequestFields
        BY <3>1, Zenon
      <4>3. len >= 286 /\ len <= BufferSize
        BY <1>2, <1>9, <3>1, FrameLengths
      <4>4. BufferSize \in Nat
        BY <1>1, Fits, Zenon
      <4> QED BY <1>2, <3>3, <4>1, <4>2, <4>3, <4>4, ChaddrReads, Zenon
    <3>4. CASE f # <<"dhcp.chaddr", 28, 16>>
      <4>1. /\ f \in PayloadFields /\ f[1] # Chaddr
            /\ f[2] \in Nat /\ f[3] \in Nat /\ f[2] + f[3] <= 28
        BY <2>9, <3>2, <3>4, MessageReads, Zenon
      <4>2. 42 \in Nat /\ 42 + f[2] + f[3] <= len
        BY <1>2, <1>9, <3>1, <4>1
      <4>3. PICK fields : fields = PayloadFields
        BY Zenon
      <4> QED BY <1>2, <2>2, <4>1, <4>2, <4>3, FieldReads, Zenon
    <3> QED BY <3>3, <3>4, Zenon
  <2>10. Parsed.name = IF kind \in {"discover", "request"} THEN "udp" ELSE kind
    BY <2>1, <2>6, Zenon
  <2> QED BY <1>5, <1>6, <2>2, <2>6, <2>8, <2>9, <2>10, Zenon
<1> QED BY <1>7, <1>8, <1>9, Zenon

LEMMA InvLengthsAgree == BuildInv => LengthsAgree
<1> SUFFICES ASSUME BuildInv, pc = "done"
             PROVE  /\ len >= 60 /\ (kind # "request" => \A i \in written : i < len)
                    /\ ~IsArp =>
                         /\ ~IsIcmp => val.total = 20 + val.udp
                         /\ 14 + val.total <= len
                         /\ \A i \in 42..14 + val.total - 1 :
                              kind = "udp" \/ IsIcmp => content[i] = <<"payload", i - 42>>
                         /\ \A i \in 14 + val.total..len - 1 : content[i] = Zero
  BY Zenon DEF LengthsAgree
<1>1. Sized /\ WholeFrame(len)
  BY Zenon DEF BuildInv, Stages
<1>2. /\ len \in Nat /\ len >= 60 /\ len <= BufferSize /\ BufferSize \in Nat
      /\ (~IsArp => len >= 42 + payload_size)
      /\ (~IsArp /\ len > 60 => len = 42 + payload_size)
      /\ payload_size \in Nat /\ PayloadEnd \in Nat
      /\ (kind # "request" => PayloadEnd = payload_size)
  BY <1>1, FrameLengths, Fits, Zenon
<1>3. ASSUME kind # "request", NEW i \in written PROVE i < len
  <2>1. CASE IsArp
    <3>1. i \in 0..42-1
      BY <1>1, <1>3, <2>1, Zenon DEF WholeFrame
    <3> QED BY <1>2, <3>1
  <2>2. CASE ~IsArp
    <3>1. i \in 0..(42 + PayloadEnd)-1
      BY <1>1, <1>3, <2>2, Zenon DEF WholeFrame
    <3> QED BY <1>2, <1>3, <2>2, <3>1
  <2> QED BY <2>1, <2>2, Zenon
<1>4. ASSUME ~IsArp
      PROVE  /\ ~IsIcmp => val.total = 20 + val.udp
             /\ 14 + val.total <= len
             /\ \A i \in 42..14 + val.total - 1 :
                  kind = "udp" \/ IsIcmp => content[i] = <<"payload", i - 42>>
             /\ \A i \in 14 + val.total..len - 1 : content[i] = Zero
  <2>1. /\ val.total = 28 + payload_size
        /\ LaidOut(content, 42, PayloadFields, len)
        /\ written \subseteq 0..(42 + PayloadEnd) - 1
    BY <1>1, <1>4, Zenon DEF WholeFrame, InnerLayers, IpLayer
  <2>2. ~IsIcmp => val.udp = 8 + payload_size
    BY <1>1, <1>4, Zenon DEF WholeFrame, InnerLayers, UdpLayer
  <2>3. ~IsIcmp => val.total = 20 + val.udp
    BY <1>2, <2>1, <2>2
  <2>4. 14 + val.total = 42 + payload_size
    BY <1>2, <2>1
  <2>5. ASSUME NEW i \in 42..14 + val.total - 1, kind = "udp" \/ IsIcmp
        PROVE  content[i] = <<"payload", i - 42>>
    <3>1. kind # "discover" /\ kind # "request"
      BY <2>5 DEF IsIcmp
    <3>2. payload_size = n /\ PayloadFields = {<<"payload", 0, n>>}
      BY <3>1 DEF payload_size, PayloadFields
    <3> DEFINE f == <<"payload", 0, n>>
    <3>3. f[1] = "payload" /\ f[2] = 0 /\ f[3] = n
      OBVIOUS
    <3>4. f \in PayloadFields
      BY <3>2, Zenon
    <3> HIDE DEF f
    <3>5. i \in 42..42 + payload_size - 1 /\ i < len
      BY <1>2, <1>4, <2>1, <2>4, <2>5
    <3>6. i \in Span(42, f) /\ i - 42 - f[2] = i - 42
      BY <1>2, <3>2, <3>3, <3>5 DEF Span
    <3>7. content[i] = <<f[1], i - 42 - f[2]>>
      BY <2>1, <3>4, <3>5, <3>6, Zenon DEF LaidOut
    <3> QED BY <3>3, <3>6, <3>7, Zenon
  <2>6. ASSUME NEW i \in 14 + val.total..len - 1 PROVE content[i] = Zero
    <3>1. i \in 42 + payload_size..len - 1 /\ i \in 0..BufferSize-1
      BY <1>2, <2>4, <2>6
    <3>2. kind # "request"
      <4>1. kind = "request" => payload_size = 257
        BY DEF payload_size
      <4> QED BY <1>2, <1>4, <3>1, <4>1
    <3>3. i \notin 0..(42 + PayloadEnd) - 1
      BY <1>2, <3>1, <3>2
    <3>4. Blank(content, written)
      BY <1>1, Zenon DEF Sized
    <3> QED BY <2>1, <3>1, <3>3, <3>4, Zenon DEF Blank
  <2> QED BY <1>2, <1>4, <2>1, <2>3, <2>4, <2>5, <2>6, Zenon
<1> QED BY <1>2, <1>3, <1>4, Zenon

LEMMA InvOperation == Walk => OperationFound
<1> SUFFICES ASSUME Walk, NEW t \in DOMAIN answer, Behind(answer, t)
             PROVE  /\ pc # "panicked"
                    /\ pc = "parsed" => Operation(raw_op) = Operation(answer[t].value[1])
  BY Zenon DEF OperationFound, Behind
<1>1. Walked(t)
  BY Zenon DEF Walk
<1> QED BY <1>1, Zenon DEF Walked

LEMMA WalkStep == Walk /\ [Next]_vars => Walk'
<1> SUFFICES ASSUME Walk, [Next]_vars PROVE Walk'
  OBVIOUS
<1>1. CASE UNCHANGED vars
  BY <1>1, Zenon DEF vars, Walk, Walked
<1> QED BY <1>1, BuilderWalk, ParserWalk, Zenon DEF Next

-----------------------------------------------------------------------------
(* The results.                                                            *)

\* Whatever options an answer has, Data::try_from finds the operation that the
\* server wrote, unless a pad or an option without a value comes before it: the
\* walk never stops inside an option.
THEOREM OperationRight == Spec => []OperationFound
<1>1. Spec => []Walk
  BY WalkInit, WalkStep, PTL DEF Spec
<1> QED BY <1>1, InvOperation, PTL

\* The nested builders lay out the layers one behind the other, and the values
\* in each header say what is inside it.
THEOREM BuildInvariant == Spec => []BuildInv
  BY BuildInit, BuildStep, PTL DEF Spec

\* handle_packet takes a frame for what the builders made it, and the parsers
\* read each field where its builder wrote it; the chaddr of a DHCP message, of
\* which 16 bytes are read and six are written, ends with zeros.
THEOREM ReadsWhatWasWritten == Spec => []RoundTrip
  BY BuildInvariant, InvRoundTrip, PTL

\* The lengths that the builders write, each from a call of its own of
\* payload_size, agree with each other and with the length of the frame, for a
\* payload of every size.
THEOREM LengthsRight == Spec => []LengthsAgree
  BY BuildInvariant, InvLengthsAgree, PTL

-----------------------------------------------------------------------------
(* The checksum.                                                           *)

Carries == Nat

\* The two sums agree modulo M - 1, and vanish together.
Congruent ==
  /\ \E k \in Carries : sum = ones + k * (M - 1)
  /\ sum = 0 <=> ones = 0

Finished ==
  /\ state = "done" /\ raw_checksum + overflows < M =>
        checksum = M - 1 - (raw_checksum + overflows)
  /\ state = "panicked" => raw_checksum + overflows >= M

ChecksumInv ==
  /\ ChecksumTypeOK
  /\ sum <= pos * (M - 1)
  /\ Congruent
  /\ Finished

\* A product with k + 1 is one summand more.
LEMMA OneMore ==
  ASSUME NEW k \in Int, NEW m \in Int
  PROVE  (k + 1) * m = k * m + m
  OBVIOUS

\* Products keep the order of their first factor.
LEMMA ProductOrder ==
  ASSUME NEW a \in Nat, NEW b \in Nat, NEW m \in Nat, a <= b
  PROVE  a * m <= b * m
<1>1. PICK d \in Nat : b = a + d
  BY SMT
<1>2. b * m = a * m + d * m
  BY <1>1, SMT
<1>3. d * m \in Nat /\ a * m \in Nat
  BY SMT
<1> QED BY <1>2, <1>3, SMT

\* Two numbers of 1..m that agree modulo m are equal.
LEMMA SameResidue ==
  ASSUME NEW m \in Nat, m >= 1, NEW a \in 1..m, NEW b \in 1..m,
         NEW j \in Nat, NEW k \in Nat, a + j * m = b + k * m
  PROVE  a = b
<1>1. CASE j = k
  BY <1>1, SMT
<1>2. CASE j > k
  <2>1. (k + 1) * m <= j * m
    BY <1>2, ProductOrder, SMT
  <2>2. (k + 1) * m = k * m + m /\ k * m \in Int /\ j * m \in Int
    BY OneMore, SMT
  <2> QED BY <2>1, <2>2, SMT
<1>3. CASE k > j
  <2>1. (j + 1) * m <= k * m
    BY <1>3, ProductOrder, SMT
  <2>2. (j + 1) * m = j * m + m /\ k * m \in Int /\ j * m \in Int
    BY OneMore, SMT
  <2> QED BY <2>1, <2>2, SMT
<1> QED BY <1>1, <1>2, <1>3, SMT

\* Folding the halves of a number takes a multiple of m - 1 away.
LEMMA FoldHalves ==
  ASSUME NEW m \in Nat, m >= 2, NEW s \in Nat
  PROVE  /\ s \div m \in Nat /\ s % m \in 0..m-1
         /\ s = ((s % m) + (s \div m)) + (s \div m) * (m - 1)
         /\ (s % m) + (s \div m) = 0 <=> s = 0
<1>1. s \div m \in Int /\ s % m \in 0..m-1 /\ s = m * (s \div m) + (s % m)
  BY SMT
<1> DEFINE q == s \div m
<1> DEFINE r == s % m
<1>2. q \in Int /\ r \in 0..m-1 /\ s = m * q + r
  BY <1>1
<1> HIDE DEF q, r
<1>3. q >= 0
  <2> SUFFICES ASSUME q < 0 PROVE FALSE
    BY <1>2, SMT
  <2>1. PICK p \in Nat : q = -1 - p
    <3>1. -1 - q \in Nat /\ q = -1 - (-1 - q)
      BY <1>2, SMT
    <3> QED BY <3>1
  <2>2. m * q = -m - m * p /\ m * p \in Nat
    BY <2>1, SMT
  <2> QED BY <1>2, <2>2, SMT
<1>4. q * (m - 1) = m * q - q
  BY <1>2, SMT
<1>5. m * q \in Nat
  BY <1>2, <1>3, SMT
<1>6. s = (r + q) + q * (m - 1)
  BY <1>2, <1>4, <1>5, SMT
<1>7. s = 0 => r + q = 0
  <2> SUFFICES ASSUME s = 0 PROVE r + q = 0
    OBVIOUS
  <2>1. m * q = 0 /\ r = 0
    BY <1>2, <1>5, SMT
  <2>2. q <= m * q
    <3>1. q * 1 <= q * m
      BY <1>2, <1>3, ProductOrder, SMT
    <3> QED BY <3>1, <1>2, SMT
  <2> QED BY <2>1, <2>2, <1>2, <1>3, SMT
<1>8. r + q = 0 => s = 0
  <2> SUFFICES ASSUME r + q = 0 PROVE s = 0
    OBVIOUS
  <2>1. q = 0 /\ r = 0
    BY <1>2, <1>3, SMT
  <2> QED BY <2>1, <1>2, SMT
<1> QED BY <1>2, <1>3, <1>6, <1>7, <1>8 DEF q, r

\* The words that are added fit the accumulator.
LEMMA AccumulatorFits ==
  ASSUME NEW p \in 0..N
  PROVE  p * (M - 1) < M * M
<1>1. M \in Nat /\ M >= 2 /\ N \in Nat /\ N <= M
  BY SizeAssumption, SMT
<1>2. p * (M - 1) <= M * (M - 1)
  BY <1>1, ProductOrder, SMT
<1>3. M * (M - 1) = M * M - M /\ M * M \in Int
  BY <1>1, SMT
<1> QED BY <1>1, <1>2, <1>3, SMT

\* No word is added yet: both sums are 0.
LEMMA InitChecksum == ChecksumInit => ChecksumInv
<1> SUFFICES ASSUME ChecksumInit PROVE ChecksumInv
  OBVIOUS
<1>1. M \in Nat /\ M >= 2 /\ N \in Nat /\ N >= 1
  BY SizeAssumption, SMT
<1>2. M * M > 0
  BY <1>1, SMT
<1>3. ChecksumTypeOK
  BY <1>1, <1>2, SMT DEF ChecksumInit, ChecksumTypeOK, Words
<1>4. sum <= pos * (M - 1)
  BY <1>1, SMT DEF ChecksumInit
<1>5. Congruent
  <2>1. 0 \in Carries /\ sum = ones + 0 * (M - 1)
    BY <1>1, SMT DEF ChecksumInit, Carries
  <2> QED BY <2>1 DEF Congruent, ChecksumInit
<1>6. Finished
  BY DEF ChecksumInit, Finished
<1> QED BY <1>3, <1>4, <1>5, <1>6 DEF ChecksumInv

\* One word is added to both sums; a carry of the one's complement sum is one
\* more M - 1 between them.
LEMMA AddChecksum ==
  ASSUME ChecksumInv, NEW w \in Words, Add(w)
  PROVE  ChecksumInv'
<1>1. M \in Nat /\ M >= 2 /\ N \in Nat /\ w \in 0..M-1
  BY SizeAssumption, SMT DEF Words
<1>2. pos \in 0..N /\ sum \in Nat /\ ones \in 0..M-1 /\ checksum \in Words
  BY SMT DEF ChecksumInv, ChecksumTypeOK, Words
<1>3. state = "add" /\ pos < N /\ sum' = sum + w /\ pos' = pos + 1
      /\ checksum' = checksum /\ state' = state /\ ones' = OnesAdd(ones, w)
  BY DEF Add
<1>4. sum' <= pos' * (M - 1)
  <2>1. (pos + 1) * (M - 1) = pos * (M - 1) + (M - 1) /\ pos * (M - 1) \in Int
    BY <1>1, <1>2, OneMore, SMT
  <2> QED BY <1>1, <1>2, <1>3, <2>1, SMT DEF ChecksumInv
<1>5. pos' \in 0..N
  BY <1>1, <1>2, <1>3, SMT
<1>6. sum' \in 0..M*M-1
  <2>1. pos' * (M - 1) < M * M
    BY <1>5, AccumulatorFits
  <2>2. M * M \in Int /\ pos' * (M - 1) \in Int
    BY <1>1, <1>5, SMT
  <2> QED BY <1>1, <1>2, <1>3, <1>4, <2>1, <2>2, SMT
<1>7. ones' \in 0..M-1
  BY <1>1, <1>2, <1>3, SMT DEF OnesAdd
<1>8. ChecksumTypeOK'
  BY <1>2, <1>3, <1>5, <1>6, <1>7 DEF ChecksumTypeOK, Words
<1>9. \E k \in Carries : sum' = ones' + k * (M - 1)
  <2>1. PICK k \in Carries : sum = ones + k * (M - 1)
    BY DEF ChecksumInv, Congruent
  <2>2. k * (M - 1) \in Int /\ (k + 1) * (M - 1) = k * (M - 1) + (M - 1)
    BY <1>1, OneMore, SMT DEF Carries
  <2>3. CASE ones + w < M
    <3>1. sum' = ones' + k * (M - 1)
      BY <1>1, <1>2, <1>3, <2>1, <2>2, <2>3, SMT DEF OnesAdd
    <3> QED BY <3>1
  <2>4. CASE ~(ones + w < M)
    <3>1. sum' = ones' + (k + 1) * (M - 1)
      BY <1>1, <1>2, <1>3, <2>1, <2>2, <2>4, SMT DEF OnesAdd
    <3>2. k + 1 \in Carries
      BY SMT DEF Carries
    <3> QED BY <3>1, <3>2
  <2> QED BY <2>3, <2>4
<1>10. sum' = 0 <=> ones' = 0
  BY <1>1, <1>2, <1>3, SMT DEF OnesAdd, ChecksumInv, Congruent
<1>11. Finished'
  BY <1>3 DEF Finished
<1> QED BY <1>4, <1>8, <1>9, <1>10, <1>11 DEF ChecksumInv, Congruent

\* The sums are left as they are, and the checksum is their folded complement.
LEMMA ComplementChecksum ==
  ASSUME ChecksumInv, Complement
  PROVE  ChecksumInv'
<1>1. M \in Nat /\ M >= 2
  BY SizeAssumption, SMT
<1>2. sum \in Nat /\ pos' = pos /\ sum' = sum /\ ones' = ones
  BY SMT DEF ChecksumInv, ChecksumTypeOK, Complement
<1>3. overflows \in Nat /\ raw_checksum \in 0..M-1
  BY <1>1, <1>2, FoldHalves, ZenonT(40) DEF overflows, raw_checksum
<1>4. overflows' = overflows /\ raw_checksum' = raw_checksum
  BY <1>2 DEF overflows, raw_checksum
<1> HIDE DEF overflows, raw_checksum
<1>5. CASE raw_checksum + overflows < M
  <2>1. checksum' = M - 1 - (raw_checksum + overflows) /\ state' = "done"
    BY <1>1, <1>3, <1>5, SMT DEF Complement
  <2>2. checksum' \in Words
    BY <1>1, <1>3, <1>5, <2>1, SMT DEF Words
  <2>3. Finished'
    BY <1>4, <2>1 DEF Finished
  <2> QED BY <1>2, <2>1, <2>2, <2>3 DEF ChecksumInv, ChecksumTypeOK, Congruent
<1>6. CASE ~(raw_checksum + overflows < M)
  <2>1. raw_checksum + overflows >= M /\ raw_checksum + overflows \in Nat
    BY <1>1, <1>3, <1>6, SMT
  <2>2. (raw_checksum + overflows) % M \in 0..M-1
    BY <1>1, <2>1, SMT
  <2>3. \/ checksum' = M - 1 - ((raw_checksum + overflows) % M) /\ state' = "done"
        \/ state' = "panicked" /\ checksum' = checksum
    BY <1>6 DEF Complement
  <2>4. checksum' \in Words /\ state' \in {"add", "done", "panicked"}
    BY <1>1, <2>2, <2>3, SMT DEF Words, ChecksumInv, ChecksumTypeOK
  <2>5. Finished'
    BY <1>4, <1>6, <2>1 DEF Finished
  <2> QED BY <1>2, <2>4, <2>5 DEF ChecksumInv, ChecksumTypeOK, Congruent
<1> QED BY <1>5, <1>6

\* The accumulator agrees with the one's complement sum modulo M - 1
\* throughout (the loop of set_checksum and of the ICMP finish).
THEOREM ChecksumInvariant == ChecksumSpec => []ChecksumInv
<1>1. ChecksumInv /\ [ChecksumNext]_checksumVars => ChecksumInv'
  <2> SUFFICES ASSUME ChecksumInv, [ChecksumNext]_checksumVars PROVE ChecksumInv'
    OBVIOUS
  <2>1. ASSUME NEW w \in Words, Add(w) PROVE ChecksumInv'
    BY <2>1, AddChecksum
  <2>2. CASE Complement
    BY <2>2, ComplementChecksum
  <2>3. CASE UNCHANGED checksumVars
    BY <2>3 DEF checksumVars, ChecksumInv, ChecksumTypeOK, Congruent, Finished, overflows,
                raw_checksum
  <2> QED BY <2>1, <2>2, <2>3 DEF ChecksumNext
<1> QED BY InitChecksum, <1>1, PTL DEF ChecksumSpec

\* The accumulator of set_checksum holds every sum, and the words have their
\* width.
THEOREM TypeCorrect == ChecksumSpec => []ChecksumTypeOK
<1>1. ChecksumInv => ChecksumTypeOK
  BY DEF ChecksumInv
<1> QED BY <1>1, ChecksumInvariant, PTL

\* The invariant gives the property: a folded sum that fits a word is the
\* one's complement sum.
LEMMA FoldIsOnes ==
  ASSUME ChecksumInv, raw_checksum + overflows < M
  PROVE  raw_checksum + overflows = ones
<1>1. M \in Nat /\ M >= 2 /\ M - 1 \in Nat /\ M - 1 >= 1
  BY SizeAssumption, SMT
<1>2. sum \in Nat /\ ones \in 0..M-1
  BY SMT DEF ChecksumInv, ChecksumTypeOK, Words
<1>3. /\ overflows \in Nat /\ raw_checksum \in 0..M-1
      /\ sum = (raw_checksum + overflows) + overflows * (M - 1)
      /\ raw_checksum + overflows = 0 <=> sum = 0
  BY <1>1, <1>2, FoldHalves, ZenonT(40) DEF overflows, raw_checksum
<1>4. PICK k \in Nat : sum = ones + k * (M - 1)
  BY DEF ChecksumInv, Congruent, Carries
<1>5. sum = 0 <=> ones = 0
  BY DEF ChecksumInv, Congruent
<1> HIDE DEF overflows, raw_checksum
<1>6. CASE sum = 0
  BY <1>3, <1>5, <1>6
<1>7. CASE sum # 0
  <2>1. raw_checksum + overflows \in 1..M-1 /\ ones \in 1..M-1
    BY <1>1, <1>2, <1>3, <1>5, <1>7, SMT
  <2> DEFINE a == raw_checksum + overflows
  <2> DEFINE m == M - 1
  <2>2. a \in 1..m /\ ones \in 1..m /\ m \in Nat /\ m >= 1
    BY <1>1, <2>1
  <2>3. a + overflows * m = ones + k * m
    BY <1>3, <1>4
  <2> HIDE DEF a, m
  <2>4. a = ones
    BY <1>3, <2>2, <2>3, SameResidue
  <2> QED BY <2>4 DEF a
<1> QED BY <1>6, <1>7

\* For words of every width: when adding the carries carries no further, the
\* receiver accepts the checksum that set_checksum computes.
THEOREM ChecksumRight == ChecksumSpec => []CorrectUnlessCarry
<1>1. ChecksumInv => CorrectUnlessCarry
  <2> SUFFICES ASSUME ChecksumInv, raw_checksum + overflows < M
               PROVE  state # "panicked" /\ (state = "done" => Accepted)
    BY DEF CorrectUnlessCarry
  <2>1. M \in Nat /\ M >= 2 /\ ones \in 0..M-1
    BY SizeAssumption, SMT DEF ChecksumInv, ChecksumTypeOK, Words
  <2>2. raw_checksum + overflows = ones
    BY FoldIsOnes
  <2>3. state # "panicked"
    BY <2>1, <2>2, SMT DEF ChecksumInv, Finished
  <2>4. state = "done" => checksum = M - 1 - ones
    BY <2>2 DEF ChecksumInv, Finished
  <2>5. state = "done" => Accepted
    BY <2>1, <2>4, SMT DEF Accepted, OnesAdd
  <2> QED BY <2>3, <2>5
<1> QED BY <1>1, ChecksumInvariant, PTL
=============================================================================
