--------------------------- MODULE FirmwareProofs ---------------------------
(***************************************************************************)
(* Proofs about what start-up takes from the firmware and the boot loader: *)
(* the frames that back the heap, for every memory map, and the walk over  *)
(* the ACPI tables, for every root table.  HeapInv and AcpiInv are the     *)
(* inductive invariants; what holds of every position of a list follows by *)
(* induction over its length, from UpTo.                                   *)
(***************************************************************************)
EXTENDS HeapSetup, AcpiTables, TLAPS, WellFoundedInduction

\* A set of numbers that is not empty has a least element.
LEMMA LeastElement ==
  ASSUME NEW T, T \subseteq Nat, T # {}
  PROVE  \E x \in T : \A y \in T : x <= y
<1> DEFINE R == {ss \in Nat \X Nat : ss[1] < ss[2]}
<1>0. OpToRel(<, Nat) = R
  BY Zenon DEF OpToRel
<1>2. IsWellFoundedOn(R, Nat)
  BY <1>0, NatLessThanWellFounded, Zenon
<1>1. \E x \in T : \A y \in T : ~(<<y, x>> \in R)
  <2> HIDE DEF R
  <2> QED BY <1>2, WFMin, Zenon
<1>3. ASSUME NEW x \in Nat, NEW y \in Nat, ~(<<y, x>> \in R) PROVE x <= y
  <2>1. <<y, x>> \in Nat \X Nat /\ <<y, x>>[1] = y /\ <<y, x>>[2] = x
    OBVIOUS
  <2>2. ~(y < x)
    BY <1>3, <2>1
  <2> QED BY <2>2
<1> HIDE DEF R
<1>4. PICK x \in T : \A y \in T : ~(<<y, x>> \in R)
  BY <1>1, Zenon
<1>5. ASSUME NEW y \in T PROVE x <= y
  <2>1. x \in Nat /\ y \in Nat
    BY Zenon
  <2> QED BY <1>3, <1>4, <2>1, Zenon
<1> QED BY <1>5, Zenon

\* Induction over the numbers up to n: a set that has 0, and with a number also
\* the next one, has them all.
LEMMA UpTo ==
  ASSUME NEW n \in Nat, NEW T, 0 \in T,
         \A i \in 0..n-1 : i \in T => i + 1 \in T
  PROVE  0..n \subseteq T
<1> SUFFICES ASSUME ~(0..n \subseteq T) PROVE FALSE
  OBVIOUS
<1> DEFINE U == {i \in 0..n : i \notin T}
<1>1. U \subseteq Nat /\ U # {}
  OBVIOUS
<1>2. PICK x \in U : \A y \in U : x <= y
  <2> HIDE DEF U
  <2> QED BY <1>1, LeastElement, Zenon
<1>3. x \in 1..n /\ x \notin T
  OBVIOUS
<1>4. x - 1 \in 0..n-1 /\ (x - 1) + 1 = x
  BY <1>3
<1>5. x - 1 \in T
  BY <1>2, <1>4
<1> QED BY <1>3, <1>4, <1>5

\* The elements of a sequence.
LEMMA Element ==
  ASSUME NEW S, NEW s \in Seq(S)
  PROVE  Len(s) \in Nat /\ DOMAIN s = 1..Len(s) /\ \A k \in 1..Len(s) : s[k] \in S
  OBVIOUS

-----------------------------------------------------------------------------
(* HeapSetup: the frame allocator and init_heap.                           *)

\* Frame numbers of addresses at a frame boundary, rounded down and up.
LEMMA Quotient ==
  ASSUME NEW a \in Nat, NEW d \in Nat \ {0}
  PROVE  (a * d) \div d = a /\ (a * d + d - 1) \div d = a
  OBVIOUS

\* An address at a frame boundary is its frame number times the frame size.
LEMMA Divides ==
  ASSUME NEW x \in Nat, NEW d \in Nat \ {0}, x % d = 0
  PROVE  x \div d \in Nat /\ x = (x \div d) * d
  OBVIOUS

\* The frames of a region that is aligned are numbered on from its first.
LEMMA RegionFrames ==
  ASSUME NEW r, r.start \in Nat, r.end \in Nat, FrameSize \in Nat \ {0},
         r.start % FrameSize = 0, r.end % FrameSize = 0, r.start < r.end
  PROVE  \E a, b \in Nat :
           /\ a < b /\ r.start = a * FrameSize /\ r.end = b * FrameSize
           /\ FramesOf(r) = [k \in 1..b-a |-> a + (k - 1)]
<1> DEFINE a == r.start \div FrameSize
           b == r.end \div FrameSize
<1>1. a \in Nat /\ r.start = a * FrameSize
  BY Divides, Zenon
<1>2. b \in Nat /\ r.end = b * FrameSize
  BY Divides, Zenon
<1> HIDE DEF a, b
<1>3. a < b
  <2>1. ASSUME NEW x \in Nat, NEW y \in Nat, NEW d \in Nat \ {0}, x * d < y * d PROVE x < y
    BY <2>1
  <2> QED BY <1>1, <1>2, <2>1, Zenon
<1>4. (r.end - r.start + FrameSize - 1) \div FrameSize = b - a
  <2>1. b - a \in Nat
    BY <1>1, <1>2, <1>3
  <2>2. ASSUME NEW x \in Nat, NEW y \in Nat, NEW d \in Nat \ {0}
        PROVE  y * d - x * d + d - 1 = (y - x) * d + d - 1
    OBVIOUS
  <2>3. r.end - r.start + FrameSize - 1 = (b - a) * FrameSize + FrameSize - 1
    <3>1. b * FrameSize - a * FrameSize + FrameSize - 1 = (b - a) * FrameSize + FrameSize - 1
      BY <1>1, <1>2, <2>2
    <3> QED BY <1>1, <1>2, <3>1, Zenon
  <2> QED BY <2>1, <2>3, Quotient, Zenon
<1>5. ASSUME NEW k \in 1..b-a
      PROVE  (r.start + (k - 1) * FrameSize) \div FrameSize = a + (k - 1)
  <2>1. a + (k - 1) \in Nat
    BY <1>1, <1>2
  <2>2. ASSUME NEW x \in Nat, NEW y \in Int, NEW d \in Nat \ {0}
        PROVE  x * d + y * d = (x + y) * d
    OBVIOUS
  <2>3. k - 1 \in Int
    BY <1>1, <1>2
  <2>4. r.start + (k - 1) * FrameSize = (a + (k - 1)) * FrameSize
    <3>1. a * FrameSize + (k - 1) * FrameSize = (a + (k - 1)) * FrameSize
      BY <1>1, <2>2, <2>3
    <3> QED BY <1>1, <3>1, Zenon
  <2> QED BY <2>1, <2>4, Quotient, Zenon
<1>6. FramesOf(r) = [k \in 1..b-a |-> a + (k - 1)]
  BY <1>4, <1>5, Zenon DEF FramesOf
<1> QED BY <1>1, <1>2, <1>3, <1>6, Zenon

\* The sequence of frames grows region by region.
More(map, g, i) ==
  IF i = 0 THEN <<>>
  ELSE IF map[i].kind = "Usable" THEN g[i - 1] \o FramesOf(map[i]) ELSE g[i - 1]

\* What FramesUpTo adds for each region of the map.
LEMMA FramesRecursion ==
  ASSUME NEW map, Len(map) \in Nat
  PROVE  /\ FramesUpTo(map)[0] = <<>>
         /\ \A i \in 1..Len(map) : FramesUpTo(map)[i] =
              IF map[i].kind = "Usable" THEN FramesUpTo(map)[i - 1] \o FramesOf(map[i])
              ELSE FramesUpTo(map)[i - 1]
<1> DEFINE Good(g, n) == g = [i \in 0..n |-> More(map, g, i)]
           T == {n \in Nat : \E g : Good(g, n)}
<1>1. 0 \in T
  <2> DEFINE g == [i \in 0..0 |-> <<>>]
  <2>1. \A i \in 0..0 : More(map, g, i) = <<>>
    BY DEF More
  <2>2. Good(g, 0)
    BY <2>1, Zenon
  <2> QED BY <2>2, 0 \in Nat, Zenon
<1>2. ASSUME NEW n \in 0..Len(map)-1, n \in T PROVE n + 1 \in T
  <2>1. PICK g : Good(g, n)
    BY <1>2, Zenon
  <2> DEFINE h == [i \in 0..n+1 |-> IF i \in 0..n THEN g[i] ELSE More(map, g, i)]
  <2>2. \A i \in 0..n : g[i] = More(map, g, i) /\ h[i] = g[i]
    <3>1. ASSUME NEW i \in 0..n PROVE i \in 0..n+1
      OBVIOUS
    <3> QED BY <2>1, <3>1, Zenon
  <2>3. \A i \in 0..n+1 : i = 0 \/ i - 1 \in 0..n
    OBVIOUS
  <2>4. ASSUME NEW i \in 0..n+1 PROVE More(map, h, i) = More(map, g, i)
    <3> HIDE DEF h
    <3> QED BY <2>2, <2>3, Zenon DEF More
  <2>5. ASSUME NEW i \in 0..n+1 PROVE h[i] = More(map, h, i)
    <3>1. h[i] = IF i \in 0..n THEN g[i] ELSE More(map, g, i)
      BY Zenon
    <3> HIDE DEF h
    <3> QED BY <2>2, <2>4, <3>1, Zenon
  <2>6. h = [i \in 0..n+1 |-> h[i]]
    BY Zenon
  <2> HIDE DEF h
  <2>7. Good(h, n + 1)
    BY <2>5, <2>6, Zenon
  <2>8. n + 1 \in Nat
    OBVIOUS
  <2> QED BY <2>7, <2>8, Zenon
<1>3. Len(map) \in T
  <2> HIDE DEF T
  <2>1. 0..Len(map) \subseteq T
    BY <1>1, <1>2, UpTo, Zenon
  <2>2. Len(map) \in 0..Len(map)
    OBVIOUS
  <2> QED BY <2>1, <2>2, Zenon
<1>4. PICK g : Good(g, Len(map))
  BY <1>3, Zenon
<1> DEFINE F == FramesUpTo(map)
<1>5. F = [i \in 0..Len(map) |-> More(map, F, i)]
  BY <1>4, Zenon DEF FramesUpTo, More
<1>6. ASSUME NEW i \in 0..Len(map) PROVE F[i] = More(map, F, i)
  BY <1>5, Zenon
<1> HIDE DEF F
<1>7. 0 \in 0..Len(map) /\ \A i \in 1..Len(map) : i \in 0..Len(map) /\ i # 0
  OBVIOUS
<1>8. F[0] = <<>>
  BY <1>6, <1>7, Zenon DEF More
<1>9. ASSUME NEW i \in 1..Len(map)
      PROVE F[i] = IF map[i].kind = "Usable" THEN F[i - 1] \o FramesOf(map[i]) ELSE F[i - 1]
  BY <1>6, <1>7, Zenon DEF More
<1> QED BY <1>8, <1>9, Zenon DEF F

Ascending(s) == \A i, j \in 1..Len(s) : i < j => s[i] < s[j]

\* What concatenation returns.
LEMMA Concat ==
  ASSUME NEW s \in Seq(Nat), NEW t \in Seq(Nat)
  PROVE  /\ s \o t \in Seq(Nat) /\ Len(s) \in Nat /\ Len(t) \in Nat
         /\ Len(s \o t) = Len(s) + Len(t)
         /\ \A k \in 1..Len(s)+Len(t) :
              \/ k \in 1..Len(s) /\ (s \o t)[k] = s[k]
              \/ /\ k - Len(s) \in 1..Len(t) /\ (s \o t)[k] = t[k - Len(s)]
                 /\ k \notin 1..Len(s)
  OBVIOUS

\* Ascending sequences, the first below the second, concatenate to one.
LEMMA ConcatAscending ==
  ASSUME NEW s \in Seq(Nat), NEW t \in Seq(Nat), Ascending(s), Ascending(t),
         \A i \in 1..Len(s), j \in 1..Len(t) : s[i] < t[j]
  PROVE  Ascending(s \o t)
<1> DEFINE u == s \o t
<1>1. /\ Len(s) \in Nat /\ Len(t) \in Nat /\ Len(u) = Len(s) + Len(t)
      /\ \A k \in 1..Len(s)+Len(t) :
              \/ k \in 1..Len(s) /\ u[k] = s[k]
              \/ k - Len(s) \in 1..Len(t) /\ u[k] = t[k - Len(s)] /\ k \notin 1..Len(s)
  BY Concat, Zenon
<1> HIDE DEF u
<1>2. ASSUME NEW i \in 1..Len(u), NEW j \in 1..Len(u), i < j PROVE u[i] < u[j]
  <2>0. i \in 1..Len(s)+Len(t) /\ j \in 1..Len(s)+Len(t)
    BY <1>1, Zenon
  <2>1. CASE i \in 1..Len(s) /\ j \in 1..Len(s)
    <3>1. u[i] = s[i] /\ u[j] = s[j]
      BY <1>1, <2>0, <2>1, Zenon
    <3> QED BY <1>2, <2>1, <3>1, Zenon DEF Ascending
  <2>2. CASE i \in 1..Len(s) /\ j \notin 1..Len(s)
    <3>1. u[i] = s[i] /\ u[j] = t[j - Len(s)] /\ j - Len(s) \in 1..Len(t)
      BY <1>1, <2>0, <2>2, Zenon
    <3> QED BY <2>2, <3>1, Zenon
  <2>3. CASE i \notin 1..Len(s) /\ j \notin 1..Len(s)
    <3>1. /\ u[i] = t[i - Len(s)] /\ i - Len(s) \in 1..Len(t)
          /\ u[j] = t[j - Len(s)] /\ j - Len(s) \in 1..Len(t)
      BY <1>1, <2>0, <2>3, Zenon
    <3>2. i - Len(s) < j - Len(s)
      <4>1. Len(s) \in Nat /\ i \in Int /\ j \in Int
        BY <1>1
      <4> QED BY <1>2, <4>1
    <3> QED BY <3>1, <3>2, Zenon DEF Ascending
  <2>4. i \in 1..Len(s) \/ j \notin 1..Len(s)
    BY <1>1, <1>2, <2>0
  <2> QED BY <2>1, <2>2, <2>3, <2>4
<1> QED BY <1>2, Zenon DEF Ascending, u

\* Every byte of frame g lies in a usable one of the first n regions.
Inside(map, n, g) ==
  \E i \in 1..n : /\ map[i].kind = "Usable"
                  /\ map[i].start <= g * FrameSize /\ (g + 1) * FrameSize <= map[i].end

\* Comparing multiples.
LEMMA Multiples ==
  ASSUME NEW x \in Int, NEW y \in Int, NEW d \in Nat \ {0}
  PROVE  (x <= y <=> x * d <= y * d) /\ x * d \in Int
  OBVIOUS

\* The usable frames ascend, and each lies in a usable region.
LEMMA UsableFrames ==
  ASSUME NEW map, IsMemoryMap(map)
  PROVE  LET u == FramesUpTo(map)[Len(map)]
         IN  /\ u \in Seq(Nat) /\ Ascending(u)
             /\ \A i \in 1..Len(u) : Inside(map, Len(map), u[i])
<1> DEFINE F == FramesUpTo(map)
           T == {n \in Nat : /\ F[n] \in Seq(Nat) /\ Ascending(F[n])
                              /\ \A i \in 1..Len(F[n]) : Inside(map, n, F[n][i])}
<1>1. /\ Len(map) \in Nat /\ DOMAIN map = 1..Len(map) /\ FrameSize \in Nat \ {0}
      /\ \A i \in 1..Len(map) : map[i].start \in Nat /\ map[i].end \in Nat
  <2>1. FrameSize \in Nat \ {0}
    BY HeapAssumption, Zenon
  <2> DEFINE R == [kind : STRING, start : Nat, end : Nat]
  <2>2. map \in Seq(R)
    BY Zenon DEF IsMemoryMap
  <2>3. \A e \in R : e.start \in Nat /\ e.end \in Nat
    OBVIOUS
  <2> HIDE DEF R
  <2>4. Len(map) \in Nat /\ DOMAIN map = 1..Len(map) /\ \A i \in 1..Len(map) : map[i] \in R
    BY <2>2
  <2> QED BY <2>1, <2>3, <2>4, Zenon
<1>2. /\ F[0] = <<>>
      /\ \A i \in 1..Len(map) : F[i] =
           IF map[i].kind = "Usable" THEN F[i - 1] \o FramesOf(map[i]) ELSE F[i - 1]
  BY <1>1, FramesRecursion, Zenon
<1> HIDE DEF F
<1>3. 0 \in T
  <2>1. <<>> \in Seq(Nat) /\ 1..Len(<<>>) = {} /\ 0 \in Nat
    OBVIOUS
  <2> QED BY <1>2, <2>1, Zenon DEF Ascending
<1>4. ASSUME NEW n \in 0..Len(map)-1, n \in T PROVE n + 1 \in T
  <2> DEFINE r == map[n + 1]
             s == F[n]
             t == FramesOf(r)
  <2>1. n \in Nat /\ n + 1 \in 1..Len(map) /\ (n + 1) - 1 = n /\ n + 1 \in Nat
    BY <1>1
  <2>2. s \in Seq(Nat) /\ Ascending(s) /\ \A i \in 1..Len(s) : Inside(map, n, s[i])
    BY <1>4, Zenon
  <2>3. \A i \in 1..n : i \in 1..n+1 /\ i < n + 1 /\ i \in 1..Len(map)
    BY <1>1, <2>1
  <2>4. \A g : Inside(map, n, g) => Inside(map, n + 1, g)
    BY <2>3, Zenon DEF Inside
  <2>5. CASE r.kind # "Usable"
    <3>1. F[n + 1] = s
      BY <1>2, <2>1, <2>5, Zenon
    <3> QED BY <2>1, <2>2, <2>4, <3>1, Zenon
  <2>6. CASE r.kind = "Usable"
    <3>1. F[n + 1] = s \o t
      BY <1>2, <2>1, <2>6, Zenon
    <3>2. /\ r.start \in Nat /\ r.end \in Nat /\ r.start % FrameSize = 0
          /\ r.end % FrameSize = 0 /\ r.start < r.end
      BY <1>1, <2>1, Zenon DEF IsMemoryMap
    <3>3. PICK a, b \in Nat :
            /\ a < b /\ r.start = a * FrameSize /\ r.end = b * FrameSize
            /\ t = [k \in 1..b-a |-> a + (k - 1)]
      BY <1>1, <3>2, RegionFrames, ZenonT(30)
    <3> HIDE DEF t
    <3>4. /\ t \in Seq(Nat) /\ Len(t) = b - a
          /\ \A k \in 1..Len(t) : t[k] = a + (k - 1) /\ t[k] \in Nat /\ a <= t[k] /\ t[k] + 1 <= b
      <4>1. b - a \in Nat /\ \A k \in 1..b-a : a + (k - 1) \in Nat /\ a <= a + (k - 1) /\ (a + (k - 1)) + 1 <= b
        BY <3>3
      <4>2. t \in [1..b-a -> Nat] /\ \A k \in 1..b-a : t[k] = a + (k - 1)
        BY <3>3, <4>1, Zenon
      <4>3. t \in Seq(Nat) /\ Len(t) = b - a
        BY <4>1, <4>2
      <4> QED BY <4>1, <4>2, <4>3, Zenon
    <3>5. Ascending(t)
      BY <3>3, <3>4 DEF Ascending
    <3>6. ASSUME NEW k \in 1..Len(t) PROVE Inside(map, n + 1, t[k])
      <4>1. t[k] \in Int /\ t[k] + 1 \in Int /\ a \in Int /\ b \in Int /\ a <= t[k] /\ t[k] + 1 <= b
        BY <3>4, SMTT(30)
      <4>2. a * FrameSize <= t[k] * FrameSize /\ (t[k] + 1) * FrameSize <= b * FrameSize
        BY <1>1, <4>1, Multiples, Zenon
      <4>3. n + 1 \in 1..n+1
        BY <2>1
      <4> QED BY <2>6, <3>3, <4>2, <4>3, Zenon DEF Inside
    <3>7. ASSUME NEW i \in 1..Len(s), NEW j \in 1..Len(t) PROVE s[i] < t[j]
      <4>1. PICK q \in 1..n : /\ (s[i] + 1) * FrameSize <= map[q].end
        BY <2>2, Zenon DEF Inside
      <4>2. q \in DOMAIN map /\ n + 1 \in DOMAIN map /\ q < n + 1
        BY <1>1, <2>1, <2>3, Zenon
      <4>3. map[q].end <= r.start
        BY <4>2, Zenon DEF IsMemoryMap
      <4>4. s[i] \in Nat
        BY <2>2, SMTT(30)
      <4>5. s[i] + 1 \in Int /\ a \in Int
        BY <4>4
      <4>6. map[q].end \in Nat /\ (s[i] + 1) * FrameSize \in Int /\ a * FrameSize \in Int
        BY <1>1, <2>3, <4>5, Multiples, Zenon
      <4>7. (s[i] + 1) * FrameSize <= a * FrameSize
        <5>1. ASSUME NEW x \in Int, NEW y \in Nat, NEW z \in Int, x <= y, y <= z PROVE x <= z
          BY <5>1
        <5> QED BY <3>3, <4>1, <4>3, <4>6, <5>1, Zenon
      <4>8. s[i] + 1 <= a
        BY <1>1, <4>5, <4>7, Multiples, Zenon
      <4>9. t[j] \in Nat /\ a <= t[j]
        BY <3>4, Zenon
      <4>10. ASSUME NEW x \in Nat, NEW y \in Nat, NEW z \in Nat, x + 1 <= y, y <= z PROVE x < z
        BY <4>10
      <4> QED BY <4>4, <4>8, <4>9, <4>10, Zenon
    <3>8. Ascending(s \o t)
      BY <2>2, <3>4, <3>5, <3>7, ConcatAscending, Zenon
    <3>9. s \o t \in Seq(Nat)
      BY <2>2, <3>4, Concat, Zenon
    <3>10. ASSUME NEW k \in 1..Len(s \o t) PROVE Inside(map, n + 1, (s \o t)[k])
      <4>1. \/ k \in 1..Len(s) /\ (s \o t)[k] = s[k]
            \/ k - Len(s) \in 1..Len(t) /\ (s \o t)[k] = t[k - Len(s)]
        <5>1. Len(s \o t) = Len(s) + Len(t)
          BY <2>2, <3>4, Concat, Zenon
        <5>2. k \in 1..Len(s)+Len(t)
          BY <5>1, Zenon
        <5> HIDE DEF s
        <5> QED BY <2>2, <3>4, <5>2, Concat, ZenonT(30)
      <4> QED BY <2>2, <2>4, <3>6, <4>1, Zenon
    <3> HIDE DEF s
    <3> QED BY <2>1, <3>1, <3>8, <3>9, <3>10, Zenon
  <2> QED BY <2>5, <2>6, Zenon
<1>5. Len(map) \in T
  <2> HIDE DEF T
  <2>1. 0..Len(map) \subseteq T
    BY <1>1, <1>3, <1>4, UpTo, Zenon
  <2>2. Len(map) \in 0..Len(map)
    BY <1>1
  <2> QED BY <2>1, <2>2, Zenon
<1> QED BY <1>5, Zenon DEF F

-----------------------------------------------------------------------------
(* The heap.                                                               *)

\* The first n of the frames u.
Allocated(u, n) == {u[k] : k \in {j \in 1..Len(u) : j <= n}}

\* If g is not the frame that was allocated last, the usable frame behind it
\* became one of the tables tb.
Passed(u, n, tb, g) ==
  \/ n \in 1..Len(u) /\ u[n] = g
  \/ g + 1 \in Range(u) => g + 1 \in Range(tb)

HeapTypes(n, pt, tb, fr, hp) ==
  /\ n \in Nat /\ pt \in Seq(Nat) /\ tb \in Seq(Nat) /\ fr \in Nat
  /\ hp \in {"allocate", "map", "ok", "failed"}

\* The frames in use are allocated, and each is used once.
HeapFrames(u, n, pt, tb, fr, hp) ==
  /\ Range(pt) \subseteq Allocated(u, n) /\ Range(tb) \subseteq Allocated(u, n)
  /\ IsInjective(pt) /\ IsInjective(tb) /\ Range(pt) \cap Range(tb) = {}
  /\ hp = "map" => fr \in Allocated(u, n) \ (Range(pt) \cup Range(tb))

\* Pages that follow each other do so in memory, where they can.
HeapOrder(u, n, pt, tb, fr, hp) ==
  /\ \A i \in 1..Len(pt)-1 :
       pt[i] + 1 \in Range(u) => pt[i + 1] = pt[i] + 1 \/ pt[i] + 1 \in Range(tb)
  /\ hp = "allocate" /\ pt # <<>> => Passed(u, n, tb, pt[Len(pt)])
  /\ hp = "map" =>
       /\ Passed(u, n, tb, fr)
       /\ pt # <<>> => (pt[Len(pt)] + 1 \in Range(u) =>
                          fr = pt[Len(pt)] + 1 \/ pt[Len(pt)] + 1 \in Range(tb))

HeapInv ==
  /\ memory_map \in MemoryMaps
  /\ HeapTypes(next, page_table, tables, frame, heap)
  /\ HeapFrames(usable_frames, next, page_table, tables, frame, heap)
  /\ HeapOrder(usable_frames, next, page_table, tables, frame, heap)

\* The next frame is not allocated yet.
LEMMA NextFrame ==
  ASSUME NEW u \in Seq(Nat), Ascending(u), NEW n \in Nat, n < Len(u)
  PROVE  /\ u[n + 1] \in Nat /\ u[n + 1] \notin Allocated(u, n)
         /\ Allocated(u, n + 1) = Allocated(u, n) \cup {u[n + 1]}
         /\ n + 1 \in 1..Len(u)
<1>1. Len(u) \in Nat /\ \A i \in 1..Len(u) : u[i] \in Nat
  OBVIOUS
<1>2. n + 1 \in 1..Len(u) /\ n + 1 <= n + 1
  BY <1>1
<1>3. ASSUME NEW k \in 1..Len(u), k <= n PROVE u[k] # u[n + 1] /\ k <= n + 1
  <2>1. k < n + 1 /\ k <= n + 1
    BY <1>1, <1>3
  <2>2. u[k] < u[n + 1]
    BY <1>2, <2>1, Zenon DEF Ascending
  <2>3. ASSUME NEW x \in Nat, NEW y \in Nat, x < y PROVE x # y
    BY <2>3
  <2> QED BY <1>1, <1>2, <2>1, <2>2, <2>3, Zenon
<1>4. ASSUME NEW k \in 1..Len(u), k <= n + 1 PROVE k <= n \/ k = n + 1
  BY <1>1, <1>4
<1>5. u[n + 1] \notin Allocated(u, n)
  BY <1>3, Zenon DEF Allocated
<1>6. Allocated(u, n + 1) \subseteq Allocated(u, n) \cup {u[n + 1]}
  BY <1>4, Zenon DEF Allocated
<1>7. Allocated(u, n) \cup {u[n + 1]} \subseteq Allocated(u, n + 1)
  BY <1>2, <1>3, Zenon DEF Allocated
<1> QED BY <1>1, <1>2, <1>5, <1>6, <1>7, Zenon

\* No usable frame lies between one and the next.
LEMMA Successor ==
  ASSUME NEW u \in Seq(Nat), Ascending(u), NEW n \in 1..Len(u), u[n] + 1 \in Range(u)
  PROVE  n < Len(u) /\ u[n + 1] = u[n] + 1
<1>1. Len(u) \in Nat /\ DOMAIN u = 1..Len(u) /\ \A i \in 1..Len(u) : u[i] \in Nat
  OBVIOUS
<1>2. PICK k \in 1..Len(u) : u[k] = u[n] + 1
  BY <1>1, Zenon DEF Range
<1>3. u[n] \in Nat /\ u[k] \in Nat /\ n \in Nat /\ k \in Nat
  BY <1>1
<1>4. ~(k <= n)
  <2>1. k < n => u[k] < u[n]
    BY Zenon DEF Ascending
  <2>2. k = n => u[k] = u[n]
    BY Zenon
  <2> QED BY <1>2, <1>3, <2>1, <2>2
<1>5. n < Len(u) /\ n + 1 \in 1..Len(u)
  BY <1>1, <1>3, <1>4
<1>6. CASE k = n + 1
  BY <1>2, <1>5, <1>6, Zenon
<1>7. CASE n + 1 < k
  <2>0. n < n + 1
    BY <1>3
  <2>1. u[n] < u[n + 1] /\ u[n + 1] < u[k]
    BY <1>5, <1>7, <2>0, Zenon DEF Ascending
  <2>2. u[n + 1] \in Nat
    BY <1>1, <1>5, Zenon
  <2> QED BY <1>2, <1>3, <2>1, <2>2, SMTT(30)
<1> QED BY <1>3, <1>4, <1>6, <1>7

\* What Append does to the elements.
LEMMA AppendNew ==
  ASSUME NEW s \in Seq(Nat), NEW e \in Nat
  PROVE  /\ Append(s, e) \in Seq(Nat) /\ Append(s, e) # <<>>
         /\ Len(s) \in Nat /\ Len(Append(s, e)) = Len(s) + 1
         /\ Append(s, e)[Len(s) + 1] = e
         /\ \A i \in 1..Len(s) : Append(s, e)[i] = s[i]
         /\ Range(Append(s, e)) = Range(s) \cup {e}
         /\ IsInjective(s) /\ e \notin Range(s) => IsInjective(Append(s, e))
<1> DEFINE t == Append(s, e)
<1>1. /\ t \in Seq(Nat) /\ t # <<>> /\ Len(s) \in Nat /\ Len(t) = Len(s) + 1
      /\ t[Len(s) + 1] = e /\ \A i \in 1..Len(s) : t[i] = s[i]
  OBVIOUS
<1>2. DOMAIN s = 1..Len(s) /\ DOMAIN t = 1..Len(s)+1
  OBVIOUS
<1> HIDE DEF t
<1>3. /\ \A k \in 1..Len(s)+1 : k \in 1..Len(s) \/ k = Len(s) + 1
      /\ \A k \in 1..Len(s) : k \in 1..Len(s)+1
      /\ Len(s) + 1 \in 1..Len(s)+1
  BY <1>1
<1>4. Range(t) = Range(s) \cup {e}
  <2>1. ASSUME NEW k \in 1..Len(s)+1 PROVE t[k] \in Range(s) \cup {e}
    BY <1>1, <1>2, <1>3, Zenon DEF Range
  <2>2. ASSUME NEW k \in 1..Len(s) PROVE s[k] \in Range(t)
    <3>1. k \in DOMAIN t /\ t[k] = s[k]
      BY <1>1, <1>2, <1>3, Zenon
    <3> QED BY <3>1, Zenon DEF Range
  <2>3. e \in Range(t)
    BY <1>1, <1>2, <1>3, Zenon DEF Range
  <2>4. Range(t) \subseteq Range(s) \cup {e}
    BY <1>2, <2>1, Zenon DEF Range
  <2>5. Range(s) \subseteq Range(t)
    BY <1>2, <2>2, Zenon DEF Range
  <2> QED BY <2>3, <2>4, <2>5, Zenon
<1>5. ASSUME IsInjective(s), e \notin Range(s) PROVE IsInjective(t)
  <2>1. \A k \in 1..Len(s) : s[k] # e
    BY <1>2, <1>5, Zenon DEF Range
  <2>2. ASSUME NEW i \in 1..Len(s)+1, NEW j \in 1..Len(s)+1, t[i] = t[j] PROVE i = j
    <3>1. CASE i \in 1..Len(s) /\ j \in 1..Len(s)
      BY <1>1, <1>2, <1>5, <2>2, <3>1, Zenon DEF IsInjective
    <3>2. CASE i = Len(s) + 1 /\ j \in 1..Len(s)
      BY <1>1, <2>1, <2>2, <3>2, Zenon
    <3>3. CASE i \in 1..Len(s) /\ j = Len(s) + 1
      BY <1>1, <2>1, <2>2, <3>3, Zenon
    <3> QED BY <1>3, <3>1, <3>2, <3>3, Zenon
  <2> QED BY <1>2, <2>2, Zenon DEF IsInjective
<1> QED BY <1>1, <1>4, <1>5, Zenon DEF t

\* What concatenation does to the elements.
LEMMA ConcatNew ==
  ASSUME NEW s \in Seq(Nat), NEW t \in Seq(Nat)
  PROVE  /\ Range(s \o t) \subseteq Range(s) \cup Range(t)
         /\ IsInjective(s) /\ IsInjective(t) /\ Range(s) \cap Range(t) = {}
              => IsInjective(s \o t)
<1> DEFINE u == s \o t
<1>1. /\ Len(s) \in Nat /\ Len(t) \in Nat
      /\ \A k \in 1..Len(s)+Len(t) :
              \/ k \in 1..Len(s) /\ u[k] = s[k]
              \/ k - Len(s) \in 1..Len(t) /\ u[k] = t[k - Len(s)] /\ k \notin 1..Len(s)
  BY Concat, Zenon
<1>2. DOMAIN s = 1..Len(s) /\ DOMAIN t = 1..Len(t) /\ DOMAIN u = 1..Len(s)+Len(t)
  <2>1. Len(u) = Len(s) + Len(t) /\ u \in Seq(Nat)
    BY Concat, Zenon
  <2> HIDE DEF u
  <2> QED BY <2>1
<1> HIDE DEF u
<1>3. Range(u) \subseteq Range(s) \cup Range(t)
  BY <1>1, <1>2, ZenonT(30) DEF Range
<1>4. ASSUME IsInjective(s), IsInjective(t), Range(s) \cap Range(t) = {},
             NEW i \in DOMAIN u, NEW j \in DOMAIN u, u[i] = u[j]
      PROVE  i = j
  <2>1. CASE i \in 1..Len(s) /\ j \in 1..Len(s)
    <3>1. u[i] = s[i] /\ u[j] = s[j]
      BY <1>1, <1>2, <2>1, Zenon
    <3> QED BY <1>2, <1>4, <2>1, <3>1, Zenon DEF IsInjective
  <2>2. CASE i \notin 1..Len(s) /\ j \notin 1..Len(s)
    <3>1. /\ i - Len(s) \in 1..Len(t) /\ u[i] = t[i - Len(s)]
          /\ j - Len(s) \in 1..Len(t) /\ u[j] = t[j - Len(s)]
      BY <1>1, <1>2, <2>2, Zenon
    <3>2. i - Len(s) = j - Len(s)
      BY <1>2, <1>4, <3>1, Zenon DEF IsInjective
    <3>3. i \in Int /\ j \in Int /\ Len(s) \in Int
      BY <1>1, <1>2
    <3> QED BY <3>2, <3>3
  <2>3. CASE i \in 1..Len(s) /\ j \notin 1..Len(s)
    <3>1. u[i] = s[i] /\ j - Len(s) \in 1..Len(t) /\ u[j] = t[j - Len(s)]
      BY <1>1, <1>2, <2>3, Zenon
    <3> QED BY <1>2, <1>4, <2>3, <3>1, Zenon DEF Range
  <2>4. CASE i \notin 1..Len(s) /\ j \in 1..Len(s)
    <3>1. u[j] = s[j] /\ i - Len(s) \in 1..Len(t) /\ u[i] = t[i - Len(s)]
      BY <1>1, <1>2, <2>4, Zenon
    <3> QED BY <1>2, <1>4, <2>4, <3>1, Zenon DEF Range
  <2> QED BY <2>1, <2>2, <2>3, <2>4
<1> QED BY <1>3, <1>4, Zenon DEF IsInjective, u

\* A frame is allocated for the next page.
LEMMA PageAllocated ==
  ASSUME NEW u \in Seq(Nat), Ascending(u), NEW n, NEW pt, NEW tb, NEW fr, NEW g,
         HeapTypes(n, pt, tb, fr, "allocate"), n < Len(u), g = u[n + 1],
         HeapFrames(u, n, pt, tb, fr, "allocate"), HeapOrder(u, n, pt, tb, fr, "allocate")
  PROVE  /\ HeapTypes(n + 1, pt, tb, g, "map") /\ HeapFrames(u, n + 1, pt, tb, g, "map")
         /\ HeapOrder(u, n + 1, pt, tb, g, "map")
<1>1. n \in Nat /\ n + 1 \in Nat /\ pt \in Seq(Nat) /\ tb \in Seq(Nat)
  BY DEF HeapTypes
<1>2. /\ g \in Nat /\ g \notin Allocated(u, n) /\ n + 1 \in 1..Len(u)
      /\ Allocated(u, n + 1) = Allocated(u, n) \cup {g}
  BY <1>1, NextFrame, Zenon
<1>3. HeapTypes(n + 1, pt, tb, g, "map")
  BY <1>1, <1>2, Zenon DEF HeapTypes
<1>4. HeapFrames(u, n + 1, pt, tb, g, "map")
  BY <1>2, Zenon DEF HeapFrames
<1>5. Passed(u, n + 1, tb, g)
  BY <1>2, Zenon DEF Passed
<1>6. ASSUME pt # <<>>, pt[Len(pt)] + 1 \in Range(u)
      PROVE  g = pt[Len(pt)] + 1 \/ pt[Len(pt)] + 1 \in Range(tb)
  <2>1. Passed(u, n, tb, pt[Len(pt)])
    BY <1>6, Zenon DEF HeapOrder
  <2>2. CASE n \in 1..Len(u) /\ u[n] = pt[Len(pt)]
    <3>1. u[n] + 1 \in Range(u)
      BY <1>6, <2>2, Zenon
    <3>2. u[n + 1] = u[n] + 1
      BY <2>2, <3>1, Successor, Zenon
    <3> QED BY <2>2, <3>2, Zenon
  <2> QED BY <1>6, <2>1, <2>2, Zenon DEF Passed
<1>7. HeapOrder(u, n + 1, pt, tb, g, "map")
  BY <1>5, <1>6, Zenon DEF HeapOrder
<1> QED BY <1>3, <1>4, <1>7

\* A frame becomes a page table.
LEMMA TableAllocated ==
  ASSUME NEW u \in Seq(Nat), Ascending(u), NEW n, NEW pt, NEW tb, NEW fr, NEW g,
         HeapTypes(n, pt, tb, fr, "map"), n < Len(u), g = u[n + 1],
         HeapFrames(u, n, pt, tb, fr, "map"), HeapOrder(u, n, pt, tb, fr, "map")
  PROVE  /\ HeapTypes(n + 1, pt, Append(tb, g), fr, "map")
         /\ HeapFrames(u, n + 1, pt, Append(tb, g), fr, "map")
         /\ HeapOrder(u, n + 1, pt, Append(tb, g), fr, "map")
<1>1. n \in Nat /\ n + 1 \in Nat /\ pt \in Seq(Nat) /\ tb \in Seq(Nat) /\ fr \in Nat
  BY DEF HeapTypes
<1>2. /\ g \in Nat /\ g \notin Allocated(u, n) /\ n + 1 \in 1..Len(u)
      /\ Allocated(u, n + 1) = Allocated(u, n) \cup {g}
  BY <1>1, NextFrame, Zenon
<1> DEFINE t == Append(tb, g)
<1>3. /\ t \in Seq(Nat) /\ Range(t) = Range(tb) \cup {g}
      /\ IsInjective(tb) /\ g \notin Range(tb) => IsInjective(t)
  BY <1>1, <1>2, AppendNew, Zenon
<1> HIDE DEF t
<1>4. HeapTypes(n + 1, pt, t, fr, "map")
  BY <1>1, <1>3, Zenon DEF HeapTypes
<1>5. HeapFrames(u, n + 1, pt, t, fr, "map")
  BY <1>2, <1>3, ZenonT(30) DEF HeapFrames
<1>6. Passed(u, n + 1, t, fr)
  <2>1. Passed(u, n, tb, fr)
    BY Zenon DEF HeapOrder
  <2>2. CASE n \in 1..Len(u) /\ u[n] = fr
    <3>1. ASSUME fr + 1 \in Range(u) PROVE fr + 1 \in Range(t)
      <4>1. u[n] + 1 \in Range(u)
        BY <2>2, <3>1, Zenon
      <4>2. u[n + 1] = u[n] + 1
        BY <2>2, <4>1, Successor, Zenon
      <4> QED BY <1>3, <2>2, <4>2, Zenon
    <3> QED BY <3>1, Zenon DEF Passed
  <2> QED BY <1>3, <2>1, <2>2, Zenon DEF Passed
<1>7. HeapOrder(u, n + 1, pt, t, fr, "map")
  BY <1>3, <1>6, Zenon DEF HeapOrder
<1> QED BY <1>4, <1>5, <1>7, Zenon DEF t

\* The page is mapped.
LEMMA PageMapped ==
  ASSUME NEW u, NEW n, NEW pt, NEW tb, NEW fr, NEW hp \in {"allocate", "ok"},
         HeapTypes(n, pt, tb, fr, "map"),
         HeapFrames(u, n, pt, tb, fr, "map"), HeapOrder(u, n, pt, tb, fr, "map")
  PROVE  /\ HeapTypes(n, Append(pt, fr), tb, fr, hp)
         /\ HeapFrames(u, n, Append(pt, fr), tb, fr, hp)
         /\ HeapOrder(u, n, Append(pt, fr), tb, fr, hp)
<1>1. n \in Nat /\ pt \in Seq(Nat) /\ tb \in Seq(Nat) /\ fr \in Nat /\ hp # "map"
  BY Zenon DEF HeapTypes
<1> DEFINE p == Append(pt, fr)
<1>2. /\ p \in Seq(Nat) /\ Len(pt) \in Nat /\ Len(p) = Len(pt) + 1
      /\ p[Len(pt) + 1] = fr /\ \A i \in 1..Len(pt) : p[i] = pt[i]
      /\ Range(p) = Range(pt) \cup {fr}
      /\ IsInjective(pt) /\ fr \notin Range(pt) => IsInjective(p)
  BY <1>1, AppendNew, Zenon
<1> HIDE DEF p
<1>3. HeapTypes(n, p, tb, fr, hp)
  BY <1>1, <1>2, Zenon DEF HeapTypes
<1>4. HeapFrames(u, n, p, tb, fr, hp)
  BY <1>1, <1>2, ZenonT(30) DEF HeapFrames
<1>5. ASSUME NEW i \in 1..Len(p)-1, p[i] + 1 \in Range(u)
      PROVE  p[i + 1] = p[i] + 1 \/ p[i] + 1 \in Range(tb)
  <2>1. i \in 1..Len(pt) /\ (i = Len(pt) \/ (i \in 1..Len(pt)-1 /\ i + 1 \in 1..Len(pt)))
    BY <1>2
  <2>2. p[i] = pt[i]
    BY <1>2, <2>1, Zenon
  <2>3. CASE i = Len(pt)
    <3>1. pt # <<>>
      BY <2>1
    <3> QED BY <1>2, <1>5, <2>2, <2>3, <3>1, Zenon DEF HeapOrder
  <2>4. CASE i \in 1..Len(pt)-1 /\ i + 1 \in 1..Len(pt)
    <3>1. p[i + 1] = pt[i + 1]
      BY <1>2, <2>4, Zenon
    <3> QED BY <1>5, <2>2, <2>4, <3>1, Zenon DEF HeapOrder
  <2> QED BY <2>1, <2>3, <2>4, Zenon
<1>6. Passed(u, n, tb, p[Len(p)])
  BY <1>2, Zenon DEF HeapOrder
<1>7. HeapOrder(u, n, p, tb, fr, hp)
  BY <1>1, <1>5, <1>6, Zenon DEF HeapOrder
<1> QED BY <1>3, <1>4, <1>7, Zenon DEF p

\* What the invariant says about the usable frames.
LEMMA HeapUsable ==
  ASSUME HeapInv
  PROVE  /\ usable_frames \in Seq(Nat) /\ Ascending(usable_frames)
         /\ \A i \in 1..Len(usable_frames) : Inside(memory_map, Len(memory_map), usable_frames[i])
<1>1. IsMemoryMap(memory_map)
  BY HeapAssumption, Zenon DEF HeapInv
<1> QED BY <1>1, UsableFrames, Zenon DEF usable_frames

\* No frame is left.
LEMMA NoFrameLeft ==
  ASSUME HeapInv, Fail, next' = next + 1, UNCHANGED memory_map
  PROVE  HeapInv'
<1>1. usable_frames' = usable_frames
  BY Zenon DEF usable_frames
<1>2. next \in Nat /\ next + 1 \in Nat
  BY DEF HeapInv, HeapTypes
<1>3. \A k \in Nat : k <= next => k <= next + 1
  BY <1>2
<1>4. \A k \in 1..Len(usable_frames) : k \in Nat
  OBVIOUS
<1>5. Allocated(usable_frames, next) \subseteq Allocated(usable_frames, next + 1)
  BY <1>3, <1>4, Zenon DEF Allocated
<1>6. heap' = "failed" /\ UNCHANGED <<page_table, tables, missing, frame>>
  BY Zenon DEF Fail
<1>7. HeapTypes(next', page_table', tables', frame', heap')
  BY <1>2, <1>6, Zenon DEF HeapInv, HeapTypes
<1>8. HeapFrames(usable_frames', next', page_table', tables', frame', heap')
  BY <1>1, <1>5, <1>6, ZenonT(30) DEF HeapInv, HeapFrames
<1>9. HeapOrder(usable_frames', next', page_table', tables', frame', heap')
  BY <1>1, <1>6, Zenon DEF HeapInv, HeapOrder
<1> QED BY <1>7, <1>8, <1>9, Zenon DEF HeapInv

\* Every step of init_heap keeps the invariant.
LEMMA HeapStep == HeapInv /\ [init_heap]_heap_vars => HeapInv'
<1> SUFFICES ASSUME HeapInv, [init_heap]_heap_vars PROVE HeapInv'
  OBVIOUS
<1> DEFINE u == usable_frames
<1>0. u \in Seq(Nat) /\ Ascending(u)
  BY HeapUsable, Zenon
<1>1. ASSUME NEW f, allocate_frame(f), f # -1 PROVE next < Len(u) /\ f = u[next + 1] /\ next' = next + 1
  BY <1>1, Zenon DEF allocate_frame
<1>2. ASSUME memory_map' = memory_map PROVE u' = u
  BY <1>2, Zenon DEF usable_frames
<1>3. CASE AllocatePage
  <2>1. PICK f : /\ allocate_frame(f)
                 /\ IF f = -1 THEN Fail
                    ELSE frame' = f /\ heap' = "map" /\ UNCHANGED <<page_table, tables>>
    BY <1>3, Zenon DEF AllocatePage
  <2>2. heap = "allocate" /\ memory_map' = memory_map
    BY <1>3, Zenon DEF AllocatePage
  <2>3. CASE f = -1
    BY <2>1, <2>2, <2>3, NoFrameLeft, Zenon DEF allocate_frame
  <2>4. CASE f # -1
    <3>1. next < Len(u) /\ f = u[next + 1] /\ next' = next + 1
      BY <1>1, <2>1, <2>4, Zenon
    <3>2. /\ HeapTypes(next, page_table, tables, frame, "allocate")
          /\ HeapFrames(u, next, page_table, tables, frame, "allocate")
          /\ HeapOrder(u, next, page_table, tables, frame, "allocate")
      BY <2>2, Zenon DEF HeapInv
    <3> HIDE DEF u
    <3>3. /\ HeapTypes(next + 1, page_table, tables, f, "map")
          /\ HeapFrames(u, next + 1, page_table, tables, f, "map")
          /\ HeapOrder(u, next + 1, page_table, tables, f, "map")
      BY <1>0, <3>1, <3>2, PageAllocated, Zenon
    <3> QED BY <1>2, <2>1, <2>2, <2>4, <3>1, <3>3, Zenon DEF HeapInv, u
  <2> QED BY <2>3, <2>4
<1>4. CASE CreateTable
  <2>1. PICK f : /\ allocate_frame(f)
                 /\ IF f = -1 THEN Fail
                    ELSE tables' = Append(tables, f) /\ UNCHANGED <<page_table, frame, heap>>
    BY <1>4, Zenon DEF CreateTable
  <2>2. heap = "map" /\ memory_map' = memory_map
    BY <1>4, Zenon DEF CreateTable
  <2>3. CASE f = -1
    BY <2>1, <2>2, <2>3, NoFrameLeft, Zenon DEF allocate_frame
  <2>4. CASE f # -1
    <3>1. next < Len(u) /\ f = u[next + 1] /\ next' = next + 1
      BY <1>1, <2>1, <2>4, Zenon
    <3>2. /\ HeapTypes(next, page_table, tables, frame, "map")
          /\ HeapFrames(u, next, page_table, tables, frame, "map")
          /\ HeapOrder(u, next, page_table, tables, frame, "map")
      BY <2>2, Zenon DEF HeapInv
    <3> HIDE DEF u
    <3>3. /\ HeapTypes(next + 1, page_table, Append(tables, f), frame, "map")
          /\ HeapFrames(u, next + 1, page_table, Append(tables, f), frame, "map")
          /\ HeapOrder(u, next + 1, page_table, Append(tables, f), frame, "map")
      BY <1>0, <3>1, <3>2, TableAllocated, Zenon
    <3> QED BY <1>2, <2>1, <2>2, <2>4, <3>1, <3>3, Zenon DEF HeapInv, u
  <2> QED BY <2>3, <2>4
<1>5. CASE MapPage
  <2>1. /\ heap = "map" /\ heap' \in {"allocate", "ok"}
        /\ page_table' = Append(page_table, frame)
        /\ UNCHANGED <<memory_map, next, tables, frame>>
    BY <1>5, Zenon DEF MapPage
  <2>2. /\ HeapTypes(next, page_table, tables, frame, "map")
        /\ HeapFrames(u, next, page_table, tables, frame, "map")
        /\ HeapOrder(u, next, page_table, tables, frame, "map")
    BY <2>1, Zenon DEF HeapInv
  <2>3. PICK hp \in {"allocate", "ok"} : hp = heap'
    BY <2>1, Zenon
  <2> HIDE DEF u
  <2>4. /\ HeapTypes(next, Append(page_table, frame), tables, frame, hp)
        /\ HeapFrames(u, next, Append(page_table, frame), tables, frame, hp)
        /\ HeapOrder(u, next, Append(page_table, frame), tables, frame, hp)
    BY <2>2, PageMapped, Zenon
  <2> QED BY <1>2, <2>1, <2>3, <2>4, Zenon DEF HeapInv, u
<1>6. CASE UNCHANGED heap_vars
  <2>1. UNCHANGED <<memory_map, next, page_table, tables, frame, heap>>
    BY <1>6, Zenon DEF heap_vars
  <2> QED BY <1>2, <2>1, Zenon DEF HeapInv
<1> QED BY <1>3, <1>4, <1>5, <1>6, Zenon DEF init_heap

\* The invariant holds before the first frame is allocated.
LEMMA HeapStart == HeapInit => HeapInv
<1> SUFFICES ASSUME HeapInit PROVE HeapInv
  OBVIOUS
<1>1. <<>> \in Seq(Nat) /\ 0 \in Nat /\ 1..Len(<<>>)-1 = {}
  OBVIOUS
<1>2. Range(<<>>) = {} /\ IsInjective(<<>>)
  BY DEF Range, IsInjective
<1> QED BY <1>1, <1>2, ZenonT(30) DEF HeapInit, HeapInv, HeapTypes, HeapFrames, HeapOrder

\* It implies that the frames in use are sound.
LEMMA HeapInvFrames == HeapInv => FramesSound
<1> SUFFICES ASSUME HeapInv PROVE FramesSound
  OBVIOUS
<1> DEFINE u == usable_frames
           last == IF heap = "map" THEN <<frame>> ELSE <<>>
           pages == page_table \o tables
<1>1. /\ page_table \in Seq(Nat) /\ tables \in Seq(Nat) /\ frame \in Nat
      /\ Range(page_table) \subseteq Allocated(u, next)
      /\ Range(tables) \subseteq Allocated(u, next)
      /\ IsInjective(page_table) /\ IsInjective(tables)
      /\ Range(page_table) \cap Range(tables) = {}
      /\ heap = "map" => frame \in Allocated(u, next) \ (Range(page_table) \cup Range(tables))
  BY Zenon DEF HeapInv, HeapTypes, HeapFrames
<1>2. /\ <<frame>> \in Seq(Nat) /\ IsInjective(<<frame>>) /\ Range(<<frame>>) = {frame}
      /\ <<>> \in Seq(Nat) /\ IsInjective(<<>>) /\ Range(<<>>) = {}
  BY <1>1 DEF IsInjective, Range
<1>3. /\ pages \in Seq(Nat) /\ IsInjective(pages)
      /\ Range(pages) \subseteq Range(page_table) \cup Range(tables)
  BY <1>1, Concat, ConcatNew, Zenon
<1>4. /\ last \in Seq(Nat) /\ IsInjective(last) /\ Range(pages) \cap Range(last) = {}
      /\ Range(last) \subseteq Allocated(u, next)
  BY <1>1, <1>2, <1>3, Zenon
<1> HIDE DEF pages, last
<1>5. IsInjective(pages \o last) /\ Range(pages \o last) \subseteq Range(pages) \cup Range(last)
  BY <1>3, <1>4, ConcatNew, Zenon
<1>6. InUse = pages \o last
  BY Zenon DEF InUse, pages, last
<1>7. ASSUME NEW f \in Range(InUse)
      PROVE  \E i \in DOMAIN memory_map :
               /\ memory_map[i].kind = "Usable"
               /\ memory_map[i].start <= f * FrameSize
               /\ (f + 1) * FrameSize <= memory_map[i].end
  <2>1. f \in Allocated(u, next)
    BY <1>1, <1>3, <1>4, <1>5, <1>6, Zenon
  <2>2. Inside(memory_map, Len(memory_map), f)
    BY <2>1, HeapUsable, Zenon DEF Allocated
  <2>3. DOMAIN memory_map = 1..Len(memory_map)
    <3>1. memory_map \in Seq([kind : STRING, start : Nat, end : Nat])
      BY HeapAssumption, Zenon DEF HeapInv, IsMemoryMap
    <3> QED BY <3>1
  <2> QED BY <2>2, <2>3, Zenon DEF Inside
<1> QED BY <1>5, <1>6, <1>7, Zenon DEF FramesSound

\* It implies that the heap is contiguous where it can be.
LEMMA HeapInvContiguous == HeapInv => HeapContiguous
  BY ZenonT(30) DEF HeapInv, HeapOrder, HeapContiguous

-----------------------------------------------------------------------------
(* AcpiTables: the root table and the interrupt controller tables.         *)

\* Entries that follow each other end before every later one begins.
LEMMA Following ==
  ASSUME NEW n \in Nat, NEW at \in [1..n -> Nat], NEW len \in [1..n -> Nat],
         \A k \in 1..n-1 : at[k] + len[k] = at[k + 1]
  PROVE  \A j, k \in 1..n : j < k => at[j] + len[j] <= at[k]
<1> SUFFICES ASSUME NEW j \in 1..n PROVE \A k \in 1..n : j < k => at[j] + len[j] <= at[k]
  OBVIOUS
<1> DEFINE T == {i \in Nat : j + 1 + i \in 1..n => at[j] + len[j] <= at[j + 1 + i]}
<1>1. 0 \in T
  OBVIOUS
<1>2. ASSUME NEW i \in 0..n-1, i \in T PROVE i + 1 \in T
  <2> SUFFICES ASSUME j + 1 + (i + 1) \in 1..n PROVE at[j] + len[j] <= at[j + 1 + (i + 1)]
    OBVIOUS
  <2>1. j + 1 + i \in 1..n-1 /\ j + 1 + (i + 1) = (j + 1 + i) + 1
    OBVIOUS
  <2>2. at[j] + len[j] <= at[j + 1 + i]
    BY <1>2, <2>1
  <2>3. at[j + 1 + i] + len[j + 1 + i] = at[(j + 1 + i) + 1]
    BY <2>1
  <2> QED BY <2>1, <2>2, <2>3
<1> HIDE DEF T
<1>3. 0..n \subseteq T
  BY <1>1, <1>2, UpTo, Zenon
<1>4. ASSUME NEW k \in 1..n, j < k PROVE at[j] + len[j] <= at[k]
  <2>1. k - j - 1 \in 0..n /\ j + 1 + (k - j - 1) = k
    BY <1>4
  <2>2. (k - j - 1) \in T
    BY <1>3, <2>1, Zenon
  <2>3. PICK i \in T : i = k - j - 1
    BY <2>2, Zenon
  <2>4. j + 1 + i = k
    BY <2>1, <2>3, Zenon
  <2>5. j + 1 + i \in 1..n => at[j] + len[j] <= at[j + 1 + i]
    BY Zenon DEF T
  <2> QED BY <2>4, <2>5, Zenon
<1> QED BY <1>4

\* The entries of an interrupt controller table begin at different places and
\* end within the table.
LEMMA EntriesInside ==
  ASSUME NEW t, IsTable(t), t.signature = "APIC"
  PROVE  /\ Len(t.entries) \in Nat /\ DOMAIN t.entries = 1..Len(t.entries) /\ t.length \in Nat
         /\ \A k \in 1..Len(t.entries) :
              /\ t.entries[k].at \in Nat /\ t.entries[k].length \in Nat
              /\ t.entries[k].length >= EntryReads(t.entries[k].type)
              /\ t.entries[k].length >= 2
              /\ t.entries[k].at + t.entries[k].length <= t.length
              /\ t.entries[k].at + t.entries[k].length =
                   IF k = Len(t.entries) THEN t.length ELSE t.entries[k + 1].at
         /\ \A j, k \in 1..Len(t.entries) : t.entries[j].at = t.entries[k].at => j = k
<1> DEFINE n == Len(t.entries)
           at == [k \in 1..n |-> t.entries[k].at]
           len == [k \in 1..n |-> t.entries[k].length]
<1>1. t.entries \in Seq([at : Nat, type : 0..255, length : Nat]) /\ t.length \in Nat
  BY Zenon DEF IsTable
<1>2. n \in Nat /\ DOMAIN t.entries = 1..n
  BY <1>1
<1>3. ASSUME NEW k \in 1..n
      PROVE  t.entries[k].at \in Nat /\ t.entries[k].length \in Nat
  <2>1. PICK e \in [at : Nat, type : 0..255, length : Nat] : e = t.entries[k]
    BY <1>1, Element, ZenonT(30)
  <2>2. e.at \in Nat /\ e.length \in Nat
    OBVIOUS
  <2> QED BY <2>1, <2>2, Zenon
<1>4. ASSUME NEW k \in 1..n
      PROVE  /\ t.entries[k].length >= EntryReads(t.entries[k].type)
             /\ t.entries[k].at + t.entries[k].length =
                  IF k = n THEN t.length ELSE t.entries[k + 1].at
  BY <1>2, Zenon DEF IsTable
<1>5. ASSUME NEW type PROVE EntryReads(type) \in Nat /\ EntryReads(type) >= 2
  BY DEF EntryReads
<1>6. ASSUME NEW k \in 1..n PROVE t.entries[k].length >= 2
  <2>1. t.entries[k].length >= EntryReads(t.entries[k].type) /\ t.entries[k].length \in Nat
    BY <1>3, <1>4, Zenon
  <2>2. PICK r \in Nat : r = EntryReads(t.entries[k].type) /\ r >= 2
    BY <1>5, Zenon
  <2> HIDE DEF n
  <2> QED BY <2>1, <2>2
<1>7. at \in [1..n -> Nat] /\ len \in [1..n -> Nat]
  BY <1>3, Zenon
<1>8. \A k \in 1..n : at[k] = t.entries[k].at /\ len[k] = t.entries[k].length
  BY Zenon
<1>9. \A k \in 1..n-1 : k \in 1..n /\ k + 1 \in 1..n /\ k # n
  BY <1>2
<1>10. \A k \in 1..n-1 : at[k] + len[k] = at[k + 1]
  BY <1>4, <1>8, <1>9, Zenon
<1>12. \A k \in 1..n : len[k] >= 2 /\ at[k] + len[k] = IF k = n THEN t.length ELSE t.entries[k + 1].at
  BY <1>4, <1>6, <1>8, Zenon
<1> HIDE DEF n, at, len
<1>11. \A j, k \in 1..n : j < k => at[j] + len[j] <= at[k]
  BY <1>2, <1>7, <1>10, Following, Zenon
<1>13. \A k \in 1..n : at[k] \in Nat /\ len[k] \in Nat
  BY <1>7
<1>14. ASSUME NEW k \in 1..n PROVE at[k] + len[k] <= t.length
  <2>1. n \in 1..n /\ (k = n \/ k < n)
    BY <1>2
  <2>2. at[n] + len[n] = t.length
    BY <1>12, <2>1, Zenon
  <2>3. at[n] \in Nat /\ len[n] \in Nat /\ at[k] \in Nat /\ len[k] \in Nat
    BY <1>13, <2>1, Zenon
  <2>4. k < n => at[k] + len[k] <= at[n]
    BY <1>11, <2>1, Zenon
  <2> QED BY <2>1, <2>2, <2>3, <2>4
<1>15. ASSUME NEW j \in 1..n, NEW k \in 1..n, j < k PROVE at[j] < at[k]
  <2>1. at[j] + len[j] <= at[k] /\ len[j] >= 2
    BY <1>11, <1>12, <1>15, Zenon
  <2>2. at[j] \in Nat /\ len[j] \in Nat /\ at[k] \in Nat
    BY <1>13, Zenon
  <2> QED BY <2>1, <2>2
<1>16. ASSUME NEW j \in 1..n, NEW k \in 1..n, at[j] = at[k] PROVE j = k
  <2>1. ~(at[j] < at[k]) /\ ~(at[k] < at[j])
    BY <1>13, <1>16
  <2>2. ~(j < k) /\ ~(k < j)
    BY <1>15, <2>1, Zenon
  <2> QED BY <1>2, <2>2
<1>17. \A k \in 1..n : t.entries[k].at + t.entries[k].length <= t.length
  BY <1>8, <1>14, Zenon
<1>18. ASSUME NEW j \in 1..n, NEW k \in 1..n, t.entries[j].at = t.entries[k].at PROVE j = k
  <2>1. at[j] = t.entries[j].at /\ at[k] = t.entries[k].at
    BY <1>8, Zenon
  <2> QED BY <1>16, <1>18, <2>1, Zenon
<1> QED BY <1>1, <1>2, <1>3, <1>4, <1>6, <1>17, <1>18, Zenon DEF n

EntrySet(t) == {APICEntry(t.entries[k]) : k \in DOMAIN t.entries}

\* APICEntryIter stands behind the entries s of table t that it has yielded.
EntriesInv(t, p, rem, s) ==
  /\ s \in Seq(EntrySet(t)) /\ Len(s) <= Len(t.entries)
  /\ \A k \in 1..Len(s) : s[k] = APICEntry(t.entries[k])
  /\ p = IF Len(s) = Len(t.entries) THEN t.length ELSE t.entries[Len(s) + 1].at
  /\ rem = t.length - p

IsApic(t) == IsTable(t) /\ t.signature = "APIC"

\* The walk over a table's entries begins at the first of them.
LEMMA EntriesBegin ==
  ASSUME NEW t, IsApic(t)
  PROVE  EntriesInv(t, HeaderSize + 8, t.length - 8 - HeaderSize, <<>>)
<1>1. /\ Len(t.entries) \in Nat /\ t.length \in Nat
  BY EntriesInside, Zenon DEF IsApic
<1>2. /\ t.entries = <<>> => t.length = ApicHeader
      /\ t.entries # <<>> => t.entries[1].at = ApicHeader
  BY Zenon DEF IsTable, IsApic
<1>3. t.entries \in Seq([at : Nat, type : 0..255, length : Nat])
  BY Zenon DEF IsTable, IsApic
<1>4. t.entries = <<>> <=> Len(t.entries) = 0
  BY <1>3
<1>5. <<>> \in Seq(EntrySet(t)) /\ Len(<<>>) = 0 /\ 1..0 = {} /\ 0 + 1 = 1
  OBVIOUS
<1>6. ApicHeader = 44 /\ HeaderSize + 8 = 44 /\ HeaderSize = 36
  BY DEF ApicHeader, HeaderSize
<1>7. t.length - 8 - HeaderSize = t.length - (HeaderSize + 8)
  BY <1>1, <1>6
<1>8. HeaderSize + 8 = IF 0 = Len(t.entries) THEN t.length ELSE t.entries[0 + 1].at
  BY <1>2, <1>4, <1>5, <1>6, Zenon
<1>9. 0 <= Len(t.entries)
  BY <1>1
<1>10. /\ 1..Len(<<>>) = {} /\ Len(<<>>) <= Len(t.entries)
       /\ HeaderSize + 8 = IF Len(<<>>) = Len(t.entries) THEN t.length
                           ELSE t.entries[Len(<<>>) + 1].at
  BY <1>5, <1>8, <1>9
<1> QED BY <1>5, <1>7, <1>10, Zenon DEF EntriesInv

\* Where it stands: on entry n + 1, or at the end when there is none.
StandsOnEntry(t, p, rem, n) ==
  /\ p \in Nat /\ rem \in Int /\ n \in Nat /\ Len(t.entries) \in Nat
  /\ rem = 0 => n = Len(t.entries)
  /\ rem # 0 => /\ n + 1 \in 1..Len(t.entries)
                /\ t.entries[n + 1].at = p
                /\ \A k \in 1..Len(t.entries) : t.entries[k].at = p => k = n + 1

\* Where the walk over a table's entries can be.
LEMMA EntriesAtEnd ==
  ASSUME NEW t, IsApic(t), NEW p, NEW rem, NEW s, EntriesInv(t, p, rem, s)
  PROVE  StandsOnEntry(t, p, rem, Len(s))
<1> DEFINE n == Len(s) + 1
<1>1. /\ Len(t.entries) \in Nat /\ t.length \in Nat
      /\ \A k \in 1..Len(t.entries) :
           /\ t.entries[k].at \in Nat /\ t.entries[k].length \in Nat
           /\ t.entries[k].length >= 2
           /\ t.entries[k].at + t.entries[k].length <= t.length
      /\ \A j, k \in 1..Len(t.entries) : t.entries[j].at = t.entries[k].at => j = k
  BY EntriesInside, Zenon DEF IsApic
<1>2. Len(s) \in Nat /\ Len(s) <= Len(t.entries)
  BY Element, Zenon DEF EntriesInv
<1>3. Len(s) # Len(t.entries) => n \in 1..Len(t.entries)
  BY <1>1, <1>2
<1>4. /\ p = IF Len(s) = Len(t.entries) THEN t.length ELSE t.entries[n].at
      /\ rem = t.length - p
  BY Zenon DEF EntriesInv
<1> HIDE DEF n
<1>5. CASE Len(s) = Len(t.entries)
  <2>1. p \in Nat /\ rem = 0 /\ rem \in Int
    BY <1>1, <1>4, <1>5
  <2> QED BY <1>1, <1>2, <1>5, <2>1, Zenon DEF StandsOnEntry
<1>6. CASE Len(s) # Len(t.entries)
  <2>1. n \in 1..Len(t.entries) /\ p = t.entries[n].at
    BY <1>3, <1>4, <1>6, Zenon
  <2>2. PICK a \in Nat, l \in Nat : /\ a = t.entries[n].at /\ l = t.entries[n].length
                                  /\ l >= 2 /\ a + l <= t.length
    BY <1>1, <2>1, Zenon
  <2>3. rem = t.length - a
    BY <1>4, <2>1, <2>2, Zenon
  <2>4. rem \in Int /\ rem # 0
    BY <1>1, <2>2, <2>3, SMTT(30)
  <2> QED BY <1>1, <1>2, <2>1, <2>2, <2>4, ZenonT(30) DEF n, StandsOnEntry
<1> QED BY <1>5, <1>6

\* APICEntryIter::next.
LEMMA EntriesNext ==
  ASSUME NEW t, IsApic(t), NEW p, NEW rem, NEW s, EntriesInv(t, p, rem, s), rem # 0,
         NEW k \in DOMAIN t.entries, t.entries[k].at = p
  PROVE  EntriesInv(t, p + t.entries[k].length, rem - t.entries[k].length,
                    Append(s, APICEntry(t.entries[k])))
<1> DEFINE e == APICEntry(t.entries[k])
           len == t.entries[k].length
<1>1. /\ Len(t.entries) \in Nat /\ t.length \in Nat /\ DOMAIN t.entries = 1..Len(t.entries)
      /\ \A i \in 1..Len(t.entries) :
           /\ t.entries[i].length \in Nat
           /\ t.entries[i].at + t.entries[i].length =
                 IF i = Len(t.entries) THEN t.length ELSE t.entries[i + 1].at
  BY EntriesInside, Zenon DEF IsApic
<1>2. p \in Nat /\ Len(s) \in Nat /\ Len(s) + 1 \in 1..Len(t.entries) /\ k = Len(s) + 1
  <2>1. DOMAIN t.entries = 1..Len(t.entries)
    BY <1>1, Zenon
  <2>2. /\ p \in Nat /\ Len(s) \in Nat
        /\ rem # 0 => /\ Len(s) + 1 \in 1..Len(t.entries)
                      /\ \A i \in 1..Len(t.entries) : t.entries[i].at = p => i = Len(s) + 1
    <3>1. StandsOnEntry(t, p, rem, Len(s))
      BY EntriesAtEnd, Zenon
    <3> QED BY <3>1, Zenon DEF StandsOnEntry
  <2> QED BY <2>1, <2>2, Zenon
<1>3. s \in Seq(EntrySet(t)) /\ e \in EntrySet(t)
  BY Zenon DEF EntriesInv, EntrySet
<1> HIDE DEF e, len
<1>4. /\ Append(s, e) \in Seq(EntrySet(t)) /\ Len(Append(s, e)) = Len(s) + 1
      /\ Append(s, e)[Len(s) + 1] = e
      /\ \A i \in 1..Len(s) : Append(s, e)[i] = s[i]
  BY <1>3, SMT
<1>5. Len(s) + 1 <= Len(t.entries) /\ \A i \in 1..Len(s)+1 : i \in 1..Len(s) \/ i = Len(s) + 1
  BY <1>1, <1>2
<1>6. \A i \in 1..Len(Append(s, e)) : Append(s, e)[i] = APICEntry(t.entries[i])
  BY <1>2, <1>4, <1>5, ZenonT(30) DEF e, EntriesInv
<1>7. p + len = IF Len(s) + 1 = Len(t.entries) THEN t.length ELSE t.entries[Len(s) + 1 + 1].at
  BY <1>1, <1>2, ZenonT(30) DEF len
<1>8. rem = t.length - p /\ len \in Nat
  BY <1>1, Zenon DEF EntriesInv, len
<1>9. rem - len = t.length - (p + len)
  BY <1>1, <1>2, <1>8
<1>10. EntriesInv(t, p + len, rem - len, Append(s, e))
  BY <1>4, <1>5, <1>6, <1>7, <1>9, Zenon DEF EntriesInv
<1> QED BY <1>10, Zenon DEF e, len

\* Pointers of w bytes: how many fit, and the number of the one at an offset.
LEMMA Pointers ==
  ASSUME NEW w \in {4, 8}, NEW n \in Nat, NEW rest \in 0..w-1
  PROVE  (w * n + rest) \div w = n /\ (w * n) \div w = n /\ (w * n) % w = 0 /\ w * n \in Nat
<1>1. CASE w = 4
  BY <1>1
<1>2. CASE w = 8
  BY <1>2
<1> QED BY <1>1, <1>2

TableSet(f) == {AcipEntry(f.tables[k]) : k \in DOMAIN f.tables}

\* RSDTIter has yielded fd, one entry for each of the first tables.
RootInv(f, rs, p, lf, fd, wk) ==
  /\ fd \in Seq(TableSet(f)) /\ Len(fd) <= Len(f.tables)
  /\ \A k \in 1..Len(fd) : fd[k] = AcipEntry(f.tables[k])
  /\ wk \in {"load", "iter"} => fd = <<>>
  /\ wk # "load" => /\ rs.start = RsdtAddr + HeaderSize
                    /\ rs.size = RootWidth(f) /\ rs.count = Len(f.tables)
  /\ wk \notin {"load", "iter"} => /\ p = RsdtAddr + HeaderSize + RootWidth(f) * Len(fd)
                                   /\ lf = Len(f.tables) - Len(fd)
  /\ wk = "done" => lf = 0

AcpiInv ==
  /\ firmware \in Firmwares
  /\ RootInv(firmware, rsdt, ptr, left, found, walk)
  /\ walk = "entries" =>
       /\ apic \in DOMAIN firmware.tables /\ IsApic(firmware.tables[apic])
       /\ EntriesInv(firmware.tables[apic], entry_ptr, remaining_size, seen)

\* The invariant holds before RSDT::load.
LEMMA AcpiStart == AcpiInit => AcpiInv
<1> SUFFICES ASSUME AcpiInit PROVE AcpiInv
  OBVIOUS
<1>1. IsFirmware(firmware) /\ firmware \in Firmwares
  BY AcpiAssumption, Zenon DEF AcpiInit
<1>2. 0 <= Len(firmware.tables)
  BY <1>1 DEF IsFirmware
<1>3. <<>> \in Seq(TableSet(firmware)) /\ Len(<<>>) <= Len(firmware.tables) /\ 1..Len(<<>>) = {}
  BY <1>2
<1>4. found = <<>> /\ walk = "load"
  BY Zenon DEF AcpiInit
<1> QED BY <1>1, <1>3, <1>4, Zenon DEF AcpiInv, RootInv

\* What the walk relies on in a root table.
LEMMA FirmwareFacts ==
  ASSUME NEW f \in Firmwares
  PROVE  /\ Len(f.tables) \in Nat /\ DOMAIN f.tables = 1..Len(f.tables)
         /\ RootWidth(f) \in {4, 8}
         /\ (f.length - HeaderSize) \div RootWidth(f) = Len(f.tables)
         /\ \A k \in DOMAIN f.tables : IsTable(f.tables[k])
<1>1. IsFirmware(f)
  BY AcpiAssumption, Zenon
<1>2. PICK w \in {4, 8} : w = RootWidth(f)
  BY DEF RootWidth
<1>3. PICK n \in Nat : n = Len(f.tables)
  BY <1>1, Zenon DEF IsFirmware
<1>4. PICK rest \in 0..w-1 : f.length = HeaderSize + w * n + rest
  BY <1>1, <1>2, <1>3, Zenon DEF IsFirmware
<1>5. (w * n + rest) \div w = n /\ w * n \in Nat
  BY Pointers, Zenon
<1>6. f.length - HeaderSize = w * n + rest
  BY <1>4, <1>5 DEF HeaderSize
<1> QED BY <1>1, <1>2, <1>3, <1>5, <1>6, Zenon DEF IsFirmware

\* Only the table with signature APIC becomes an interrupt controller table.
LEMMA ApicTable == ASSUME NEW t, AcipEntry(t) = "Apic" PROVE t.signature = "APIC"
  BY DEF AcipEntry, Kinds

\* The pointer the walk stands on after n tables is that of table n + 1.
LEMMA FirmwarePointer ==
  ASSUME firmware \in Firmwares, NEW n \in Nat, n < Len(firmware.tables)
  PROVE  PointerAt(RsdtAddr + HeaderSize + RootWidth(firmware) * n, RootWidth(firmware)) = n + 1
<1> DEFINE first == RsdtAddr + HeaderSize
<1>1. PICK w \in {4, 8} : w = RootWidth(firmware)
  BY FirmwareFacts, Zenon
<1>2. (w * n) \div w = n /\ (w * n) % w = 0 /\ w * n \in Nat
  <2>1. 0 \in 0..w-1
    OBVIOUS
  <2> QED BY <2>1, Pointers, Zenon
<1>3. (first + w * n) - first = w * n
  BY <1>2, AcpiAssumption DEF HeaderSize
<1>4. Len(firmware.tables) \in Nat /\ DOMAIN firmware.tables = 1..Len(firmware.tables)
  BY FirmwareFacts, Zenon
<1>5. n + 1 \in DOMAIN firmware.tables
  BY <1>4
<1>6. ((first + w * n) - first) \div w + 1 = n + 1 /\ ((first + w * n) - first) % w = 0
  BY <1>2, <1>3, Zenon
<1>7. PointerAt(first + w * n, w) = n + 1
  BY <1>1, <1>5, <1>6, ZenonT(30) DEF PointerAt
<1> QED BY <1>1, <1>7, Zenon

\* RSDT::load.
LEMMA LoadStep ==
  ASSUME AcpiInv, RSDT_load
  PROVE  AcpiInv'
<1>1. /\ walk = "load" /\ walk' = "iter" /\ UNCHANGED <<firmware, found>>
      /\ rsdt' = [start |-> RsdtAddr + HeaderSize, size |-> RootWidth(firmware),
                  count |-> (firmware.length - HeaderSize) \div RootWidth(firmware)]
  BY Zenon DEF RSDT_load, RootWidth, acpi_iter
<1>2. /\ rsdt'.start = RsdtAddr + HeaderSize /\ rsdt'.size = RootWidth(firmware)
      /\ rsdt'.count = (firmware.length - HeaderSize) \div RootWidth(firmware)
  BY <1>1, Zenon
<1>3. rsdt'.count = Len(firmware.tables)
  BY <1>2, FirmwareFacts, Zenon DEF AcpiInv
<1> QED BY <1>1, <1>2, <1>3, Zenon DEF AcpiInv, RootInv

\* RSDT::iter.
LEMMA IterStep ==
  ASSUME AcpiInv, iter
  PROVE  AcpiInv'
<1>1. /\ walk = "iter" /\ walk' = "next" /\ UNCHANGED <<firmware, found, rsdt>>
      /\ ptr' = rsdt.start /\ left' = rsdt.count
  BY Zenon DEF iter
<1>2. PICK w \in {4, 8}, n \in Nat : w = RootWidth(firmware) /\ n = Len(firmware.tables)
  BY FirmwareFacts, Zenon DEF AcpiInv
<1>3. found = <<>> /\ rsdt.start = RsdtAddr + HeaderSize /\ rsdt.count = n
  BY <1>1, <1>2, Zenon DEF AcpiInv, RootInv
<1>4. Len(<<>>) = 0 /\ n - 0 = n
  BY <1>2
<1>5. RsdtAddr + HeaderSize + w * 0 = RsdtAddr + HeaderSize
  BY AcpiAssumption DEF HeaderSize
<1>6. /\ ptr' = RsdtAddr + HeaderSize + RootWidth(firmware) * Len(found)
      /\ left' = Len(firmware.tables) - Len(found)
  BY <1>1, <1>2, <1>3, <1>4, <1>5, Zenon
<1> QED BY <1>1, <1>6, Zenon DEF AcpiInv, RootInv

\* RSDTIter::next.
LEMMA TableStep ==
  ASSUME AcpiInv, RSDTIter_next
  PROVE  AcpiInv'
<1> DEFINE n == Len(found)
           t == firmware.tables[n + 1]
           e == AcipEntry(t)
<1>0. /\ firmware \in Firmwares /\ found \in Seq(TableSet(firmware)) /\ n <= Len(firmware.tables)
      /\ rsdt.size = RootWidth(firmware)
      /\ ptr = RsdtAddr + HeaderSize + RootWidth(firmware) * n
      /\ left = Len(firmware.tables) - n
      /\ walk = "next" /\ left > 0
  BY Zenon DEF AcpiInv, RootInv, RSDTIter_next
<1>1. /\ Len(firmware.tables) \in Nat /\ DOMAIN firmware.tables = 1..Len(firmware.tables)
      /\ RootWidth(firmware) \in {4, 8}
      /\ \A k \in DOMAIN firmware.tables : IsTable(firmware.tables[k])
  BY <1>0, FirmwareFacts, Zenon
<1>2. n \in Nat
  BY <1>0, Element, Zenon
<1> HIDE DEF n
<1>3. n < Len(firmware.tables) /\ n + 1 \in 1..Len(firmware.tables) /\ n + 1 # 0
  BY <1>0, <1>1, <1>2
<1>4. PointerAt(ptr, rsdt.size) = n + 1
  BY <1>0, <1>2, <1>3, FirmwarePointer, Zenon
<1>5. /\ found' = Append(found, e) /\ ptr' = ptr + rsdt.size /\ left' = left - 1
      /\ UNCHANGED <<firmware, rsdt>>
      /\ IF e = "Apic"
         THEN /\ apic' = n + 1 /\ entry_ptr' = HeaderSize + 8
              /\ remaining_size' = t.length - 8 - HeaderSize
              /\ seen' = <<>> /\ walk' = "entries"
         ELSE walk' = walk
  BY <1>3, <1>4, ZenonT(30) DEF RSDTIter_next
<1>6. e \in TableSet(firmware)
  BY <1>1, <1>3, Zenon DEF TableSet
<1> HIDE DEF e
<1>7. /\ Append(found, e) \in Seq(TableSet(firmware)) /\ Len(Append(found, e)) = n + 1
      /\ Append(found, e)[n + 1] = e
      /\ \A i \in 1..n : Append(found, e)[i] = found[i]
  BY <1>0, <1>6 DEF n
<1>8. /\ n + 1 <= Len(firmware.tables)
      /\ \A i \in 1..n+1 : i \in 1..n \/ i = n + 1
  BY <1>1, <1>2, <1>3
<1>9. \A k \in 1..n+1 : Append(found, e)[k] = AcipEntry(firmware.tables[k])
  <2>1. \A k \in 1..n : found[k] = AcipEntry(firmware.tables[k])
    BY Zenon DEF AcpiInv, RootInv, n
  <2> QED BY <1>7, <1>8, <2>1, Zenon DEF e
<1>10. /\ ptr' = RsdtAddr + HeaderSize + RootWidth(firmware) * (n + 1)
       /\ left' = Len(firmware.tables) - (n + 1)
  <2>1. PICK w \in {4, 8} : w = RootWidth(firmware)
    BY <1>1, Zenon
  <2>2. RsdtAddr + HeaderSize + w * n + w = RsdtAddr + HeaderSize + w * (n + 1)
    BY <1>2, AcpiAssumption DEF HeaderSize
  <2>3. Len(firmware.tables) - n - 1 = Len(firmware.tables) - (n + 1)
    BY <1>1, <1>2
  <2> QED BY <1>0, <1>5, <2>1, <2>2, <2>3, Zenon
<1>11. walk' \in {"next", "entries"} /\ (walk' = "entries" => e = "Apic")
  BY <1>0, <1>5, Zenon
<1>12. RootInv(firmware', rsdt', ptr', left', found', walk')
  <2>1. walk' \notin {"load", "iter", "done"}
    BY <1>11
  <2>2. /\ rsdt.start = RsdtAddr + HeaderSize
        /\ rsdt.size = RootWidth(firmware) /\ rsdt.count = Len(firmware.tables)
    BY <1>0, Zenon DEF AcpiInv, RootInv
  <2> QED BY <1>5, <1>7, <1>8, <1>9, <1>10, <2>1, <2>2, Zenon DEF RootInv
<1>13. ASSUME walk' = "entries"
       PROVE  /\ n + 1 \in DOMAIN firmware.tables /\ IsApic(t)
              /\ EntriesInv(t, entry_ptr', remaining_size', seen') /\ apic' = n + 1
  <2>1. e = "Apic"
    BY <1>11, <1>13, Zenon
  <2>2. IsApic(t)
    BY <1>1, <1>3, <2>1, ApicTable, Zenon DEF IsApic, e
  <2> QED BY <1>1, <1>3, <1>5, <2>1, <2>2, EntriesBegin, Zenon
<1> QED BY <1>0, <1>5, <1>12, <1>13, Zenon DEF AcpiInv

\* APICEntryIter::next.
LEMMA EntryStep ==
  ASSUME AcpiInv, APICEntryIter_next
  PROVE  AcpiInv'
<1> DEFINE t == firmware.tables[apic]
<1>1. walk = "entries" /\ remaining_size # 0 /\ UNCHANGED <<firmware, rsdt, ptr, left, found, apic, walk>>
  BY Zenon DEF APICEntryIter_next
<1>2. PICK k \in DOMAIN t.entries :
        /\ t.entries[k].at = entry_ptr
        /\ seen' = Append(seen, APICEntry(t.entries[k]))
        /\ entry_ptr' = entry_ptr + t.entries[k].length
        /\ remaining_size' = remaining_size - t.entries[k].length
  BY Zenon DEF APICEntryIter_next, EntriesAt, Entries
<1>3. IsApic(t) /\ EntriesInv(t, entry_ptr, remaining_size, seen) /\ apic \in DOMAIN firmware.tables
  BY <1>1, Zenon DEF AcpiInv
<1> HIDE DEF t
<1>4. EntriesInv(t, entry_ptr + t.entries[k].length, remaining_size - t.entries[k].length,
                 Append(seen, APICEntry(t.entries[k])))
  BY <1>1, <1>2, <1>3, EntriesNext, Zenon
<1>5. EntriesInv(t, entry_ptr', remaining_size', seen')
  BY <1>2, <1>4, Zenon
<1> QED BY <1>1, <1>3, <1>5, Zenon DEF AcpiInv, t

\* Every step of the walk keeps the invariant.
LEMMA AcpiStep == AcpiInv /\ [RSDT_load \/ get_rsdt_entries]_acpi_vars => AcpiInv'
<1> SUFFICES ASSUME AcpiInv, [RSDT_load \/ get_rsdt_entries]_acpi_vars PROVE AcpiInv'
  OBVIOUS
<1>1. CASE RSDTIter_end
  <2>1. /\ walk = "next" /\ left = 0 /\ walk' = "done"
        /\ UNCHANGED <<firmware, rsdt, ptr, left, found>>
    BY <1>1, Zenon DEF RSDTIter_end, acpi_iter
  <2> QED BY <2>1, Zenon DEF AcpiInv, RootInv
<1>2. CASE APICEntryIter_end
  <2>1. /\ walk = "entries" /\ walk' = "next"
        /\ UNCHANGED <<firmware, rsdt, ptr, left, found>>
    BY <1>2, Zenon DEF APICEntryIter_end, acpi_iter
  <2> QED BY <2>1, Zenon DEF AcpiInv, RootInv
<1>3. CASE UNCHANGED acpi_vars
  <2>1. UNCHANGED <<firmware, rsdt, ptr, left, found, apic, entry_ptr, remaining_size, seen, walk>>
    BY <1>3, Zenon DEF acpi_vars, acpi_iter
  <2> QED BY <2>1, Zenon DEF AcpiInv
<1> QED BY <1>1, <1>2, <1>3, LoadStep, IterStep, TableStep, EntryStep, Zenon DEF get_rsdt_entries

\* The invariant says how far the walk has come.
LEMMA AcpiInvWalked == AcpiInv => TablesWalked
<1> SUFFICES ASSUME AcpiInv PROVE TablesWalked
  OBVIOUS
<1> DEFINE t == firmware.tables[apic]
<1>1. /\ Len(firmware.tables) \in Nat /\ DOMAIN firmware.tables = 1..Len(firmware.tables)
  BY FirmwareFacts, Zenon DEF AcpiInv
<1>2. /\ found \in Seq(TableSet(firmware)) /\ Len(found) <= Len(firmware.tables)
      /\ \A k \in 1..Len(found) : found[k] = AcipEntry(firmware.tables[k])
      /\ walk = "done" => left = Len(firmware.tables) - Len(found) /\ left = 0
  BY Zenon DEF AcpiInv, RootInv
<1>3. Len(found) \in Nat /\ DOMAIN found = 1..Len(found)
  BY <1>2, Element, Zenon
<1>4. /\ 1..Len(found) \subseteq 1..Len(firmware.tables)
      /\ walk = "done" => Len(found) = Len(firmware.tables)
  <2>1. PICK m \in Nat, n \in Nat : m = Len(found) /\ n = Len(firmware.tables)
    BY <1>1, <1>3, Zenon
  <2>2. m <= n /\ (walk = "done" => n - m = 0)
    BY <1>2, <2>1, Zenon
  <2>3. 1..m \subseteq 1..n /\ (walk = "done" => m = n)
    BY <2>2
  <2> QED BY <2>1, <2>3, Zenon
<1>5. ASSUME walk = "entries"
      PROVE  /\ \A k \in DOMAIN seen : k \in DOMAIN t.entries /\ seen[k] = APICEntry(t.entries[k])
             /\ IF remaining_size = 0 THEN Len(seen) = Len(t.entries)
                ELSE \E k \in DOMAIN t.entries :
                       /\ t.entries[k].at = entry_ptr
                       /\ entry_ptr + EntryReads(t.entries[k].type) <= t.length
  <2>1. IsApic(t) /\ EntriesInv(t, entry_ptr, remaining_size, seen)
    BY <1>5, Zenon DEF AcpiInv
  <2> HIDE DEF t
  <2>2. StandsOnEntry(t, entry_ptr, remaining_size, Len(seen))
    BY <2>1, EntriesAtEnd, Zenon
  <2>3. /\ DOMAIN t.entries = 1..Len(t.entries) /\ Len(t.entries) \in Nat /\ t.length \in Nat
        /\ \A k \in 1..Len(t.entries) :
              /\ t.entries[k].at \in Nat /\ t.entries[k].length \in Nat
              /\ t.entries[k].length >= EntryReads(t.entries[k].type)
              /\ t.entries[k].at + t.entries[k].length <= t.length
    BY <2>1, EntriesInside, Zenon DEF IsApic
  <2>4. /\ seen \in Seq(EntrySet(t)) /\ Len(seen) <= Len(t.entries)
        /\ \A k \in 1..Len(seen) : seen[k] = APICEntry(t.entries[k])
    BY <2>1, Zenon DEF EntriesInv
  <2>5. Len(seen) \in Nat /\ DOMAIN seen = 1..Len(seen)
    BY <2>4, Element, Zenon
  <2>6. 1..Len(seen) \subseteq 1..Len(t.entries)
    BY <2>3, <2>4, <2>5
  <2>7. ASSUME remaining_size # 0
        PROVE  \E k \in DOMAIN t.entries :
                 /\ t.entries[k].at = entry_ptr
                 /\ entry_ptr + EntryReads(t.entries[k].type) <= t.length
    <3>1. PICK k \in 1..Len(t.entries) : t.entries[k].at = entry_ptr
      BY <2>2, <2>7, Zenon DEF StandsOnEntry
    <3>2. PICK r : r = EntryReads(t.entries[k].type)
      OBVIOUS
    <3>3. r \in Nat
      BY <3>2 DEF EntryReads
    <3>4. PICK a \in Nat, l \in Nat : a = t.entries[k].at /\ l >= r /\ a + l <= t.length
      BY <2>3, <3>2, Zenon
    <3>5. a + r <= t.length
      BY <2>3, <3>3, <3>4, SMTT(30)
    <3> QED BY <2>3, <3>1, <3>2, <3>4, <3>5, Zenon
  <2> QED BY <2>2, <2>3, <2>4, <2>5, <2>6, <2>7, ZenonT(30) DEF StandsOnEntry
<1>6. walk = "entries" =>
        /\ \A k \in DOMAIN seen : k \in DOMAIN Entries /\ seen[k] = APICEntry(Entries[k])
        /\ IF remaining_size = 0 THEN Len(seen) = Len(Entries)
           ELSE \E k \in EntriesAt(entry_ptr) :
                  entry_ptr + EntryReads(Entries[k].type) <= firmware.tables[apic].length
  BY <1>5, ZenonT(30) DEF Entries, EntriesAt
<1> QED BY <1>1, <1>2, <1>3, <1>4, <1>6, ZenonT(30) DEF TablesWalked
=============================================================================
