--------------------------- MODULE BinWriters_proofs ---------------------------
(***************************************************************************)
(* Proofs about BinWriters, for any number of files, seconds, processes    *)
(* and failing calls: what the files look like and what a reader makes of  *)
(* them, that a shutdown without an error lost nothing, that acknowledged  *)
(* seconds are recovered from a file that is not torn, and that the files  *)
(* implement the append-only log.                                          *)
(***************************************************************************)
EXTENDS BinWriters, Integers, SequenceTheorems, FiniteSetTheorems, WellFoundedInduction, TLAPS

\* The order in which the cells of a file were appended.
Before(c, d) == c[1] < d[1] \/ (c[1] = d[1] /\ c[2] < d[2])

\* The cells of a file, torn or not: the header first, in the order of the seconds,
\* and every cell begins a record or continues the one before it.
Shaped(f) ==
  /\ f \in Seq(Cell)
  /\ f # <<>> => f[1] = <<Header, 1>>
  /\ \A i, j \in 1..Len(f) : i < j => Before(f[i], f[j])
  /\ \A j \in 2..Len(f) : f[j][2] = 1 \/ f[j] = <<f[j - 1][1], f[j - 1][2] + 1>>

\* The record of r ends the file; it is whole among the first y cells.
EndsWith(f, r) == Len(f) >= 2 /\ \A k \in 1..2 : f[Len(f) - 2 + k] = <<r, k>>
Whole(f, y, r) == \E p \in 1..Len(f) : p + 1 <= y /\ \A k \in 1..2 : f[p - 1 + k] = <<r, k>>

\* The frames a reader gets from a file that is not torn.
FramesOf(f) == IF Len(f) < 2 THEN 0 ELSE (Len(f) \div 2) - 1

-----------------------------------------------------------------------------
(* Naturals. *)

\* A nonempty set of naturals has a least element.
LEMMA LeastElement ==
  ASSUME NEW T, T \subseteq Nat, T # {}
  PROVE  \E x \in T : \A y \in T : x <= y
<1> DEFINE Less == OpToRel(<, Nat)
<1>1. IsWellFoundedOn(Less, Nat)
  BY NatLessThanWellFounded
<1>2. \A x, y \in Nat : y < x => <<y, x>> \in Less
  BY DEF OpToRel
<1> HIDE DEF Less
<1>3. PICK x \in T : \A y \in T : ~ (<<y, x>> \in Less)
  BY <1>1, WFMin
<1>4. ASSUME NEW y \in T PROVE x <= y
  <2>1. x \in Nat /\ y \in Nat
    OBVIOUS
  <2>2. <<y, x>> \notin Less
    BY <1>3
  <2>3. ~(y < x)
    BY <1>2, <2>1, <2>2
  <2> QED
    BY <2>1, <2>3
<1>5. \A y \in T : x <= y
  BY <1>4
<1> QED
  BY <1>5

\* A nonempty bounded set of naturals has a maximum.
LEMMA MaxBounded ==
  ASSUME NEW T, T \subseteq Nat, T # {}, NEW b \in Nat, \A x \in T : x <= b
  PROVE  Max(T) \in T /\ \A y \in T : y <= Max(T)
<1> DEFINE U == {b - x : x \in T}
<1>1. U \subseteq Nat
  <2>1. ASSUME NEW x \in T PROVE b - x \in Nat
    OBVIOUS
  <2> QED
    BY <2>1
<1>2. U # {}
  OBVIOUS
<1>3. PICK u \in U : \A v \in U : u <= v
  BY <1>1, <1>2, LeastElement
<1>4. PICK x \in T : u = b - x
  BY <1>3
<1>5. ASSUME NEW y \in T PROVE x >= y
  <2>1. b - y \in U
    OBVIOUS
  <2>2. b - x <= b - y
    BY <2>1, <1>3, <1>4
  <2> QED
    BY <2>2
<1>6. \E z \in T : \A y \in T : z >= y
  BY <1>5
<1>7. Max(T) \in T /\ \A y \in T : Max(T) >= y
  BY <1>6 DEF Max
<1> QED
  BY <1>7

\* It is the element that bounds the others.
LEMMA MaxIs ==
  ASSUME NEW T, T \subseteq Nat, NEW m \in T, \A x \in T : x <= m
  PROVE  Max(T) = m
<1>1. m \in Nat /\ T # {}
  OBVIOUS
<1>2. Max(T) \in T /\ m <= Max(T)
  BY <1>1, MaxBounded
<1>3. Max(T) \in Nat /\ Max(T) <= m
  BY <1>2
<1> QED
  BY <1>1, <1>2, <1>3

\* One number per artifact: their largest is one of them.
LEMMA MaxOverArt ==
  ASSUME NEW g \in [Art -> Nat]
  PROVE  /\ Max({g[a] : a \in Art}) \in Nat
         /\ \E a \in Art : g[a] = Max({g[b] : b \in Art})
         /\ \A a \in Art : g[a] <= Max({g[b] : b \in Art})
<1>n. Artifacts \in Nat /\ Artifacts >= 1
  BY BinWritersAssumption DEF BinWritersAssumption
<1> DEFINE Bounds(k, b) == \A a \in 1..k : g[a] <= b
           Bad == {k \in 1..Artifacts : \A b \in Nat : ~Bounds(k, b)}
<1>1. Bad = {}
  <2> SUFFICES ASSUME Bad # {} PROVE FALSE
    OBVIOUS
  <2>1. PICK k \in Bad : \A y \in Bad : k <= y
    <3>1. Bad \subseteq Nat
      BY <1>n
    <3> QED
      BY <3>1, LeastElement
  <2>2. k \in 1..Artifacts /\ g[k] \in Nat
    BY <1>n DEF Art
  <2>3. CASE k = 1
    <3>1. \A a \in 1..k : g[a] <= g[k]
      BY <2>2, <2>3
    <3> QED
      BY <3>1, <2>1, <2>2
  <2>4. CASE k # 1
    <3>1. k - 1 \in 1..Artifacts /\ k - 1 \notin Bad
      <4>1. k - 1 \in 1..Artifacts /\ ~(k <= k - 1)
        BY <2>2, <2>4, <1>n
      <4> QED
        BY <4>1, <2>1
    <3>2. PICK b \in Nat : Bounds(k - 1, b)
      BY <3>1
    <3>3. b + g[k] \in Nat
      BY <2>2
    <3>4. ASSUME NEW a \in 1..k PROVE g[a] <= b + g[k]
      <4>1. g[a] \in Nat
        <5>1. a \in Art
          BY <2>2, <1>n DEF Art
        <5> QED
          BY <5>1
      <4>2. CASE a = k
        BY <4>2, <2>2
      <4>3. CASE a # k
        <5>1. a \in 1..(k - 1)
          BY <4>3, <2>2, <1>n
        <5>2. g[a] <= b
          BY <5>1, <3>2
        <5> QED
          BY <5>2, <4>1, <2>2
      <4> QED
        BY <4>2, <4>3
    <3> QED
      BY <3>3, <3>4, <2>1
  <2> QED
    BY <2>3, <2>4
<1>2. PICK b \in Nat : \A a \in Art : g[a] <= b
  <2>1. Artifacts \in 1..Artifacts
    BY <1>n
  <2>2. \E b \in Nat : Bounds(Artifacts, b)
    BY <1>1, <2>1
  <2> QED
    BY <2>2 DEF Art
<1> DEFINE T == {g[a] : a \in Art}
<1>3. T \subseteq Nat /\ T # {} /\ \A x \in T : x <= b
  <2>1. 1 \in Art
    BY <1>n DEF Art
  <2> QED
    BY <2>1, <1>2
<1> HIDE DEF T
<1>4. Max(T) \in T /\ \A y \in T : y <= Max(T)
  BY <1>3, MaxBounded
<1> QED
  BY <1>3, <1>4 DEF T

-----------------------------------------------------------------------------
(* Sequences. *)

\* A function on an initial interval is a sequence.
LEMMA FunctionIsSeq ==
  ASSUME NEW S, NEW k \in Nat, NEW h \in [1..k -> S]
  PROVE  h \in Seq(S) /\ Len(h) = k
<1>1. h \in Seq(S)
  BY SeqDef, Zenon
<1>2. DOMAIN h = 1..k /\ DOMAIN h = 1..Len(h) /\ Len(h) \in Nat
  BY <1>1, LenProperties
<1> QED
  BY <1>1, <1>2

\* The elements of a concatenation.
LEMMA ConcatCells ==
  ASSUME NEW S, NEW s \in Seq(S), NEW t \in Seq(S)
  PROVE  /\ s \o t \in Seq(S) /\ Len(s \o t) = Len(s) + Len(t)
         /\ \A i \in 1..Len(s) : (s \o t)[i] = s[i]
         /\ \A i \in 1..Len(t) : (s \o t)[Len(s) + i] = t[i]
<1>1. Len(s) \in Nat /\ Len(t) \in Nat
  BY LenProperties
<1>2. /\ s \o t \in Seq(S) /\ Len(s \o t) = Len(s) + Len(t)
      /\ \A i \in 1..Len(s) + Len(t) : (s \o t)[i] = IF i <= Len(s) THEN s[i] ELSE t[i - Len(s)]
  BY ConcatProperties
<1>3. ASSUME NEW i \in 1..Len(s) PROVE (s \o t)[i] = s[i]
  <2>1. i \in 1..Len(s) + Len(t) /\ i <= Len(s)
    BY <1>1
  <2> QED
    BY <2>1, <1>2
<1>4. ASSUME NEW i \in 1..Len(t) PROVE (s \o t)[Len(s) + i] = t[i]
  <2>1. Len(s) + i \in 1..Len(s) + Len(t) /\ ~(Len(s) + i <= Len(s)) /\ (Len(s) + i) - Len(s) = i
    BY <1>1
  <2> QED
    BY <2>1, <1>2
<1> QED
  BY <1>2, <1>3, <1>4

-----------------------------------------------------------------------------
(* The shape of a file. *)

\* What is left of a file that is cut short is a file; a record appended to it, later
\* than all it holds, makes another.
LEMMA ShapedPrefix ==
  ASSUME NEW f, Shaped(f), NEW m \in 0..Len(f)
  PROVE  /\ Shaped(SubSeq(f, 1, m)) /\ Len(SubSeq(f, 1, m)) = m
         /\ \A i \in 1..m : SubSeq(f, 1, m)[i] = f[i]
<1> DEFINE g == SubSeq(f, 1, m)
<1>1. f \in Seq(Cell) /\ Len(f) \in Nat /\ m \in Nat /\ m <= Len(f)
  BY LenProperties DEF Shaped
<1>2. g \in Seq(Cell) /\ Len(g) = m /\ \A i \in 1..m : g[i] = f[i]
  BY <1>1, SubSeqProperties
<1> HIDE DEF g
<1>3. g # <<>> => g[1] = <<Header, 1>>
  <2> SUFFICES ASSUME g # <<>> PROVE g[1] = <<Header, 1>>
    OBVIOUS
  <2>1. m >= 1
    BY <1>1, <1>2, EmptySeq
  <2>2. f # <<>> /\ 1 \in 1..m
    BY <2>1, <1>1, EmptySeq
  <2> QED
    BY <2>2, <1>2 DEF Shaped
<1>4. ASSUME NEW i \in 1..Len(g), NEW j \in 1..Len(g), i < j PROVE Before(g[i], g[j])
  <2>1. i \in 1..m /\ j \in 1..m /\ i \in 1..Len(f) /\ j \in 1..Len(f)
    BY <1>1, <1>2
  <2>2. g[i] = f[i] /\ g[j] = f[j]
    BY <2>1, <1>2
  <2>3. Before(f[i], f[j])
    BY <2>1, <1>4 DEF Shaped
  <2> QED
    BY <2>2, <2>3
<1>5. ASSUME NEW j \in 2..Len(g)
      PROVE  g[j][2] = 1 \/ g[j] = <<g[j - 1][1], g[j - 1][2] + 1>>
  <2>1. j \in 1..m /\ j - 1 \in 1..m /\ j \in 2..Len(f)
    BY <1>1, <1>2
  <2>2. g[j] = f[j] /\ g[j - 1] = f[j - 1]
    BY <2>1, <1>2
  <2>3. f[j][2] = 1 \/ f[j] = <<f[j - 1][1], f[j - 1][2] + 1>>
    BY <2>1 DEF Shaped
  <2> QED
    BY <2>2, <2>3
<1> QED
  BY <1>2, <1>3, <1>4, <1>5 DEF Shaped, g

\* A cell is a pair.
LEMMA CellPair ==
  ASSUME NEW f, Shaped(f), NEW i \in 1..Len(f)
  PROVE  /\ f[i] \in Cell /\ f[i][1] \in 0..MaxSecond /\ f[i][2] \in 1..2
         /\ f[i] = <<f[i][1], f[i][2]>> /\ Len(f) \in Nat
<1>1. f \in Seq(Cell)
  BY DEF Shaped
<1>2. f[i] \in Cell /\ Len(f) \in Nat
  BY <1>1, ElementOfSeq, LenProperties
<1> QED
  BY <1>2 DEF Cell, RecLen

\* The two cells of a record.
LEMMA RecordCells ==
  ASSUME NEW r \in 0..MaxSecond
  PROVE  /\ Record(r) \in Seq(Cell) /\ Len(Record(r)) = 2
         /\ Record(r)[1] = <<r, 1>> /\ Record(r)[2] = <<r, 2>>
<1>1. ASSUME NEW k \in 1..2 PROVE <<r, k>> \in Cell
  BY DEF Cell, RecLen
<1>2. Record(r) \in [1..2 -> Cell]
  BY <1>1 DEF Record, RecLen
<1>3. Record(r) \in Seq(Cell) /\ Len(Record(r)) = 2
  BY <1>2, FunctionIsSeq
<1> QED
  BY <1>3 DEF Record, RecLen

\* Appending a record.
LEMMA ShapedAppend ==
  ASSUME NEW f, Shaped(f), NEW r \in 0..MaxSecond, f = <<>> <=> r = Header,
         \A j \in 1..Len(f) : f[j][1] < r
  PROVE  /\ Shaped(f \o Record(r)) /\ EndsWith(f \o Record(r), r)
         /\ Len(f \o Record(r)) = Len(f) + 2
         /\ \A i \in 1..Len(f) : (f \o Record(r))[i] = f[i]
<1> DEFINE g == f \o Record(r)
           n == Len(f)
<1>s. MaxSecond \in Nat
  BY BinWritersAssumption DEF BinWritersAssumption
<1>1. f \in Seq(Cell) /\ n \in Nat
  BY LenProperties DEF Shaped
<1>2. /\ g \in Seq(Cell) /\ Len(g) = n + 2 /\ \A i \in 1..n : g[i] = f[i]
      /\ \A i \in 1..2 : g[n + i] = Record(r)[i]
  <2>1. Record(r) \in Seq(Cell) /\ Len(Record(r)) = 2
    BY RecordCells
  <2>2. /\ f \o Record(r) \in Seq(Cell) /\ Len(f \o Record(r)) = Len(f) + Len(Record(r))
        /\ \A i \in 1..Len(f) : (f \o Record(r))[i] = f[i]
        /\ \A i \in 1..Len(Record(r)) : (f \o Record(r))[Len(f) + i] = Record(r)[i]
    <3> DEFINE t == Record(r)
    <3>1. t \in Seq(Cell) /\ f \in Seq(Cell)
      BY <2>1, <1>1
    <3> HIDE DEF t
    <3>2. /\ f \o t \in Seq(Cell) /\ Len(f \o t) = Len(f) + Len(t)
          /\ \A i \in 1..Len(f) : (f \o t)[i] = f[i]
          /\ \A i \in 1..Len(t) : (f \o t)[Len(f) + i] = t[i]
      BY <3>1, ConcatCells
    <3> QED
      BY <3>2 DEF t
  <2> QED
    BY <2>1, <2>2
<1> HIDE DEF g
<1>3. g[n + 1] = <<r, 1>> /\ g[n + 2] = <<r, 2>>
  BY <1>2, RecordCells
<1>4. g[1] = <<Header, 1>>
  <2>1. CASE f = <<>>
    <3>1. n = 0
      BY <2>1
    <3> QED
      BY <3>1, <2>1, <1>3
  <2>2. CASE f # <<>>
    <3>1. 1 \in 1..n
      BY <2>2, <1>1, EmptySeq
    <3> QED
      BY <3>1, <2>2, <1>2 DEF Shaped
  <2> QED
    BY <2>1, <2>2
<1>5. ASSUME NEW i \in 1..Len(g)
      PROVE  \/ i \in 1..n /\ g[i] = f[i]
             \/ \E k \in 1..2 : i = n + k /\ g[i] = <<r, k>>
  <2>1. i \in 1..n \/ i = n + 1 \/ i = n + 2
    BY <1>1, <1>2
  <2> QED
    BY <2>1, <1>2, <1>3
<1>6. ASSUME NEW i \in 1..Len(g), NEW j \in 1..Len(g), i < j PROVE Before(g[i], g[j])
  <2>1. CASE j \in 1..n
    <3>1. i \in 1..n /\ g[i] = f[i] /\ g[j] = f[j]
      BY <2>1, <1>1, <1>2, <1>6
    <3> QED
      BY <3>1, <2>1, <1>6 DEF Shaped
  <2>2. CASE j \notin 1..n
    <3>1. PICK k \in 1..2 : j = n + k /\ g[j] = <<r, k>>
      BY <2>2, <1>5
    <3>2. CASE i \in 1..n
      <4>1. g[i][1] < r
        BY <3>2, <1>2
      <4> QED
        BY <4>1, <3>1 DEF Before
    <3>3. CASE i \notin 1..n
      <4>1. PICK h \in 1..2 : i = n + h /\ g[i] = <<r, h>>
        BY <3>3, <1>5
      <4>2. h < k
        BY <3>1, <4>1, <1>6, <1>1
      <4> QED
        BY <4>1, <4>2, <3>1 DEF Before
    <3> QED
      BY <3>2, <3>3
  <2> QED
    BY <2>1, <2>2
<1>7. ASSUME NEW j \in 2..Len(g)
      PROVE  g[j][2] = 1 \/ g[j] = <<g[j - 1][1], g[j - 1][2] + 1>>
  <2>1. j \in 2..n \/ j = n + 1 \/ j = n + 2
    BY <1>1, <1>2
  <2>2. CASE j \in 2..n
    <3>1. j - 1 \in 1..n /\ j \in 1..n
      BY <2>2, <1>1
    <3>2. g[j] = f[j] /\ g[j - 1] = f[j - 1]
      BY <3>1, <1>2
    <3> QED
      BY <3>2, <2>2 DEF Shaped
  <2>3. CASE j = n + 1
    BY <2>3, <1>3
  <2>4. CASE j = n + 2
    <3>1. j - 1 = n + 1
      BY <2>4, <1>1
    <3> QED
      BY <3>1, <2>4, <1>3
  <2> QED
    BY <2>1, <2>2, <2>3, <2>4
<1>8. Shaped(g)
  BY <1>2, <1>4, <1>6, <1>7 DEF Shaped
<1>9. EndsWith(g, r)
  <2>1. ASSUME NEW k \in 1..2 PROVE g[Len(g) - 2 + k] = <<r, k>>
    <3>1. Len(g) - 2 + k = n + k /\ (k = 1 \/ k = 2)
      BY <1>1, <1>2
    <3> QED
      BY <3>1, <1>3
  <2> QED
    BY <2>1, <1>1, <1>2 DEF EndsWith
<1> QED
  BY <1>2, <1>8, <1>9 DEF g

\* Only the first two cells are a header's.
LEMMA HeaderCells ==
  ASSUME NEW f, Shaped(f), NEW i \in 1..Len(f), f[i][1] = Header
  PROVE  i <= 2
<1> SUFFICES ASSUME i >= 3 PROVE FALSE
  BY LenProperties DEF Shaped
<1>1. /\ Len(f) \in Nat /\ 1 \in 1..Len(f) /\ 2 \in 1..Len(f)
      /\ f[1][1] \in Nat /\ f[2][1] \in Nat
      /\ f[1][2] \in 1..2 /\ f[2][2] \in 1..2 /\ f[i][2] \in 1..2
  <2>1. Len(f) \in Nat
    BY LenProperties DEF Shaped
  <2>2. 1 \in 1..Len(f) /\ 2 \in 1..Len(f)
    BY <2>1
  <2>3. 0..MaxSecond \subseteq Nat
    BY BinWritersAssumption DEF BinWritersAssumption
  <2> QED
    BY <2>1, <2>2, <2>3, CellPair
<1>2. Before(f[1], f[2]) /\ Before(f[2], f[i])
  BY <1>1 DEF Shaped
<1> QED
  BY <1>1, <1>2 DEF Before, Header

-----------------------------------------------------------------------------
(* What a reader makes of a file. *)

\* The records of a file lie in it, two cells each.
LEMMA RecordsFit ==
  ASSUME NEW f, Shaped(f)
  PROVE  /\ Len(f) \in Nat /\ Len(f) \div 2 \in Nat
         /\ \A i \in 1..(Len(f) \div 2) : \A k \in 1..2 : (i - 1) * 2 + k \in 1..Len(f)
         /\ 2 * (Len(f) \div 2) <= Len(f) /\ Len(f) < 2 * (Len(f) \div 2) + 2
<1>1. Len(f) \in Nat
  BY LenProperties DEF Shaped
<1>2. /\ Len(f) \div 2 \in Nat
      /\ 2 * (Len(f) \div 2) <= Len(f) /\ Len(f) < 2 * (Len(f) \div 2) + 2
  BY <1>1
<1>3. ASSUME NEW i \in 1..(Len(f) \div 2), NEW k \in 1..2 PROVE (i - 1) * 2 + k \in 1..Len(f)
  BY <1>1, <1>2
<1> QED
  BY <1>1, <1>2, <1>3

\* The intact records of a file: all of them, or those before the first forged one.
LEMMA IntactIs ==
  ASSUME NEW f, Shaped(f)
  PROVE  /\ Intact(f) \in 0..(Len(f) \div 2)
         /\ \A i \in 1..Intact(f) : Genuine(f, i)
         /\ \A n \in 0..(Len(f) \div 2) : (\A i \in 1..n : Genuine(f, i)) => n <= Intact(f)
<1> DEFINE forged == {i \in 1..(Len(f) \div 2) : ~Genuine(f, i)}
<1>1. Len(f) \div 2 \in Nat
  BY RecordsFit
<1>2. Intact(f) = IF forged = {} THEN Len(f) \div 2 ELSE Min(forged) - 1
  BY DEF Intact, RecLen
<1>3. CASE forged = {}
  BY <1>1, <1>2, <1>3
<1>4. CASE forged # {}
  <2>1. forged \subseteq Nat
    BY <1>1
  <2>2. PICK m \in forged : \A x \in forged : m <= x
    BY <1>4, <2>1, LeastElement
  <2>3. Min(forged) \in forged /\ \A x \in forged : Min(forged) <= x
    BY <2>2 DEF Min
  <2> DEFINE d == Min(forged)
  <2>4. d \in 1..(Len(f) \div 2) /\ ~Genuine(f, d) /\ \A x \in forged : d <= x
    BY <2>3
  <2> HIDE DEF d
  <2>5. Intact(f) = d - 1
    BY <1>2, <1>4 DEF d
  <2>6. ASSUME NEW i \in 1..(d - 1) PROVE Genuine(f, i)
    <3>1. i \in 1..(Len(f) \div 2) /\ ~(d <= i)
      BY <1>1, <2>4
    <3> QED
      BY <3>1, <2>4
  <2>7. ASSUME NEW n \in 0..(Len(f) \div 2), \A i \in 1..n : Genuine(f, i) PROVE n <= d - 1
    <3>1. d \notin 1..n
      BY <2>4, <2>7
    <3> QED
      BY <3>1, <2>4, <1>1
  <2> QED
    BY <1>1, <2>4, <2>5, <2>6, <2>7
<1> QED
  BY <1>3, <1>4

\* The frames recovered: all genuine records behind the first.
LEMMA RecoveredIs ==
  ASSUME NEW f, Shaped(f)
  PROVE  /\ Len(Recovered(f)) = IF Intact(f) = 0 THEN 0 ELSE Intact(f) - 1
         /\ Len(Recovered(f)) \in Nat
         /\ \A i \in 1..Len(Recovered(f)) : /\ Recovered(f)[i] = f[2 * i + 1][1]
                                            /\ f[2 * i + 1][2] = 1
                                            /\ 2 * i + 1 \in 1..Len(f)
         /\ Recovered(f) \in Seq(Seconds)
         /\ Log!Increasing(Recovered(f))
<1> DEFINE m == IF Intact(f) = 0 THEN 0 ELSE Intact(f) - 1
<1>1. /\ Intact(f) \in Nat /\ Intact(f) <= Len(f) \div 2 /\ m \in Nat
      /\ Len(f) \div 2 \in Nat
  BY IntactIs, RecordsFit
<1>2. 1..(Intact(f) - 1) = 1..m
  BY <1>1
<1>3. Recovered(f) = [i \in 1..m |-> CellOf(f, i + 1, 1)[1]]
  BY <1>2 DEF Recovered
<1>4. ASSUME NEW i \in 1..m
      PROVE  /\ CellOf(f, i + 1, 1) = f[2 * i + 1] /\ 2 * i + 1 \in 1..Len(f)
             /\ f[2 * i + 1][2] = 1 /\ f[2 * i + 1][1] \in Seconds
  <2>1. i + 1 \in 1..Intact(f) /\ i + 1 \in 1..(Len(f) \div 2) /\ i >= 1 /\ i \in Nat
    BY <1>1
  <2>2. CellOf(f, i + 1, 1) = f[2 * i + 1]
    <3>1. ((i + 1) - 1) * RecLen + 1 = 2 * i + 1
      BY <2>1 DEF RecLen
    <3> QED
      BY <3>1 DEF CellOf
  <2>3. 2 * i + 1 \in 1..Len(f)
    <3>1. ((i + 1) - 1) * 2 + 1 \in 1..Len(f)
      BY <2>1, RecordsFit
    <3>2. ((i + 1) - 1) * 2 + 1 = 2 * i + 1
      BY <2>1
    <3> QED
      BY <3>1, <3>2
  <2>4. Genuine(f, i + 1)
    BY <2>1, IntactIs
  <2>5. f[2 * i + 1] = <<f[2 * i + 1][1], 1>>
    <3>1. CellOf(f, i + 1, 1) = <<CellOf(f, i + 1, 1)[1], 1>>
      BY <2>4 DEF Genuine, RecLen
    <3> QED
      BY <3>1, <2>2
  <2>6. f[2 * i + 1][1] # Header
    <3>1. ~(2 * i + 1 <= 2)
      BY <2>1
    <3> QED
      BY <3>1, <2>3, HeaderCells
  <2>7. f[2 * i + 1][1] \in 0..MaxSecond
    BY <2>3, CellPair
  <2>8. f[2 * i + 1][1] \in Seconds
    BY <2>6, <2>7, BinWritersAssumption DEF Seconds, Header, BinWritersAssumption
  <2> QED
    BY <2>2, <2>3, <2>5, <2>8
<1>5. Recovered(f) \in [1..m -> Seconds]
  BY <1>3, <1>4
<1>6. Recovered(f) \in Seq(Seconds) /\ Len(Recovered(f)) = m
  BY <1>1, <1>5, FunctionIsSeq
<1>7. \A i \in 1..m : Recovered(f)[i] = f[2 * i + 1][1]
  BY <1>3, <1>4
<1>8. ASSUME NEW i \in 1..m, NEW j \in 1..m, i < j PROVE Recovered(f)[i] < Recovered(f)[j]
  <2>1. 2 * i + 1 < 2 * j + 1
    BY <1>1, <1>8
  <2>2. Before(f[2 * i + 1], f[2 * j + 1])
    BY <2>1, <1>4 DEF Shaped
  <2> QED
    BY <2>2, <1>4, <1>7 DEF Before
<1>9. Log!Increasing(Recovered(f))
  BY <1>6, <1>8 DEF Log!Increasing
<1> QED
  BY <1>1, <1>4, <1>6, <1>7, <1>9

\* A record that starts where a reader looks for it is genuine, or the next one begins
\* inside it.
LEMMA ForgedAtTear ==
  ASSUME NEW f, Shaped(f), NEW i \in 1..(Len(f) \div 2), CellOf(f, i, 1)[2] = 1, ~Genuine(f, i)
  PROVE  Torn(f)
<1> DEFINE p == 2 * i - 1
<1>1. i \in Nat /\ i >= 1 /\ p \in 1..Len(f) /\ p + 1 \in 1..Len(f) /\ Len(f) \in Nat
  <2>1. i \in Nat /\ i >= 1 /\ Len(f) \in Nat
    BY RecordsFit
  <2>2. (i - 1) * 2 + 1 = p /\ (i - 1) * 2 + 2 = p + 1
    BY <2>1
  <2>3. (i - 1) * 2 + 1 \in 1..Len(f) /\ (i - 1) * 2 + 2 \in 1..Len(f)
    BY RecordsFit
  <2> QED
    BY <2>1, <2>2, <2>3
<1>2. CellOf(f, i, 1) = f[p] /\ CellOf(f, i, 2) = f[p + 1]
  <2>1. (i - 1) * 2 + 1 = p /\ (i - 1) * 2 + 2 = p + 1
    BY <1>1
  <2> QED
    BY <2>1 DEF CellOf, RecLen
<1> HIDE DEF p
<1> SUFFICES ASSUME p \notin Tears(f) PROVE FALSE
  BY DEF Torn
<1>3. f[p][2] = 1 /\ f[p] = <<f[p][1], 1>>
  BY <1>1, <1>2, CellPair
<1>4. f[p + 1] = <<f[p][1], 2>>
  <2>1. p + 1 \in 2..Len(f) /\ (p + 1) - 1 = p /\ p \in 1..(Len(f) - 1)
    BY <1>1
  <2>2. f[p + 1][2] # 1
    BY <2>1, <1>3 DEF Tears, RecLen
  <2> QED
    BY <2>1, <2>2, <1>3 DEF Shaped
<1>5. Genuine(f, i)
  <2>1. ASSUME NEW k \in 1..2 PROVE CellOf(f, i, k) = <<f[p][1], k>>
    <3>1. k = 1 \/ k = 2
      OBVIOUS
    <3> QED
      BY <3>1, <1>2, <1>3, <1>4
  <2> QED
    BY <2>1, <1>2 DEF Genuine, RecLen
<1> QED
  BY <1>5

\* In a file that is not torn every record is where a reader looks for it.
LEMMA UntornAligned ==
  ASSUME NEW f, Shaped(f), ~Torn(f)
  PROVE  \A i \in Nat, k \in 1..2 : 2 * i + k \in 1..Len(f) => f[2 * i + k][2] = k
<1> DEFINE Bad == {j \in 1..Len(f) : \E i \in Nat, k \in 1..2 : j = 2 * i + k /\ f[j][2] # k}
<1> SUFFICES Bad = {}
  OBVIOUS
<1> SUFFICES ASSUME Bad # {} PROVE FALSE
  OBVIOUS
<1>1. Len(f) \in Nat /\ Bad \subseteq Nat
  BY RecordsFit
<1>2. PICK j \in Bad : \A x \in Bad : j <= x
  BY <1>1, LeastElement
<1>3. PICK i \in Nat, k \in 1..2 : j = 2 * i + k /\ f[j][2] # k
  OBVIOUS
<1>j. j \in 1..Len(f) /\ j \in Nat
  BY <1>1
<1>4. CASE j = 1
  <2>1. k = 1
    BY <1>3, <1>4
  <2>2. f # <<>>
    BY <1>j
  <2>3. f[1] = <<Header, 1>>
    BY <2>2 DEF Shaped
  <2> QED
    BY <2>1, <2>3, <1>3, <1>4
<1>5. CASE j # 1
  <2>1. /\ j - 1 \in 1..Len(f) /\ j \in 2..Len(f) /\ j - 1 \in 1..(Len(f) - 1)
        /\ (j - 1) + 1 = j /\ ~(j <= j - 1)
    BY <1>5, <1>j, <1>1
  <2>2. j - 1 \notin Bad
    BY <2>1, <1>2
  <2>3. f[j][2] = 1 \/ f[j] = <<f[j - 1][1], f[j - 1][2] + 1>>
    BY <2>1 DEF Shaped
  <2>4. f[j][2] = 1 => f[j - 1][2] = 2
    BY <2>1 DEF Torn, Tears, RecLen
  <2>5. f[j][2] \in 1..2
    BY <1>j, CellPair
  <2>6. CASE k = 1
    <3>1. i # 0
      BY <1>3, <1>5, <2>6
    <3>2. i - 1 \in Nat /\ j - 1 = 2 * (i - 1) + 2 /\ 2 \in 1..2
      BY <3>1, <1>3, <2>6
    <3>3. f[j - 1][2] = 2
      BY <3>2, <2>1, <2>2
    <3> QED
      BY <3>3, <2>3, <2>5, <1>3, <2>6
  <2>7. CASE k # 1
    <3>1. k - 1 \in 1..2 /\ j - 1 = 2 * i + (k - 1) /\ k - 1 # 2
      BY <2>7, <1>3
    <3>2. f[j - 1][2] = k - 1
      BY <3>1, <2>1, <2>2
    <3>3. f[j][2] = (k - 1) + 1
      BY <3>1, <3>2, <2>3, <2>4
    <3> QED
      BY <3>3, <1>3
  <2> QED
    BY <2>6, <2>7
<1> QED
  BY <1>4, <1>5

\* ... and is genuine; what Boot scans and what a reader recovers are all of them.
LEMMA UntornRecords ==
  ASSUME NEW f, Shaped(f), ~Torn(f)
  PROVE  Intact(f) = Len(f) \div 2 /\ Len(Recovered(f)) = FramesOf(f)
<1>1. /\ Len(f) \in Nat /\ Len(f) \div 2 \in Nat
      /\ 2 * (Len(f) \div 2) <= Len(f) /\ Len(f) < 2 * (Len(f) \div 2) + 2
  BY RecordsFit
<1>2. ASSUME NEW i \in 1..(Len(f) \div 2) PROVE CellOf(f, i, 1)[2] = 1
  <2>1. (i - 1) * 2 + 1 \in 1..Len(f) /\ i - 1 \in Nat /\ (i - 1) * 2 + 1 = 2 * (i - 1) + 1
    BY <1>1, RecordsFit
  <2>2. 1 \in 1..2 /\ 2 * (i - 1) + 1 \in 1..Len(f)
    BY <2>1
  <2>3. f[2 * (i - 1) + 1][2] = 1
    BY <2>1, <2>2, UntornAligned
  <2> QED
    BY <2>1, <2>3 DEF CellOf, RecLen
<1>3. ASSUME NEW i \in 1..(Len(f) \div 2) PROVE Genuine(f, i)
  BY <1>2, ForgedAtTear
<1>4. Intact(f) = Len(f) \div 2
  <2>1. Len(f) \div 2 \in 0..(Len(f) \div 2)
    BY <1>1
  <2>2. Len(f) \div 2 <= Intact(f)
    BY <2>1, <1>3, IntactIs
  <2> QED
    BY <2>2, <1>1, IntactIs
<1>6. Len(Recovered(f)) = IF Intact(f) = 0 THEN 0 ELSE Intact(f) - 1
  BY RecoveredIs
<1>7. Len(f) \div 2 = 0 <=> Len(f) < 2
  BY <1>1
<1> QED
  BY <1>4, <1>6, <1>7 DEF FramesOf

\* What scan_frames may count is a number; of a file that is not torn, its frames.
LEMMA UntornScan ==
  ASSUME NEW f, Shaped(f)
  PROVE  ScanFrames(f) \subseteq Nat /\ (~Torn(f) => \A c \in ScanFrames(f) : c = FramesOf(f))
<1>1. Len(Recovered(f)) \in Nat
  BY RecoveredIs
<1>2. ScanFrames(f) \subseteq Nat
  BY <1>1, BinWritersAssumption DEF ScanFrames, BinWritersAssumption
<1>3. ASSUME ~Torn(f), NEW c \in ScanFrames(f) PROVE c = FramesOf(f)
  <2>1. Len(Recovered(f)) = FramesOf(f)
    BY <1>3, UntornRecords
  <2>2. c \in Len(Recovered(f))..Len(Recovered(f))
    BY <1>3 DEF ScanFrames
  <2> QED
    BY <2>1, <2>2, <1>1
<1> QED
  BY <1>2, <1>3

\* A whole record of a file that is not torn is recovered.
LEMMA WholeIsRecovered ==
  ASSUME NEW f, Shaped(f), ~Torn(f), NEW y \in 0..Len(f), NEW r \in Seconds, Whole(f, y, r)
  PROVE  r \in ToSet(Recovered(f))
<1>1. /\ Len(f) \in Nat /\ Len(f) \div 2 \in Nat
      /\ 2 * (Len(f) \div 2) <= Len(f) /\ Len(f) < 2 * (Len(f) \div 2) + 2
  BY RecordsFit
<1>2. PICK p \in 1..Len(f) : p + 1 <= y /\ \A k \in 1..2 : f[p - 1 + k] = <<r, k>>
  BY DEF Whole
<1>3. f[p] = <<r, 1>> /\ p \in Nat /\ p >= 1 /\ p + 1 <= Len(f)
  <2>1. p - 1 + 1 = p /\ 1 \in 1..2
    BY <1>1
  <2>2. f[p] = <<r, 1>>
    BY <2>1, <1>2
  <2> QED
    BY <2>2, <1>1, <1>2
<1>4. PICK i \in Nat : p = 2 * i + 1
  <2>1. \E i \in Nat, k \in 1..2 : p = 2 * i + k
    <3> DEFINE d == (p - 1) \div 2
    <3>1. p \in Nat /\ p >= 1
      BY <1>3
    <3>2. d \in Nat /\ 2 * d <= p - 1 /\ p - 1 < 2 * d + 2
      BY <3>1
    <3> HIDE DEF d
    <3>3. p - 2 * d \in 1..2 /\ p = 2 * d + (p - 2 * d)
      BY <3>1, <3>2
    <3> QED
      BY <3>2, <3>3
  <2>2. PICK i \in Nat, k \in 1..2 : p = 2 * i + k
    BY <2>1
  <2>3. f[p][2] = k
    BY <2>2, UntornAligned
  <2>4. k = 1
    BY <2>3, <1>3
  <2> QED
    BY <2>2, <2>4
<1>5. i # 0
  <2> SUFFICES ASSUME i = 0 PROVE FALSE
    OBVIOUS
  <2>1. p = 1 /\ f # <<>>
    BY <1>3, <1>4
  <2>2. f[1] = <<Header, 1>>
    BY <2>1 DEF Shaped
  <2> QED
    BY <2>1, <2>2, <1>3 DEF Seconds, Header
<1>6. i + 1 <= Len(f) \div 2
  BY <1>1, <1>3, <1>4
<1>7. i \in 1..Len(Recovered(f))
  <2>1. Intact(f) = Len(f) \div 2
    BY UntornRecords
  <2>2. Len(Recovered(f)) = IF Intact(f) = 0 THEN 0 ELSE Intact(f) - 1
    BY RecoveredIs
  <2> QED
    BY <2>1, <2>2, <1>1, <1>5, <1>6
<1>8. Recovered(f)[i] = r
  <2>1. Recovered(f)[i] = f[2 * i + 1][1]
    BY <1>7, RecoveredIs
  <2> QED
    BY <2>1, <1>3, <1>4
<1>9. i \in DOMAIN Recovered(f)
  BY <1>7, RecoveredIs, LenProperties
<1> QED
  BY <1>8, <1>9 DEF ToSet

\* A reader of a file that got longer recovers what it did before, and perhaps more.
LEMMA RecoveredGrows ==
  ASSUME NEW f, Shaped(f), NEW g, Shaped(g), Len(f) <= Len(g),
         \A i \in 1..Len(f) : g[i] = f[i]
  PROVE  Log!Extends(Recovered(g), Recovered(f))
<1>1. /\ Len(f) \in Nat /\ Len(f) \div 2 \in Nat /\ Len(g) \in Nat /\ Len(g) \div 2 \in Nat
      /\ Len(f) \div 2 <= Len(g) \div 2
  BY RecordsFit
<1>2. Intact(f) \in Nat /\ Intact(g) \in Nat /\ Intact(f) <= Len(f) \div 2
  BY <1>1, IntactIs
<1>3. ASSUME NEW i \in 1..Intact(f) PROVE Genuine(g, i)
  <2>1. i \in 1..(Len(f) \div 2)
    BY <1>1, <1>2
  <2>2. ASSUME NEW k \in 1..2 PROVE CellOf(g, i, k) = CellOf(f, i, k)
    <3>1. (i - 1) * 2 + k \in 1..Len(f)
      BY <2>1, RecordsFit
    <3> QED
      BY <3>1 DEF CellOf, RecLen
  <2>3. Genuine(f, i)
    BY IntactIs
  <2> QED
    BY <2>2, <2>3 DEF Genuine, RecLen
<1>4. Intact(f) <= Intact(g)
  <2>1. Intact(f) \in 0..(Len(g) \div 2)
    BY <1>1, <1>2
  <2> QED
    BY <2>1, <1>3, IntactIs
<1>5. /\ Len(Recovered(f)) = IF Intact(f) = 0 THEN 0 ELSE Intact(f) - 1
      /\ Len(Recovered(g)) = IF Intact(g) = 0 THEN 0 ELSE Intact(g) - 1
  BY RecoveredIs
<1>6. Len(Recovered(f)) <= Len(Recovered(g)) /\ Len(Recovered(f)) \in Nat /\ Len(Recovered(g)) \in Nat
  BY <1>2, <1>4, <1>5
<1>7. ASSUME NEW i \in 1..Len(Recovered(f)) PROVE Recovered(g)[i] = Recovered(f)[i]
  <2>1. i \in 1..Len(Recovered(g))
    BY <1>6
  <2>2. Recovered(f)[i] = f[2 * i + 1][1] /\ 2 * i + 1 \in 1..Len(f)
    BY RecoveredIs
  <2>3. Recovered(g)[i] = g[2 * i + 1][1]
    BY <2>1, RecoveredIs
  <2> QED
    BY <2>2, <2>3
<1>8. Log!Increasing(Recovered(g))
  BY RecoveredIs
<1> QED
  BY <1>6, <1>7, <1>8 DEF Log!Extends

-----------------------------------------------------------------------------
(* What each step makes of a file. *)

\* A whole record stays one where the cells up to its end stay.
LEMMA WholeKept ==
  ASSUME NEW f \in Seq(Cell), NEW g \in Seq(Cell), NEW y \in Nat, NEW z \in Nat, y <= z,
         y <= Len(g), \A i \in 1..y : g[i] = f[i], NEW r, Whole(f, y, r)
  PROVE  Whole(g, z, r)
<1>1. Len(f) \in Nat /\ Len(g) \in Nat
  BY LenProperties
<1>2. PICK p \in 1..Len(f) : p + 1 <= y /\ \A k \in 1..2 : f[p - 1 + k] = <<r, k>>
  BY DEF Whole
<1>3. p \in 1..Len(g) /\ p + 1 <= z
  BY <1>1, <1>2
<1>4. ASSUME NEW k \in 1..2 PROVE g[p - 1 + k] = <<r, k>>
  <2>1. p - 1 + k \in 1..y
    BY <1>1, <1>2
  <2> QED
    BY <2>1, <1>2
<1> QED
  BY <1>3, <1>4 DEF Whole

\* The record that ends a file is whole in it.
LEMMA WholeAtEnd ==
  ASSUME NEW f \in Seq(Cell), NEW r, EndsWith(f, r)
  PROVE  Whole(f, Len(f), r)
<1>1. Len(f) \in Nat /\ Len(f) >= 2
  BY LenProperties DEF EndsWith
<1>2. Len(f) - 1 \in 1..Len(f) /\ (Len(f) - 1) + 1 <= Len(f)
  BY <1>1
<1>3. ASSUME NEW k \in 1..2 PROVE f[(Len(f) - 1) - 1 + k] = <<r, k>>
  <2>1. (Len(f) - 1) - 1 + k = Len(f) - 2 + k
    BY <1>1
  <2> QED
    BY <2>1 DEF EndsWith
<1> QED
  BY <1>2, <1>3 DEF Whole

\* A record appended to a file leaves it untorn only if no record was cut short at its end.
LEMMA UntornAppend ==
  ASSUME NEW f, Shaped(f), NEW g, Shaped(g), Len(g) = Len(f) + 2,
         \A i \in 1..Len(f) : g[i] = f[i], NEW r, EndsWith(g, r), ~Torn(g)
  PROVE  ~Torn(f) /\ FramesOf(g) = IF f = <<>> THEN 0 ELSE FramesOf(f) + 1
<1>1. /\ Len(f) \in Nat /\ Len(f) \div 2 \in Nat /\ Len(g) \in Nat
      /\ 2 * (Len(f) \div 2) <= Len(f) /\ Len(f) < 2 * (Len(f) \div 2) + 2
  BY RecordsFit
<1>2. Tears(f) \subseteq Tears(g)
  <2>1. ASSUME NEW i \in Tears(f) PROVE i \in Tears(g)
    <3>1. i \in 1..(Len(f) - 1) /\ f[i + 1][2] = 1 /\ f[i][2] # RecLen
      BY DEF Tears
    <3>2. i \in 1..(Len(g) - 1) /\ i \in 1..Len(f) /\ i + 1 \in 1..Len(f)
      BY <3>1, <1>1
    <3> QED
      BY <3>1, <3>2 DEF Tears
  <2> QED
    BY <2>1
<1>3. g[Len(f) + 1][2] = 1
  <2>1. 1 \in 1..2 /\ Len(g) - 2 + 1 = Len(f) + 1
    BY <1>1
  <2>2. g[Len(g) - 2 + 1] = <<r, 1>>
    BY <2>1 DEF EndsWith
  <2> QED
    BY <2>1, <2>2
<1>4. Len(f) = 2 * (Len(f) \div 2)
  <2> DEFINE i == Len(f) \div 2
             k == Len(f) + 1 - 2 * i
  <2>1. i \in Nat /\ k \in 1..2 /\ 2 * i + k = Len(f) + 1 /\ Len(f) + 1 \in 1..Len(g)
    <3>1. /\ Len(f) \in Nat /\ i \in Nat /\ 2 * i <= Len(f) /\ Len(f) < 2 * i + 2
          /\ Len(g) = Len(f) + 2
      BY <1>1
    <3> HIDE DEF i
    <3> QED
      BY <3>1
  <2>2. g[2 * i + k][2] = k
    <3> HIDE DEF i, k
    <3> QED
      BY <2>1, UntornAligned
  <2>3. k = 1
    BY <2>1, <2>2, <1>3
  <2> QED
    BY <2>3, <1>1
<1>5. f = <<>> <=> Len(f) = 0
  BY EmptySeq DEF Shaped
<1>6. Len(g) \div 2 = (Len(f) \div 2) + 1
  BY <1>4, <1>1
<1>7. FramesOf(g) = (Len(g) \div 2) - 1
  <2>1. Len(g) >= 2
    BY <1>1
  <2> QED
    BY <2>1, <1>1 DEF FramesOf
<1>8. CASE f = <<>>
  BY <1>8, <1>1, <1>2, <1>4, <1>5, <1>6, <1>7 DEF Torn
<1>9. CASE f # <<>>
  <2>1. Len(f) >= 2 /\ FramesOf(f) = (Len(f) \div 2) - 1
    BY <1>9, <1>5, <1>1, <1>4 DEF FramesOf
  <2>2. FramesOf(g) = FramesOf(f) + 1
    BY <2>1, <1>1, <1>6, <1>7
  <2> QED
    BY <2>2, <1>9, <1>2 DEF Torn
<1> QED
  BY <1>8, <1>9

-----------------------------------------------------------------------------
(* The invariant. *)

Alive == {"opening", "idle", "header", "frame"}

\* Frames a thread has taken and not yet counted, sentinels it has not yet taken, and
\* the frames of this process whose record is in the file.
Held(a) == IF wpc[a] \in {"header", "frame"} THEN 1 ELSE 0
Stops == IF epc \in {"joining", "exited"} THEN 1 ELSE 0
Written(a) == IF wpc[a] = "frame" THEN appended[a] + 1 ELSE appended[a]

\* The last second an artifact can have been given a frame of.
Latest(a) == IF epc = "enqueue" /\ a >= next THEN second - 1 ELSE second

\* A file has its shape, and what was acknowledged lies whole in its durable part.
FileInv(a) ==
  /\ Shaped(file[a])
  /\ synced[a] \in 0..Len(file[a])
  /\ \A i \in 1..Len(acked[a]) : Whole(file[a], synced[a], acked[a][i])

\* An idle writer knows whether its file has a header; one inside append_frame has its
\* record at the end of the file and nothing of it fsynced.
HeaderInv(a) ==
  /\ wpc[a] = "idle" => (headerWritten[a] <=> file[a] # <<>>)
  /\ wpc[a] = "header" => /\ EndsWith(file[a], Header) /\ Len(file[a]) = 2
                          /\ synced[a] = 0
  /\ wpc[a] = "frame" => /\ headerWritten[a] /\ EndsWith(file[a], item[a])
                         /\ synced[a] <= Len(file[a]) - 2

\* What a thread can hold at each stage of its process.
LifeInv(a) ==
  /\ wpc[a] = "down" <=> epc = "down"
  /\ epc = "down" => queue[a] = <<>> /\ accepted[a] = <<>> /\ appended[a] = 0
  /\ epc = "starting" => accepted[a] = <<>>
  /\ wpc[a] = "opening" => appended[a] = 0
  /\ wpc[a] = "closed" => epc \in {"joining", "exited"} /\ appended[a] = Len(accepted[a])

\* What this process appended is the beginning of what it accepted, and it is the end
\* of what was ever acknowledged.
DrainInv(a) ==
  /\ appended[a] <= Len(acked[a]) /\ appended[a] <= Len(accepted[a])
  /\ \A i \in 1..appended[a] :
       acked[a][Len(acked[a]) - appended[a] + i] = accepted[a][i]

\* The queue holds the rest, in order, and then the sentinel.
QueueInv(a) ==
  wpc[a] \in Alive =>
    /\ Len(queue[a]) + Held(a) + appended[a] = Len(accepted[a]) + Stops
    /\ \A i \in 1..(Len(queue[a]) - Stops) :
         queue[a][i] = accepted[a][appended[a] + Held(a) + i]
    /\ Stops = 1 => Len(queue[a]) >= 1 /\ queue[a][Len(queue[a])] = Stop
    /\ Held(a) = 1 => /\ appended[a] + 1 <= Len(accepted[a])
                      /\ item[a] = accepted[a][appended[a] + 1]

\* Seconds only grow: those of the file and of the frames accepted, and what is not in
\* the file yet is later than all of it.
OrderInv(a) ==
  /\ \A j \in 1..Len(file[a]) : file[a][j][1] <= Latest(a)
  /\ \A i \in 1..Len(accepted[a]) : accepted[a][i] <= Latest(a)
  /\ \A i, j \in 1..Len(accepted[a]) : i < j => accepted[a][i] < accepted[a][j]
  /\ wpc[a] \in Alive =>
       \A i \in (Written(a) + 1)..Len(accepted[a]) :
         \A j \in 1..Len(file[a]) : file[a][j][1] < accepted[a][i]

\* The count of a file that is not torn is the count at start and what was written since.
CountInv(a) ==
  wpc[a] \in Alive \cup {"closed"} /\ ~Torn(file[a]) =>
    FramesOf(file[a]) = onDisk[a] + Written(a)

ArtInv(a) ==
  /\ FileInv(a) /\ HeaderInv(a) /\ LifeInv(a) /\ DrainInv(a)
  /\ QueueInv(a) /\ OrderInv(a) /\ CountInv(a)

\* The engine's figures and its verdict on the run.
Given(a) == IF epc = "enqueue" /\ a < next THEN 1 ELSE 0
EngineInv ==
  /\ epc = "enqueue" => second >= 1
  /\ epc \notin {"down", "exited"} => outcome # "clean"
  /\ epc = "exited" /\ outcome = "clean" => \A a \in Art : wpc[a] = "closed"
  /\ epc # "down" /\ outcome # "failed" =>
       \A a \in Art :
         captures + Given(a) = Max({onDisk[b] : b \in Art}) + Len(accepted[a])

IInv == TypeOK /\ EngineInv /\ \A a \in Art : ArtInv(a)

\* No step disturbs what fsync has made durable.
Preserved(a) ==
  /\ synced[a] <= synced'[a] /\ synced'[a] <= Len(file'[a])
  /\ \A i \in 1..synced[a] : file'[a][i] = file[a][i]

\* The types of one artifact's state.
LEMMA ArtTypes ==
  ASSUME TypeOK, NEW a \in Art
  PROVE  /\ file[a] \in Seq(Cell) /\ Len(file[a]) \in Nat /\ synced[a] \in Nat
         /\ queue[a] \in Seq(0..MaxSecond) /\ Len(queue[a]) \in Nat
         /\ wpc[a] \in ThreadStates /\ item[a] \in 0..MaxSecond
         /\ headerWritten[a] \in BOOLEAN
         /\ onDisk[a] \in Nat /\ appended[a] \in Nat
         /\ acked[a] \in Seq(Seconds) /\ Len(acked[a]) \in Nat
         /\ accepted[a] \in Seq(Seconds) /\ Len(accepted[a]) \in Nat
         /\ \A i \in 1..Len(file[a]) : file[a][i][1] \in Nat
         /\ \A i \in 1..Len(accepted[a]) : accepted[a][i] \in Seconds
         /\ \A i \in 1..Len(queue[a]) : queue[a][i] \in 0..MaxSecond
         /\ second \in Nat /\ next \in Nat /\ captures \in Nat /\ a \in Nat
<1>1. /\ file[a] \in Seq(Cell) /\ synced[a] \in Nat
      /\ queue[a] \in Seq(0..MaxSecond)
      /\ wpc[a] \in ThreadStates /\ item[a] \in 0..MaxSecond
      /\ headerWritten[a] \in BOOLEAN
      /\ onDisk[a] \in Nat /\ appended[a] \in Nat
      /\ acked[a] \in Seq(Seconds) /\ accepted[a] \in Seq(Seconds)
  BY DEF TypeOK
<1>2. /\ Len(file[a]) \in Nat /\ Len(queue[a]) \in Nat /\ Len(acked[a]) \in Nat
      /\ Len(accepted[a]) \in Nat
  BY <1>1, LenProperties
<1>3. /\ \A i \in 1..Len(file[a]) : file[a][i] \in Cell
      /\ \A i \in 1..Len(accepted[a]) : accepted[a][i] \in Seconds
      /\ \A i \in 1..Len(queue[a]) : queue[a][i] \in 0..MaxSecond
  BY <1>1, ElementOfSeq
<1>4. \A i \in 1..Len(file[a]) : file[a][i][1] \in Nat
  BY <1>3, BinWritersAssumption DEF Cell, BinWritersAssumption
<1>5. second \in Nat /\ next \in Nat /\ captures \in Nat /\ a \in Nat
  BY BinWritersAssumption DEF TypeOK, Art, BinWritersAssumption
<1> QED
  BY <1>1, <1>2, <1>3, <1>4, <1>5

\* What a step leaves alone keeps its invariant.
LEMMA Untouched ==
  ASSUME NEW a \in Art, ArtInv(a), synced[a] \in Nat,
         file'[a] = file[a], synced'[a] = synced[a], queue'[a] = queue[a],
         wpc'[a] = wpc[a], item'[a] = item[a], headerWritten'[a] = headerWritten[a],
         onDisk'[a] = onDisk[a], appended'[a] = appended[a], acked'[a] = acked[a],
         accepted'[a] = accepted[a], UNCHANGED <<epc, second, next>>
  PROVE  ArtInv(a)' /\ Preserved(a)
<1>1. FileInv(a)' /\ HeaderInv(a)' /\ LifeInv(a)' /\ DrainInv(a)'
  BY DEF ArtInv, FileInv, HeaderInv, LifeInv, DrainInv
<1>2. Held(a)' = Held(a) /\ Stops' = Stops /\ Written(a)' = Written(a) /\ Latest(a)' = Latest(a)
  BY DEF Held, Stops, Written, Latest
<1>3. QueueInv(a)' /\ OrderInv(a)' /\ CountInv(a)'
  BY <1>2 DEF ArtInv, QueueInv, OrderInv, CountInv
<1>4. Preserved(a)
  BY DEF ArtInv, FileInv, Preserved
<1> QED
  BY <1>1, <1>3, <1>4 DEF ArtInv

\* So does a step of the engine that leaves the threads alone, if it keeps to the stages.
LEMMA EngineMoves ==
  ASSUME NEW a \in Art, ArtInv(a), TypeOK,
         file'[a] = file[a], synced'[a] = synced[a], queue'[a] = queue[a],
         wpc'[a] = wpc[a], item'[a] = item[a], headerWritten'[a] = headerWritten[a],
         onDisk'[a] = onDisk[a], appended'[a] = appended[a], acked'[a] = acked[a],
         accepted'[a] = accepted[a],
         epc # "down", epc' \notin {"down", "starting"},
         Stops' = Stops, epc \in {"joining", "exited"} => epc' \in {"joining", "exited"},
         Latest(a) <= Latest(a)', Latest(a) \in Int, Latest(a)' \in Int
  PROVE  ArtInv(a)' /\ Preserved(a)
<1>1. FileInv(a)' /\ HeaderInv(a)' /\ LifeInv(a)' /\ DrainInv(a)'
  BY DEF ArtInv, FileInv, HeaderInv, LifeInv, DrainInv
<1>2. Held(a)' = Held(a) /\ Written(a)' = Written(a)
  BY DEF Held, Written
<1>3. QueueInv(a)' /\ CountInv(a)'
  BY <1>2 DEF ArtInv, QueueInv, CountInv
<1>4. OrderInv(a)'
  <2>1. ASSUME NEW j \in 1..Len(file[a]) PROVE file[a][j][1] <= Latest(a)'
    <3>1. file[a][j][1] <= Latest(a) /\ file[a][j][1] \in Nat
      BY ArtTypes DEF ArtInv, OrderInv
    <3> QED
      BY <3>1
  <2>2. ASSUME NEW j \in 1..Len(accepted[a]) PROVE accepted[a][j] <= Latest(a)'
    <3>1. accepted[a][j] <= Latest(a)
      BY DEF ArtInv, OrderInv
    <3>2. accepted[a][j] \in Seconds
      BY ArtTypes
    <3>3. accepted[a][j] \in Nat
      BY <3>2 DEF Seconds
    <3> QED
      BY <3>1, <3>3
  <2> QED
    BY <2>1, <2>2, <1>2 DEF ArtInv, OrderInv
<1>5. Preserved(a)
  BY ArtTypes DEF ArtInv, FileInv, Preserved
<1> QED
  BY <1>1, <1>3, <1>4, <1>5 DEF ArtInv

-----------------------------------------------------------------------------
(* The steps of one thread. *)

\* Whether a step by itself keeps a file's shape, a file that only lost or gained cells
\* behind the durable ones still holds what was acknowledged.
LEMMA FileKept ==
  ASSUME NEW a \in Art, TypeOK, FileInv(a), Shaped(file'[a]), synced'[a] = synced[a],
         acked'[a] = acked[a], synced[a] <= Len(file'[a]),
         \A i \in 1..synced[a] : file'[a][i] = file[a][i]
  PROVE  FileInv(a)' /\ Preserved(a)
<1>1. file[a] \in Seq(Cell) /\ file'[a] \in Seq(Cell) /\ synced[a] \in Nat /\ Len(file'[a]) \in Nat
  BY ArtTypes, LenProperties DEF Shaped
<1>2. ASSUME NEW i \in 1..Len(acked[a]) PROVE Whole(file'[a], synced[a], acked[a][i])
  <2>1. Whole(file[a], synced[a], acked[a][i])
    BY DEF FileInv
  <2> DEFINE f == file[a]
             g == file'[a]
             y == synced[a]
             r == acked[a][i]
  <2>2. /\ f \in Seq(Cell) /\ g \in Seq(Cell) /\ y \in Nat /\ y <= y /\ y <= Len(g)
        /\ \A k \in 1..y : g[k] = f[k]
    BY <1>1
  <2> HIDE DEF f, g, y, r
  <2>3. Whole(f, y, r)
    BY <2>1 DEF f, y, r
  <2>4. Whole(g, y, r)
    BY <2>2, <2>3, WholeKept
  <2> QED
    BY <2>4 DEF g, y, r
<1>3. synced'[a] \in 0..Len(file'[a])
  BY <1>1
<1> QED
  BY <1>1, <1>2, <1>3 DEF FileInv, Preserved

\* open() of a file that may hold anything.
LEMMA OpenFileStep ==
  ASSUME NEW a \in Art, TypeOK, ArtInv(a), OpenFile(a)
  PROVE  ArtInv(a)' /\ Preserved(a)
<1>1. /\ wpc[a] = "opening" /\ wpc'[a] = "idle" /\ headerWritten'[a] = (file[a] # <<>>)
      /\ UNCHANGED <<disk, queue, item, onDisk, appended, engine, acked, accepted>>
  BY DEF OpenFile, TypeOK
<1> USE DEF disk, engine
<1>2. FileInv(a)' /\ Preserved(a)
  <2>1. FileInv(a) /\ Shaped(file[a]) /\ synced[a] <= Len(file[a])
    BY ArtTypes DEF ArtInv, FileInv
  <2> QED
    BY <1>1, <2>1, FileKept
<1>3. HeaderInv(a)' /\ DrainInv(a)'
  BY <1>1 DEF ArtInv, HeaderInv, DrainInv
<1>4. LifeInv(a)'
  BY <1>1 DEF ArtInv, LifeInv
<1>5. Held(a)' = Held(a) /\ Written(a)' = Written(a) /\ Stops' = Stops /\ Latest(a)' = Latest(a)
  BY <1>1 DEF Held, Written, Stops, Latest
<1>6. QueueInv(a)' /\ OrderInv(a)' /\ CountInv(a)'
  BY <1>1, <1>5 DEF ArtInv, QueueInv, OrderInv, CountInv, Alive
<1> QED
  BY <1>2, <1>3, <1>4, <1>6 DEF ArtInv

\* open() or bind_header() raises.
LEMMA OpenFailsStep ==
  ASSUME NEW a \in Art, TypeOK, ArtInv(a), OpenFails(a)
  PROVE  ArtInv(a)' /\ Preserved(a)
<1>1. /\ wpc[a] = "opening" /\ wpc'[a] = "failed"
      /\ UNCHANGED <<disk, queue, item, headerWritten, onDisk, appended, engine, acked, accepted>>
  BY DEF OpenFails, TypeOK
<1> USE DEF disk, engine
<1>2. FileInv(a)' /\ Preserved(a)
  <2>1. FileInv(a) /\ Shaped(file[a]) /\ synced[a] <= Len(file[a])
    BY ArtTypes DEF ArtInv, FileInv
  <2> QED
    BY <1>1, <2>1, FileKept
<1>3. HeaderInv(a)' /\ DrainInv(a)' /\ LifeInv(a)'
  BY <1>1 DEF ArtInv, HeaderInv, DrainInv, LifeInv
<1>4. Latest(a)' = Latest(a)
  BY <1>1 DEF Latest
<1>5. QueueInv(a)' /\ OrderInv(a)' /\ CountInv(a)'
  BY <1>1, <1>4 DEF ArtInv, QueueInv, OrderInv, CountInv, Alive
<1> QED
  BY <1>2, <1>3, <1>5 DEF ArtInv

\* A write that fails leaves any part of the last record.
LEMMA WriteFailsStep ==
  ASSUME NEW a \in Art, TypeOK, ArtInv(a), WriteFails(a)
  PROVE  ArtInv(a)' /\ Preserved(a)
<1>1. /\ wpc[a] \in {"header", "frame"} /\ wpc'[a] = "failed"
      /\ UNCHANGED <<synced, queue, item, headerWritten, onDisk, appended, engine, acked, accepted>>
  BY DEF WriteFails, TypeOK
<1>2. PICK n \in 0..2 : file'[a] = SubSeq(file[a], 1, Len(file[a]) - n)
  BY DEF WriteFails, TypeOK, RecLen
<1> USE DEF engine
<1>3. /\ Len(file[a]) \in Nat /\ synced[a] \in Nat /\ Len(file[a]) >= 2
      /\ synced[a] <= Len(file[a]) - 2
  BY <1>1, ArtTypes DEF ArtInv, HeaderInv, EndsWith
<1>4. PICK m \in 0..Len(file[a]) : m = Len(file[a]) - n
  <2>1. n \in Nat /\ n <= 2
    BY <1>2
  <2>2. Len(file[a]) - n \in 0..Len(file[a])
    BY <2>1, <1>3
  <2> QED
    BY <2>2
<1>5. Shaped(file[a])
  BY DEF ArtInv, FileInv
<1>6. /\ Shaped(file'[a]) /\ Len(file'[a]) = m /\ \A i \in 1..m : file'[a][i] = file[a][i]
      /\ synced[a] <= m
  <2>1. file'[a] = SubSeq(file[a], 1, m)
    BY <1>2, <1>4
  <2>2. synced[a] <= m
    <3>1. n \in Nat /\ n <= 2
      BY <1>2
    <3> QED
      BY <3>1, <1>3, <1>4
  <2> QED
    BY <2>1, <2>2, <1>5, ShapedPrefix
<1>7. FileInv(a)' /\ Preserved(a)
  <2>1. synced[a] <= Len(file'[a]) /\ \A i \in 1..synced[a] : file'[a][i] = file[a][i]
    BY <1>3, <1>6
  <2> QED
    BY <1>1, <1>6, <2>1, FileKept DEF ArtInv
<1>8. HeaderInv(a)' /\ DrainInv(a)' /\ LifeInv(a)'
  BY <1>1 DEF ArtInv, HeaderInv, DrainInv, LifeInv
<1>9. QueueInv(a)' /\ CountInv(a)'
  BY <1>1 DEF QueueInv, CountInv, Alive
<1>10. OrderInv(a)'
  <2>1. Latest(a)' = Latest(a)
    BY <1>1 DEF Latest
  <2>2. \A j \in 1..Len(file'[a]) : j \in 1..Len(file[a]) /\ file'[a][j] = file[a][j]
    BY <1>3, <1>4, <1>6
  <2> QED
    BY <1>1, <2>1, <2>2 DEF ArtInv, OrderInv, Alive
<1> QED
  BY <1>7, <1>8, <1>9, <1>10 DEF ArtInv

\* The sentinel is behind every frame: a thread that takes it has written them all.
LEMMA TakeStopStep ==
  ASSUME NEW a \in Art, TypeOK, ArtInv(a), TakeStop(a)
  PROVE  ArtInv(a)' /\ Preserved(a)
<1>t. /\ file[a] \in Seq(Cell) /\ Len(file[a]) \in Nat /\ synced[a] \in Nat
      /\ queue[a] \in Seq(0..MaxSecond) /\ Len(queue[a]) \in Nat
      /\ Len(accepted[a]) \in Nat /\ appended[a] \in Nat
      /\ \A i \in 1..Len(accepted[a]) : accepted[a][i] \in Seconds
  BY ArtTypes
<1>1. /\ wpc[a] = "idle" /\ wpc'[a] = "closed" /\ synced'[a] = Len(file[a])
      /\ queue[a] # <<>> /\ Head(queue[a]) = Stop
      /\ UNCHANGED <<file, item, headerWritten, onDisk, appended, engine, acked, accepted>>
  BY DEF TakeStop, TypeOK
<1> USE DEF engine
<1>2. Len(queue[a]) >= 1 /\ queue[a][1] = Stop
  BY <1>1, <1>t, HeadTailProperties, EmptySeq
<1>3. /\ Len(queue[a]) + appended[a] = Len(accepted[a]) + Stops
      /\ \A i \in 1..(Len(queue[a]) - Stops) : queue[a][i] = accepted[a][appended[a] + i]
      /\ Stops \in {0, 1} /\ appended[a] <= Len(accepted[a])
  <2>1. Held(a) = 0 /\ Stops \in {0, 1}
    BY <1>1 DEF Held, Stops
  <2>2. /\ Len(queue[a]) + 0 + appended[a] = Len(accepted[a]) + Stops
        /\ \A i \in 1..(Len(queue[a]) - Stops) : queue[a][i] = accepted[a][appended[a] + 0 + i]
    BY <1>1, <2>1 DEF ArtInv, QueueInv, Alive
  <2>3. appended[a] + 0 = appended[a] /\ Len(queue[a]) + 0 = Len(queue[a])
    BY <1>t
  <2>4. appended[a] <= Len(accepted[a])
    BY DEF ArtInv, DrainInv
  <2> QED
    BY <2>1, <2>2, <2>3, <2>4
<1>4. Stops = 1 /\ appended[a] = Len(accepted[a])
  <2>1. ASSUME 1 <= Len(queue[a]) - Stops PROVE FALSE
    <3>1. 1 \in 1..(Len(queue[a]) - Stops)
      BY <2>1, <1>3, <1>t
    <3>2. queue[a][1] = accepted[a][appended[a] + 1]
      BY <3>1, <1>3
    <3>3. appended[a] + 1 \in 1..Len(accepted[a])
      <4>1. CASE Stops = 0
        BY <4>1, <2>1, <1>3, <1>t
      <4>2. CASE Stops = 1
        BY <4>2, <2>1, <1>3, <1>t
      <4> QED
        BY <4>1, <4>2, <1>3
    <3>4. accepted[a][appended[a] + 1] \in Seconds
      BY <3>3, <1>t
    <3> QED
      BY <3>2, <3>4, <1>2 DEF Seconds, Stop
  <2>2. ~(1 <= Len(queue[a]) - Stops)
    BY <2>1
  <2>3. CASE Stops = 0
    BY <2>2, <2>3, <1>2, <1>t
  <2>4. CASE Stops = 1
    BY <2>2, <2>4, <1>2, <1>3, <1>t
  <2> QED
    BY <2>3, <2>4, <1>3
<1>5. FileInv(a)' /\ Preserved(a)
  <2>1. Shaped(file[a]) /\ synced[a] <= Len(file[a])
    BY <1>t DEF ArtInv, FileInv
  <2>2. ASSUME NEW i \in 1..Len(acked[a]) PROVE Whole(file[a], Len(file[a]), acked[a][i])
    <3>1. Whole(file[a], synced[a], acked[a][i])
      BY DEF ArtInv, FileInv
    <3> QED
      BY <3>1, <2>1, <1>t, WholeKept
  <2> QED
    BY <1>1, <1>t, <2>1, <2>2 DEF FileInv, Preserved
<1>6. HeaderInv(a)' /\ DrainInv(a)'
  BY <1>1 DEF ArtInv, HeaderInv, DrainInv
<1>7. LifeInv(a)'
  <2>1. epc \in {"joining", "exited"}
    BY <1>4 DEF Stops
  <2> QED
    BY <1>1, <1>4, <2>1 DEF ArtInv, LifeInv
<1>8. QueueInv(a)'
  BY <1>1 DEF QueueInv, Alive
<1>9. OrderInv(a)' /\ CountInv(a)'
  <2>1. Latest(a)' = Latest(a) /\ Written(a)' = Written(a)
    BY <1>1 DEF Latest, Written
  <2> QED
    BY <1>1, <2>1 DEF ArtInv, OrderInv, CountInv, Alive
<1> QED
  BY <1>5, <1>6, <1>7, <1>8, <1>9 DEF ArtInv

\* append_frame: a record behind all there is, whether or not the rest is fsynced by it.
LEMMA AppendStep ==
  ASSUME NEW a \in Art, TypeOK, FileInv(a), NEW r \in 0..MaxSecond,
         file'[a] = file[a] \o Record(r), file[a] = <<>> <=> r = Header,
         \A j \in 1..Len(file[a]) : file[a][j][1] < r,
         synced'[a] \in {synced[a], Len(file[a])}, acked'[a] = acked[a]
  PROVE  /\ FileInv(a)' /\ Preserved(a)
         /\ EndsWith(file'[a], r) /\ Len(file'[a]) = Len(file[a]) + 2
         /\ \A j \in 1..Len(file'[a]) :
              \/ j \in 1..Len(file[a]) /\ file'[a][j] = file[a][j]
              \/ file'[a][j][1] = r
         /\ ~Torn(file'[a]) =>
              /\ ~Torn(file[a])
              /\ FramesOf(file'[a]) = IF file[a] = <<>> THEN 0 ELSE FramesOf(file[a]) + 1
<1>t. /\ file[a] \in Seq(Cell) /\ Len(file[a]) \in Nat /\ synced[a] \in Nat
      /\ synced[a] <= Len(file[a]) /\ Shaped(file[a])
  BY ArtTypes DEF FileInv
<1>1. /\ Shaped(file'[a]) /\ EndsWith(file'[a], r) /\ Len(file'[a]) = Len(file[a]) + 2
      /\ \A i \in 1..Len(file[a]) : file'[a][i] = file[a][i]
  BY <1>t, ShapedAppend
<1>2. file'[a] \in Seq(Cell) /\ synced[a] <= synced'[a] /\ synced'[a] <= Len(file[a])
      /\ synced'[a] \in Nat
  BY <1>1, <1>t DEF Shaped
<1>3. ASSUME NEW i \in 1..Len(acked[a]) PROVE Whole(file'[a], synced'[a], acked[a][i])
  <2>1. Whole(file[a], synced[a], acked[a][i])
    BY DEF FileInv
  <2>2. synced[a] <= Len(file'[a]) /\ \A k \in 1..synced[a] : file'[a][k] = file[a][k]
    BY <1>1, <1>t
  <2> QED
    BY <2>1, <2>2, <1>t, <1>2, WholeKept
<1>4. FileInv(a)' /\ Preserved(a)
  <2>1. synced'[a] \in 0..Len(file'[a])
    BY <1>1, <1>2, <1>t
  <2>2. \A k \in 1..synced[a] : file'[a][k] = file[a][k]
    BY <1>1, <1>t
  <2> QED
    BY <2>1, <2>2, <1>1, <1>2, <1>3 DEF FileInv, Preserved
<1>5. ASSUME NEW j \in 1..Len(file'[a])
      PROVE  \/ j \in 1..Len(file[a]) /\ file'[a][j] = file[a][j]
             \/ file'[a][j][1] = r
  <2>1. CASE j <= Len(file[a])
    <3>1. j \in 1..Len(file[a])
      BY <2>1, <1>t, <1>1
    <3> QED
      BY <3>1, <1>1
  <2>2. CASE ~(j <= Len(file[a]))
    <3>4. j \in Nat /\ Len(file[a]) \in Nat /\ j <= Len(file[a]) + 2
      BY <1>t, <1>1
    <3>5. j - Len(file[a]) \in 1..2 /\ Len(file[a]) + 2 - 2 + (j - Len(file[a])) = j
      BY <3>4, <2>2
    <3>1. /\ j - Len(file[a]) \in 1..2
          /\ Len(file'[a]) - 2 + (j - Len(file[a])) = j
      BY <3>5, <1>1
    <3>2. file'[a][Len(file'[a]) - 2 + (j - Len(file[a]))] = <<r, j - Len(file[a])>>
      BY <3>1, <1>1 DEF EndsWith
    <3>3. file'[a][j] = <<r, j - Len(file[a])>>
      BY <3>1, <3>2
    <3> QED
      BY <3>3
  <2> QED
    BY <2>1, <2>2
<1>6. ASSUME ~Torn(file'[a])
      PROVE  /\ ~Torn(file[a])
             /\ FramesOf(file'[a]) = IF file[a] = <<>> THEN 0 ELSE FramesOf(file[a]) + 1
  BY <1>6, <1>1, <1>t, UntornAppend
<1> QED
  BY <1>1, <1>4, <1>5, <1>6

\* A frame leaves the queue; its record, or first the header's, goes to the file.
LEMMA TakeFrameStep ==
  ASSUME NEW a \in Art, TypeOK, ArtInv(a), TakeFrame(a)
  PROVE  ArtInv(a)' /\ Preserved(a)
<1> DEFINE q == queue[a]
           h == Head(q)
           r == IF headerWritten[a] THEN h ELSE Header
           acc == accepted[a]
           n == appended[a]
<1>t. /\ file[a] \in Seq(Cell) /\ Len(file[a]) \in Nat /\ synced[a] \in Nat
      /\ q \in Seq(0..MaxSecond) /\ Len(q) \in Nat
      /\ Len(acc) \in Nat /\ n \in Nat /\ onDisk[a] \in Nat
      /\ \A i \in 1..Len(acc) : acc[i] \in Seconds
      /\ \A i \in 1..Len(file[a]) : file[a][i][1] \in Nat
      /\ headerWritten[a] \in BOOLEAN /\ MaxSecond \in Nat
  BY ArtTypes, BinWritersAssumption DEF BinWritersAssumption
<1>n. Len(q) \in Nat /\ Len(acc) \in Nat /\ n \in Nat /\ Len(file[a]) \in Nat
  BY <1>t
<1>1. /\ wpc[a] = "idle" /\ q # <<>> /\ h # Stop
      /\ queue'[a] = Tail(q) /\ item'[a] = h
      /\ wpc'[a] = IF headerWritten[a] THEN "frame" ELSE "header"
      /\ file'[a] = file[a] \o Record(r)
      /\ UNCHANGED <<synced, headerWritten, onDisk, appended, engine, acked, accepted>>
  BY DEF TakeFrame, TypeOK
<1> USE DEF engine
<1>2. /\ Len(q) >= 1 /\ h = q[1] /\ Len(Tail(q)) = Len(q) - 1
      /\ \A i \in 1..Len(Tail(q)) : Tail(q)[i] = q[i + 1]
  BY <1>1, <1>t, HeadTailProperties, EmptySeq
<1>3. /\ Len(q) + n = Len(acc) + Stops
      /\ \A i \in 1..(Len(q) - Stops) : q[i] = acc[n + i]
      /\ Stops = 1 => q[Len(q)] = Stop
      /\ Stops \in {0, 1}
  <2>1. Held(a) = 0 /\ Stops \in {0, 1}
    BY <1>1 DEF Held, Stops
  <2>2. /\ Len(q) + 0 + n = Len(acc) + Stops
        /\ \A i \in 1..(Len(q) - Stops) : q[i] = acc[n + 0 + i]
        /\ Stops = 1 => q[Len(q)] = Stop
    BY <1>1, <2>1 DEF ArtInv, QueueInv, Alive
  <2>3. n + 0 = n /\ Len(q) + 0 = Len(q)
    BY <1>n
  <2> QED
    BY <2>1, <2>2, <2>3
<1>4. Len(q) - Stops >= 1
  <2>1. CASE Stops = 0
    BY <2>1, <1>2, <1>t
  <2>2. CASE Stops = 1
    <3>1. Len(q) # 1
      BY <2>2, <1>1, <1>2, <1>3
    <3>3. Len(q) >= 1
      BY <1>2
    <3>2. Len(q) - 1 >= 1
      <4>1. \A z \in Nat : z >= 1 /\ z # 1 => z - 1 >= 1
        OBVIOUS
      <4> QED
        BY <4>1, <3>1, <3>3, <1>n
    <3> QED
      BY <3>2, <2>2
  <2> QED
    BY <2>1, <2>2, <1>3
<1>5. n + 1 <= Len(acc) /\ h = acc[n + 1] /\ h \in Seconds /\ h \in Nat /\ h >= 1
  <2>1. n + 1 <= Len(acc)
    <3>1. CASE Stops = 0
      BY <3>1, <1>3, <1>4, <1>t
    <3>2. CASE Stops = 1
      BY <3>2, <1>3, <1>4, <1>t
    <3> QED
      BY <3>1, <3>2, <1>3
  <2>2. 1 \in 1..(Len(q) - Stops)
    <3>1. CASE Stops = 0
      BY <3>1, <1>4, <1>t
    <3>2. CASE Stops = 1
      BY <3>2, <1>4, <1>t
    <3> QED
      BY <3>1, <3>2, <1>3
  <2>3. h = acc[n + 1]
    BY <2>2, <1>2, <1>3
  <2>4. acc[n + 1] \in Seconds
    <3>1. n + 1 \in 1..Len(acc)
      BY <2>1, <1>t
    <3> QED
      BY <3>1, <1>t
  <2> QED
    BY <2>1, <2>3, <2>4, <1>t DEF Seconds
<1>6. headerWritten[a] <=> file[a] # <<>>
  BY <1>1 DEF ArtInv, HeaderInv
<1>7. file[a] = <<>> => Len(file[a]) = 0
  BY EmptySeq
<1>8. /\ r \in 0..MaxSecond /\ (file[a] = <<>> <=> r = Header)
  BY <1>5, <1>6, <1>t DEF Seconds, Header
<1>9. \A i \in (n + 1)..Len(acc) : \A j \in 1..Len(file[a]) : file[a][j][1] < acc[i]
  <2>1. Written(a) = n
    BY <1>1 DEF Written
  <2> QED
    BY <2>1, <1>1 DEF ArtInv, OrderInv, Alive
<1>10. ASSUME NEW j \in 1..Len(file[a]) PROVE file[a][j][1] < r
  <2>1. headerWritten[a]
    BY <1>6, <1>7, <1>t
  <2>3. n + 1 <= Len(acc)
    BY <1>5
  <2>2. n + 1 \in (n + 1)..Len(acc)
    BY <2>3, <1>n
  <2> QED
    BY <2>1, <2>2, <1>5, <1>9
<1>11. /\ FileInv(a)' /\ Preserved(a)
       /\ EndsWith(file'[a], r) /\ Len(file'[a]) = Len(file[a]) + 2
       /\ \A j \in 1..Len(file'[a]) :
            \/ j \in 1..Len(file[a]) /\ file'[a][j] = file[a][j]
            \/ file'[a][j][1] = r
       /\ ~Torn(file'[a]) =>
            /\ ~Torn(file[a])
            /\ FramesOf(file'[a]) = IF file[a] = <<>> THEN 0 ELSE FramesOf(file[a]) + 1
  <2>1. /\ synced'[a] \in {synced[a], Len(file[a])} /\ acked'[a] = acked[a] /\ FileInv(a)
        /\ file'[a] = file[a] \o Record(r)
    BY <1>1 DEF ArtInv
  <2> HIDE DEF r
  <2> QED
    BY <2>1, <1>8, <1>10, AppendStep
<1>12. HeaderInv(a)'
  <2>1. synced[a] <= Len(file[a])
    BY <1>t DEF ArtInv, FileInv
  <2>2. CASE headerWritten[a]
    <3>1. wpc'[a] = "frame" /\ headerWritten'[a] /\ EndsWith(file'[a], item'[a])
      BY <2>2, <1>1, <1>11
    <3>3. synced'[a] = synced[a] /\ Len(file'[a]) = Len(file[a]) + 2
      BY <1>1, <1>11
    <3>2. synced'[a] <= Len(file'[a]) - 2
      BY <2>1, <3>3, <1>n
    <3> QED
      BY <3>1, <3>2 DEF HeaderInv
  <2>3. CASE ~headerWritten[a]
    <3>1. Len(file[a]) = 0
      BY <2>3, <1>6, <1>7
    <3>2. synced'[a] = 0 /\ Len(file'[a]) = 2 /\ EndsWith(file'[a], Header)
      BY <2>1, <2>3, <3>1, <1>1, <1>11, <1>t
    <3> QED
      BY <2>3, <3>2, <1>1 DEF HeaderInv
  <2> QED
    BY <2>2, <2>3
<1>13. LifeInv(a)' /\ DrainInv(a)'
  <2>1. epc # "down" /\ epc # "starting"
    <3>1. epc = "starting" => Len(acc) = 0
      BY EmptySeq DEF ArtInv, LifeInv
    <3> QED
      BY <3>1, <1>1, <1>5, <1>t DEF ArtInv, LifeInv
  <2> QED
    BY <2>1, <1>1 DEF ArtInv, LifeInv, DrainInv
<1>14. QueueInv(a)'
  <2>1. Held(a)' = 1 /\ Stops' = Stops
    BY <1>1 DEF Held, Stops
  <2>2. Len(queue'[a]) = Len(q) - 1 /\ \A i \in 1..(Len(q) - 1) : queue'[a][i] = q[i + 1]
    BY <1>1, <1>2
  <2>3. Len(queue'[a]) + 1 + n = Len(acc) + Stops
    <3>1. CASE Stops = 0
      BY <3>1, <2>2, <1>3, <1>t
    <3>2. CASE Stops = 1
      BY <3>2, <2>2, <1>3, <1>t
    <3> QED
      BY <3>1, <3>2, <1>3
  <2>4. ASSUME NEW i \in 1..(Len(queue'[a]) - Stops) PROVE queue'[a][i] = acc[n + 1 + i]
    <3>1. i + 1 \in 1..(Len(q) - Stops) /\ i \in 1..(Len(q) - 1) /\ n + (i + 1) = n + 1 + i
      <4>1. CASE Stops = 0
        <5>1. i \in 1..(Len(q) - 1)
          BY <4>1, <2>2, <1>n
        <5> QED
          BY <5>1, <4>1, <1>n
      <4>2. CASE Stops = 1
        <5>1. i \in 1..(Len(q) - 1 - 1)
          BY <4>2, <2>2
        <5> QED
          BY <5>1, <4>2, <1>n
      <4> QED
        BY <4>1, <4>2, <1>3
    <3>2. queue'[a][i] = q[i + 1] /\ q[i + 1] = acc[n + (i + 1)]
      BY <3>1, <2>2, <1>3
    <3> QED
      BY <3>1, <3>2
  <2>5. ASSUME Stops = 1 PROVE Len(queue'[a]) >= 1 /\ queue'[a][Len(queue'[a])] = Stop
    <3>1. Len(q) - 1 \in 1..(Len(q) - 1) /\ Len(q) - 1 + 1 = Len(q)
      BY <2>5, <1>4, <1>t
    <3>2. queue'[a][Len(q) - 1] = q[Len(q)]
      BY <3>1, <2>2
    <3> QED
      BY <2>5, <3>1, <3>2, <2>2, <1>3
  <2> QED
    BY <2>1, <2>3, <2>4, <2>5, <1>1, <1>5 DEF QueueInv
<1>15. OrderInv(a)'
  <2>1. Latest(a)' = Latest(a)
    BY <1>1 DEF Latest
  <2>2. Latest(a) \in Int
    BY ArtTypes DEF Latest
  <2>3. h <= Latest(a) /\ r <= h /\ r \in Nat
    <3>0. n + 1 <= Len(acc)
      BY <1>5
    <3>1. n + 1 \in 1..Len(acc)
      BY <3>0, <1>n
    <3>2. acc[n + 1] <= Latest(a)
      BY <3>1 DEF ArtInv, OrderInv
    <3>3. h <= Latest(a) /\ h \in Nat
      BY <3>2, <1>5
    <3>4. r = h \/ r = 0
      BY DEF Header
    <3> HIDE DEF h, r
    <3> QED
      BY <3>3, <3>4
  <2>4. ASSUME NEW j \in 1..Len(file'[a]) PROVE file'[a][j][1] <= Latest(a)
    <3>1. CASE j \in 1..Len(file[a]) /\ file'[a][j] = file[a][j]
      BY <3>1 DEF ArtInv, OrderInv
    <3>2. CASE file'[a][j][1] = r
      BY <3>2, <2>2, <2>3, <1>5
    <3> QED
      BY <3>1, <3>2, <1>11
  <2>5. ASSUME NEW i \in (Written(a)' + 1)..Len(acc), NEW j \in 1..Len(file'[a])
        PROVE  file'[a][j][1] < acc[i]
    <3>4. Written(a)' = IF headerWritten[a] THEN n + 1 ELSE n
      BY <1>1 DEF Written
    <3>1. i \in (n + 1)..Len(acc) /\ (headerWritten[a] => i >= n + 2)
      <4>1. CASE headerWritten[a]
        <5>1. i \in (n + 1 + 1)..Len(acc)
          BY <4>1, <3>4
        <5> QED
          BY <5>1, <1>n
      <4>2. CASE ~headerWritten[a]
        BY <4>2, <3>4
      <4> QED
        BY <4>1, <4>2
    <3>2. CASE j \in 1..Len(file[a]) /\ file'[a][j] = file[a][j]
      BY <3>1, <3>2, <1>9
    <3>3. CASE file'[a][j][1] = r
      <4>1. CASE headerWritten[a]
        <5>3. i \in (n + 1)..Len(acc) /\ i >= n + 2
          BY <4>1, <3>1
        <5>1. n + 1 \in 1..Len(acc) /\ i \in 1..Len(acc) /\ n + 1 < i
          BY <5>3, <1>n
        <5>2. acc[n + 1] < acc[i]
          BY <5>1 DEF ArtInv, OrderInv
        <5> QED
          BY <4>1, <5>2, <3>3, <1>5
      <4>2. CASE ~headerWritten[a]
        <5>1. i \in 1..Len(acc)
          BY <3>1, <1>t
        <5>2. acc[i] \in Seconds
          BY <5>1, <1>t
        <5> QED
          BY <4>2, <5>2, <3>3, <1>t DEF Seconds, Header
      <4> QED
        BY <4>1, <4>2
    <3> QED
      BY <3>2, <3>3, <1>11
  <2>6. /\ \A i \in 1..Len(acc) : acc[i] <= Latest(a)
        /\ \A i, j \in 1..Len(acc) : i < j => acc[i] < acc[j]
    BY DEF ArtInv, OrderInv
  <2> QED
    BY <2>1, <2>4, <2>5, <2>6, <1>1 DEF OrderInv
<1>16. CountInv(a)'
  <2> SUFFICES ASSUME ~Torn(file'[a]) PROVE FramesOf(file'[a]) = onDisk[a] + Written(a)'
    BY <1>1 DEF CountInv
  <2>1. ~Torn(file[a]) /\ Written(a) = n
    BY <1>1, <1>11 DEF Written
  <2>2. FramesOf(file[a]) = onDisk[a] + n
    BY <2>1, <1>1 DEF ArtInv, CountInv, Alive
  <2>3. CASE headerWritten[a]
    <3>1. FramesOf(file'[a]) = FramesOf(file[a]) + 1 /\ Written(a)' = n + 1
      BY <2>3, <1>1, <1>6, <1>11 DEF Written
    <3> QED
      BY <3>1, <2>2, <1>t
  <2>4. CASE ~headerWritten[a]
    <3>1. FramesOf(file'[a]) = 0 /\ Written(a)' = n
      BY <2>4, <1>1, <1>6, <1>11 DEF Written
    <3>2. Len(file[a]) = 0
      BY <2>4, <1>6, <1>7
    <3>3. FramesOf(file[a]) = 0
      BY <3>2 DEF FramesOf
    <3> QED
      BY <3>1, <3>3, <2>2, <1>t
  <2> QED
    BY <2>3, <2>4
<1> QED
  BY <1>11, <1>12, <1>13, <1>14, <1>15, <1>16 DEF ArtInv

\* The header is durable; the frame that waited for it follows.
LEMMA FsyncHeaderStep ==
  ASSUME NEW a \in Art, TypeOK, ArtInv(a), FsyncHeader(a)
  PROVE  ArtInv(a)' /\ Preserved(a)
<1> DEFINE acc == accepted[a]
           n == appended[a]
           r == item[a]
<1>t. /\ file[a] \in Seq(Cell) /\ synced[a] \in Nat /\ onDisk[a] \in Nat
      /\ \A i \in 1..Len(acc) : acc[i] \in Seconds
      /\ \A i \in 1..Len(file[a]) : file[a][i][1] \in Nat
      /\ r \in 0..MaxSecond
  BY ArtTypes
<1>n. Len(acc) \in Nat /\ n \in Nat /\ Len(file[a]) \in Nat
  BY ArtTypes
<1>1. /\ wpc[a] = "header" /\ wpc'[a] = "frame"
      /\ synced'[a] = Len(file[a]) /\ headerWritten'[a] = TRUE
      /\ file'[a] = file[a] \o Record(r)
      /\ UNCHANGED <<queue, item, onDisk, appended, engine, acked, accepted>>
  BY DEF FsyncHeader, TypeOK
<1> USE DEF engine
<1>2. Len(file[a]) = 2 /\ file[a] # <<>>
  <2>1. Len(file[a]) = 2
    BY <1>1 DEF ArtInv, HeaderInv
  <2> QED
    BY <2>1, EmptySeq
<1>3. n + 1 <= Len(acc) /\ r = acc[n + 1]
  BY <1>1 DEF ArtInv, QueueInv, Alive, Held
<1>4. n + 1 \in 1..Len(acc) /\ r \in Seconds /\ r # Header /\ r \in Nat
  <2>1. n + 1 \in 1..Len(acc)
    BY <1>3, <1>n
  <2> QED
    BY <2>1, <1>3, <1>t DEF Seconds, Header
<1>5. \A i \in (n + 1)..Len(acc) : \A j \in 1..Len(file[a]) : file[a][j][1] < acc[i]
  <2>1. Written(a) = n
    BY <1>1 DEF Written
  <2> QED
    BY <2>1, <1>1 DEF ArtInv, OrderInv, Alive
<1>6. ASSUME NEW j \in 1..Len(file[a]) PROVE file[a][j][1] < r
  <2>1. n + 1 \in (n + 1)..Len(acc)
    BY <1>3, <1>n
  <2> QED
    BY <2>1, <1>3, <1>5
<1>7. /\ FileInv(a)' /\ Preserved(a)
      /\ EndsWith(file'[a], r) /\ Len(file'[a]) = Len(file[a]) + 2
      /\ \A j \in 1..Len(file'[a]) :
           \/ j \in 1..Len(file[a]) /\ file'[a][j] = file[a][j]
           \/ file'[a][j][1] = r
      /\ ~Torn(file'[a]) =>
           /\ ~Torn(file[a])
           /\ FramesOf(file'[a]) = IF file[a] = <<>> THEN 0 ELSE FramesOf(file[a]) + 1
  <2>1. /\ synced'[a] \in {synced[a], Len(file[a])} /\ acked'[a] = acked[a] /\ FileInv(a)
        /\ file'[a] = file[a] \o Record(r) /\ (file[a] = <<>> <=> r = Header)
    BY <1>1, <1>2, <1>4 DEF ArtInv
  <2> HIDE DEF r
  <2> QED
    BY <2>1, <1>t, <1>6, AppendStep
<1>8. HeaderInv(a)'
  <2>1. synced'[a] = 2 /\ Len(file'[a]) = 4 /\ item'[a] = r
    BY <1>1, <1>2, <1>7
  <2>2. synced'[a] <= Len(file'[a]) - 2
    BY <2>1
  <2> QED
    BY <2>1, <2>2, <1>1, <1>7 DEF HeaderInv
<1>9. LifeInv(a)' /\ DrainInv(a)'
  BY <1>1 DEF ArtInv, LifeInv, DrainInv
<1>10. QueueInv(a)'
  <2>1. Held(a)' = Held(a) /\ Stops' = Stops
    BY <1>1 DEF Held, Stops
  <2> QED
    BY <2>1, <1>1 DEF ArtInv, QueueInv, Alive
<1>11. OrderInv(a)'
  <2>1. Latest(a)' = Latest(a)
    BY <1>1 DEF Latest
  <2>2. r <= Latest(a)
    BY <1>3, <1>4 DEF ArtInv, OrderInv
  <2>3. \A j \in 1..Len(file'[a]) : file'[a][j][1] <= Latest(a)
    BY <2>2, <1>7 DEF ArtInv, OrderInv
  <2>4. ASSUME NEW i \in (Written(a)' + 1)..Len(acc), NEW j \in 1..Len(file'[a])
        PROVE  file'[a][j][1] < acc[i]
    <3>1. i \in (n + 2)..Len(acc)
      <4>1. Written(a)' = n + 1
        BY <1>1 DEF Written
      <4> QED
        BY <4>1, <1>n
    <3>2. i \in (n + 1)..Len(acc) /\ i \in 1..Len(acc) /\ n + 1 < i
      BY <3>1, <1>n
    <3>3. acc[n + 1] < acc[i]
      BY <3>2, <1>4 DEF ArtInv, OrderInv
    <3> QED
      BY <3>2, <3>3, <1>3, <1>5, <1>7
  <2>5. /\ \A i \in 1..Len(acc) : acc[i] <= Latest(a)
        /\ \A i, j \in 1..Len(acc) : i < j => acc[i] < acc[j]
    BY DEF ArtInv, OrderInv
  <2> QED
    BY <2>1, <2>3, <2>4, <2>5, <1>1 DEF OrderInv
<1>12. CountInv(a)'
  <2> SUFFICES ASSUME ~Torn(file'[a]) PROVE FramesOf(file'[a]) = onDisk[a] + Written(a)'
    BY <1>1 DEF CountInv
  <2>1. ~Torn(file[a]) /\ Written(a) = n /\ Written(a)' = n + 1
    BY <1>1, <1>7 DEF Written
  <2>2. FramesOf(file[a]) = onDisk[a] + n
    BY <2>1, <1>1 DEF ArtInv, CountInv, Alive
  <2>3. FramesOf(file'[a]) = FramesOf(file[a]) + 1
    BY <1>2, <1>7
  <2>4. onDisk[a] + n + 1 = onDisk[a] + (n + 1)
    BY <1>t, <1>n
  <2> QED
    BY <2>1, <2>2, <2>3, <2>4
<1> QED
  BY <1>7, <1>8, <1>9, <1>10, <1>11, <1>12 DEF ArtInv

\* A frame is durable, and counted.
LEMMA FsyncFrameStep ==
  ASSUME NEW a \in Art, TypeOK, ArtInv(a), FsyncFrame(a)
  PROVE  ArtInv(a)' /\ Preserved(a) /\ item[a] \in Seconds
<1> DEFINE acc == accepted[a]
           ack == acked[a]
           n == appended[a]
           r == item[a]
<1>t. /\ file[a] \in Seq(Cell) /\ synced[a] \in Nat /\ onDisk[a] \in Nat
      /\ ack \in Seq(Seconds)
      /\ \A i \in 1..Len(acc) : acc[i] \in Seconds
  BY ArtTypes
<1>n. /\ Len(acc) \in Nat /\ n \in Nat /\ Len(file[a]) \in Nat /\ Len(ack) \in Nat
      /\ Len(queue[a]) \in Nat
  BY ArtTypes
<1>1. /\ wpc[a] = "frame" /\ wpc'[a] = "idle" /\ synced'[a] = Len(file[a])
      /\ appended'[a] = n + 1 /\ acked'[a] = Append(ack, r)
      /\ UNCHANGED <<file, queue, item, headerWritten, onDisk, engine, accepted>>
  BY DEF FsyncFrame, TypeOK
<1> USE DEF engine
<1>2. n + 1 <= Len(acc) /\ r = acc[n + 1]
  BY <1>1 DEF ArtInv, QueueInv, Alive, Held
<1>3. r \in Seconds
  <2>1. n + 1 \in 1..Len(acc)
    BY <1>2, <1>n
  <2> QED
    BY <2>1, <1>2, <1>t
<1>4. /\ Len(acked'[a]) = Len(ack) + 1
      /\ \A i \in 1..Len(ack) : acked'[a][i] = ack[i]
      /\ acked'[a][Len(ack) + 1] = r
  <2>1. acked'[a] = Append(ack, r)
    BY <1>1
  <2> HIDE DEF r, ack
  <2> QED
    BY <2>1, <1>3, <1>t, AppendProperties
<1>5. /\ Shaped(file[a]) /\ EndsWith(file[a], r) /\ headerWritten[a]
      /\ synced[a] <= Len(file[a])
  BY <1>1, <1>t, <1>n DEF ArtInv, FileInv, HeaderInv
<1>6. FileInv(a)' /\ Preserved(a)
  <2>1. ASSUME NEW i \in 1..Len(acked'[a]) PROVE Whole(file[a], Len(file[a]), acked'[a][i])
    <3>1. CASE i \in 1..Len(ack)
      <4>1. Whole(file[a], synced[a], ack[i])
        BY <3>1 DEF ArtInv, FileInv
      <4>2. Whole(file[a], Len(file[a]), ack[i])
        BY <4>1, <1>5, <1>t, <1>n, WholeKept
      <4> QED
        BY <4>2, <3>1, <1>4
    <3>2. CASE i = Len(ack) + 1
      BY <3>2, <1>4, <1>5, <1>t, WholeAtEnd
    <3>3. i \in 1..Len(ack) \/ i = Len(ack) + 1
      BY <1>4, <1>n
    <3> QED
      BY <3>1, <3>2, <3>3
  <2>2. Preserved(a)
    BY <1>1, <1>5, <1>n DEF Preserved
  <2> QED
    BY <2>1, <2>2, <1>1, <1>5, <1>n DEF FileInv
<1>7. HeaderInv(a)'
  <2>1. file[a] # <<>>
    <3>1. Len(file[a]) >= 2
      BY <1>5 DEF EndsWith
    <3> QED
      BY <3>1, EmptySeq
  <2> QED
    BY <2>1, <1>1, <1>5 DEF HeaderInv
<1>8. LifeInv(a)'
  BY <1>1 DEF ArtInv, LifeInv
<1>9. DrainInv(a)'
  <2>1. n <= Len(ack) /\ \A i \in 1..n : ack[Len(ack) - n + i] = acc[i]
    BY DEF ArtInv, DrainInv
  <2>2. n + 1 <= Len(acked'[a])
    BY <2>1, <1>4, <1>n
  <2>3. ASSUME NEW i \in 1..(n + 1) PROVE acked'[a][Len(acked'[a]) - (n + 1) + i] = acc[i]
    <3>5. Len(acked'[a]) = Len(ack) + 1
      BY <1>4
    <3>1. Len(acked'[a]) - (n + 1) + i = Len(ack) - n + i
      <4> DEFINE m == Len(acked'[a])
      <4>1. m = Len(ack) + 1
        BY <3>5
      <4>n. Len(ack) \in Nat /\ n \in Nat /\ i \in 1..(n + 1)
        BY <1>n
      <4> HIDE DEF m, n, ack
      <4>2. m - (n + 1) + i = Len(ack) - n + i
        BY <4>1, <4>n
      <4> QED
        BY <4>2 DEF m
    <3>2. CASE i = n + 1
      <4>1. Len(ack) - n + i = Len(ack) + 1
        BY <3>2, <1>n
      <4> QED
        BY <4>1, <3>1, <3>2, <1>2, <1>4
    <3>3. CASE i # n + 1
      <4>2. n <= Len(ack) /\ Len(ack) \in Nat /\ n \in Nat
        BY <2>1, <1>n
      <4>3. i \in 1..n
        BY <3>3, <4>2
      <4>1. i \in 1..n /\ Len(ack) - n + i \in 1..Len(ack)
        BY <4>2, <4>3
      <4> QED
        BY <4>1, <3>1, <2>1, <1>4
    <3> QED
      BY <3>2, <3>3
  <2> QED
    BY <2>2, <2>3, <1>1, <1>2 DEF DrainInv
<1>10. QueueInv(a)'
  <2>1. Held(a) = 1 /\ Held(a)' = 0 /\ Stops' = Stops /\ Stops \in {0, 1}
    BY <1>1 DEF Held, Stops
  <2>2. /\ Len(queue[a]) + 1 + n = Len(acc) + Stops
        /\ \A i \in 1..(Len(queue[a]) - Stops) : queue[a][i] = acc[n + 1 + i]
        /\ Stops = 1 => Len(queue[a]) >= 1 /\ queue[a][Len(queue[a])] = Stop
    BY <2>1, <1>1 DEF ArtInv, QueueInv, Alive
  <2>3. Len(queue[a]) + 0 + (n + 1) = Len(queue[a]) + 1 + n /\ n + 1 + 0 = n + 1
    <3>1. \A x, y \in Nat : x + 0 + (y + 1) = x + 1 + y /\ y + 1 + 0 = y + 1
      OBVIOUS
    <3> QED
      BY <3>1, <1>n
  <2>4. /\ Len(queue'[a]) + Held(a)' + appended'[a] = Len(accepted'[a]) + Stops'
        /\ \A i \in 1..(Len(queue'[a]) - Stops') :
             queue'[a][i] = accepted'[a][appended'[a] + Held(a)' + i]
    BY <2>1, <2>2, <2>3, <1>1
  <2>5. Stops' = 1 => Len(queue'[a]) >= 1 /\ queue'[a][Len(queue'[a])] = Stop
    BY <2>1, <2>2, <1>1
  <2>6. Held(a)' # 1
    BY <2>1
  <2> QED
    BY <2>4, <2>5, <2>6 DEF QueueInv
<1>11. OrderInv(a)' /\ CountInv(a)'
  <2>1. Latest(a)' = Latest(a) /\ Written(a)' = Written(a)
    BY <1>1 DEF Latest, Written
  <2> QED
    BY <2>1, <1>1 DEF ArtInv, OrderInv, CountInv, Alive
<1> QED
  BY <1>3, <1>6, <1>7, <1>8, <1>9, <1>10, <1>11 DEF ArtInv

-----------------------------------------------------------------------------
(* The steps of the engine, as one artifact sees them. *)

\* The engine moves on between two grid passes, or its run loop ends.
LEMMA QuietStep ==
  ASSUME NEW a \in Art, TypeOK, ArtInv(a),
         \/ WritersReady \/ StartRaises \/ BeginSecond \/ EnqueueRaises
         \/ StopEvent \/ JoinAll \/ JoinTimesOut
  PROVE  ArtInv(a)' /\ Preserved(a)
<1>t. second \in Nat /\ next \in Nat /\ a \in Nat /\ a >= 1
  BY BinWritersAssumption DEF TypeOK, Art, BinWritersAssumption
<1>1. /\ file'[a] = file[a] /\ synced'[a] = synced[a] /\ queue'[a] = queue[a]
      /\ wpc'[a] = wpc[a] /\ item'[a] = item[a] /\ headerWritten'[a] = headerWritten[a]
      /\ onDisk'[a] = onDisk[a] /\ appended'[a] = appended[a] /\ acked'[a] = acked[a]
      /\ accepted'[a] = accepted[a]
  BY DEF WritersReady, StartRaises, BeginSecond, EnqueueRaises, StopEvent, JoinAll,
         JoinTimesOut, disk, thread
<1>2. /\ epc # "down" /\ epc' \notin {"down", "starting"} /\ Stops' = Stops
      /\ epc \in {"joining", "exited"} => epc' \in {"joining", "exited"}
  BY DEF WritersReady, StartRaises, BeginSecond, EnqueueRaises, StopEvent, JoinAll,
         JoinTimesOut, Stops
<1>3. Latest(a) \in Int /\ Latest(a)' \in Int /\ Latest(a) <= Latest(a)'
  <2>1. CASE BeginSecond
    <3>1. Latest(a) = second /\ Latest(a)' = second + 1 - 1
      BY <2>1, <1>t DEF BeginSecond, Latest
    <3> QED
      BY <3>1, <1>t
  <2>2. CASE EnqueueRaises
    <3>1. Latest(a)' = second /\ (Latest(a) = second \/ Latest(a) = second - 1)
      BY <2>2 DEF EnqueueRaises, Latest
    <3> QED
      BY <3>1, <1>t
  <2>3. CASE WritersReady \/ StartRaises \/ StopEvent \/ JoinAll \/ JoinTimesOut
    <3>1. Latest(a)' = second /\ Latest(a) = second
      BY <2>3 DEF WritersReady, StartRaises, StopEvent, JoinAll, JoinTimesOut, Latest
    <3> QED
      BY <3>1, <1>t
  <2> QED
    BY <2>1, <2>2, <2>3
<1> QED
  BY <1>1, <1>2, <1>3, EngineMoves

\* A process starts and counts what its files hold.
LEMMA BootStep ==
  ASSUME NEW a \in Art, TypeOK, ArtInv(a), Boot
  PROVE  ArtInv(a)' /\ Preserved(a)
<1>1. /\ epc = "down" /\ epc' = "starting" /\ wpc'[a] = "opening"
      /\ onDisk'[a] \in ScanFrames(file[a])
      /\ UNCHANGED <<disk, queue, item, headerWritten, appended, second, next, acked, accepted>>
  BY DEF Boot
<1> USE DEF disk
<1>2. Shaped(file[a]) /\ synced[a] <= Len(file[a])
  BY ArtTypes DEF ArtInv, FileInv
<1>3. FileInv(a)' /\ Preserved(a)
  BY <1>1, <1>2, FileKept DEF ArtInv
<1>4. queue[a] = <<>> /\ accepted[a] = <<>> /\ appended[a] = 0
  BY <1>1 DEF ArtInv, LifeInv
<1>5. Len(queue[a]) = 0 /\ Len(accepted[a]) = 0
  BY <1>4, EmptySeq
<1>6. HeaderInv(a)' /\ LifeInv(a)' /\ DrainInv(a)'
  BY <1>1, <1>4 DEF ArtInv, HeaderInv, LifeInv, DrainInv
<1>7. Held(a)' = 0 /\ Stops' = 0 /\ Written(a)' = 0 /\ Latest(a)' = Latest(a)
  BY <1>1, <1>4 DEF Held, Stops, Written, Latest
<1>8. QueueInv(a)'
  BY <1>1, <1>4, <1>5, <1>7 DEF QueueInv
<1>9. OrderInv(a)'
  BY <1>1, <1>5, <1>7 DEF ArtInv, OrderInv
<1>10. CountInv(a)'
  <2>1. onDisk'[a] \in Nat /\ (~Torn(file[a]) => onDisk'[a] = FramesOf(file[a]))
    BY <1>1, <1>2, UntornScan
  <2>2. ~Torn(file[a]) => FramesOf(file[a]) = onDisk'[a] + 0
    BY <2>1
  <2> QED
    BY <2>2, <1>1, <1>7 DEF CountInv
<1> QED
  BY <1>3, <1>6, <1>8, <1>9, <1>10 DEF ArtInv

\* The process ends, and keeps of each file what was durable and perhaps more.
LEMMA ResetStep ==
  ASSUME NEW a \in Art, TypeOK, ArtInv(a), KeepSomePrefix, ResetProcess,
         UNCHANGED <<synced, second, acked>>
  PROVE  ArtInv(a)' /\ Preserved(a)
<1>t. /\ Len(file[a]) \in Nat /\ synced[a] \in Nat /\ Len(acked[a]) \in Nat
      /\ second \in Nat /\ \A i \in 1..Len(file[a]) : file[a][i][1] \in Nat
  BY ArtTypes
<1>1. PICK m \in synced[a]..Len(file[a]) : file'[a] = SubSeq(file[a], 1, m)
  BY DEF KeepSomePrefix
<1>2. /\ epc' = "down" /\ wpc'[a] = "down" /\ queue'[a] = <<>>
      /\ appended'[a] = 0 /\ accepted'[a] = <<>> /\ Len(accepted'[a]) = 0
  BY EmptySeq DEF ResetProcess
<1>3. m \in 0..Len(file[a]) /\ synced[a] <= m /\ Shaped(file[a])
  BY <1>1, <1>t DEF ArtInv, FileInv
<1>4. /\ Shaped(file'[a]) /\ Len(file'[a]) = m /\ \A i \in 1..m : file'[a][i] = file[a][i]
  BY <1>1, <1>3, ShapedPrefix
<1>5. FileInv(a)' /\ Preserved(a)
  <2>1. synced[a] <= Len(file'[a]) /\ \A i \in 1..synced[a] : file'[a][i] = file[a][i]
    BY <1>3, <1>4, <1>t
  <2> QED
    BY <2>1, <1>4, FileKept DEF ArtInv
<1>6. HeaderInv(a)' /\ LifeInv(a)' /\ QueueInv(a)' /\ CountInv(a)'
  BY <1>2 DEF HeaderInv, LifeInv, QueueInv, CountInv, Alive
<1>7. DrainInv(a)'
  BY <1>2, <1>t DEF DrainInv
<1>8. OrderInv(a)'
  <2>1. Latest(a)' = second /\ (Latest(a) = second \/ Latest(a) = second - 1)
    BY <1>2 DEF Latest
  <2>2. ASSUME NEW j \in 1..Len(file'[a]) PROVE file'[a][j][1] <= Latest(a)'
    <3>1. j \in 1..Len(file[a]) /\ file'[a][j] = file[a][j]
      BY <1>3, <1>4, <1>t
    <3>2. file[a][j][1] <= Latest(a) /\ file[a][j][1] \in Nat
      BY <3>1, <1>t DEF ArtInv, OrderInv
    <3> QED
      BY <3>1, <3>2, <2>1, <1>t
  <2> QED
    BY <2>2, <1>2 DEF OrderInv, Alive
<1> QED
  BY <1>5, <1>6, <1>7, <1>8 DEF ArtInv

\* Every queue gets its sentinel.
LEMMA RequestStopsStep ==
  ASSUME NEW a \in Art, TypeOK, ArtInv(a), RequestStops
  PROVE  ArtInv(a)' /\ Preserved(a)
<1> DEFINE q == queue[a]
<1>t. q \in Seq(0..MaxSecond) /\ MaxSecond \in Nat
  BY ArtTypes, BinWritersAssumption DEF BinWritersAssumption
<1>n. Len(q) \in Nat /\ Len(accepted[a]) \in Nat /\ appended[a] \in Nat
  BY ArtTypes
<1>1. /\ epc = "stopping" /\ epc' = "joining" /\ queue'[a] = Append(q, Stop)
      /\ UNCHANGED <<disk, thread, second, next, acked, accepted>>
  BY DEF RequestStops
<1> USE DEF disk, thread
<1>2. FileInv(a)' /\ Preserved(a)
  <2>1. Shaped(file[a]) /\ synced[a] <= Len(file[a])
    BY ArtTypes DEF ArtInv, FileInv
  <2> QED
    BY <1>1, <2>1, FileKept DEF ArtInv
<1>3. HeaderInv(a)' /\ LifeInv(a)' /\ DrainInv(a)'
  BY <1>1 DEF ArtInv, HeaderInv, LifeInv, DrainInv
<1>4. /\ Len(queue'[a]) = Len(q) + 1 /\ queue'[a][Len(q) + 1] = Stop
      /\ \A i \in 1..Len(q) : queue'[a][i] = q[i]
  <2>1. Stop \in 0..MaxSecond
    BY <1>t DEF Stop
  <2>2. queue'[a] = Append(q, Stop)
    BY <1>1
  <2> HIDE DEF q
  <2> QED
    BY <2>1, <2>2, <1>t, AppendProperties
<1>5. /\ Stops = 0 /\ Stops' = 1 /\ Held(a)' = Held(a) /\ Held(a) \in {0, 1}
      /\ Written(a)' = Written(a) /\ Latest(a)' = Latest(a)
  BY <1>1 DEF Stops, Held, Written, Latest
<1>6. QueueInv(a)'
  <2> SUFFICES ASSUME wpc[a] \in Alive
      PROVE /\ Len(queue'[a]) + Held(a) + appended[a] = Len(accepted[a]) + 1
            /\ \A i \in 1..(Len(queue'[a]) - 1) :
                 queue'[a][i] = accepted[a][appended[a] + Held(a) + i]
            /\ Len(queue'[a]) >= 1 /\ queue'[a][Len(queue'[a])] = Stop
            /\ Held(a) = 1 => /\ appended[a] + 1 <= Len(accepted[a])
                              /\ item[a] = accepted[a][appended[a] + 1]
    BY <1>1, <1>5 DEF QueueInv
  <2>1. /\ Len(q) + Held(a) + appended[a] = Len(accepted[a]) + 0
        /\ \A i \in 1..(Len(q) - 0) : q[i] = accepted[a][appended[a] + Held(a) + i]
        /\ Held(a) = 1 => /\ appended[a] + 1 <= Len(accepted[a])
                          /\ item[a] = accepted[a][appended[a] + 1]
    BY <1>5 DEF ArtInv, QueueInv
  <2>2. Len(queue'[a]) + Held(a) + appended[a] = Len(accepted[a]) + 1
    <3>1. CASE Held(a) = 0
      BY <3>1, <2>1, <1>4, <1>n
    <3>2. CASE Held(a) = 1
      <4>1. Len(q) + 1 + appended[a] = Len(accepted[a]) + 0
        BY <3>2, <2>1
      <4>2. Len(queue'[a]) = Len(q) + 1
        BY <1>4
      <4>3. Len(q) + 1 + 1 + appended[a] = Len(accepted[a]) + 1
        BY <4>1, <1>n
      <4> QED
        BY <3>2, <4>2, <4>3
    <3> QED
      BY <3>1, <3>2, <1>5
  <2>3. Len(q) + 1 >= 1 /\ Len(q) + 1 - 1 = Len(q) /\ Len(q) - 0 = Len(q)
    BY <1>n
  <2>4. ASSUME NEW i \in 1..(Len(queue'[a]) - 1)
        PROVE  queue'[a][i] = accepted[a][appended[a] + Held(a) + i]
    <3>1. i \in 1..Len(q) /\ i \in 1..(Len(q) - 0)
      BY <2>3, <1>4
    <3> QED
      BY <3>1, <2>1, <1>4
  <2> QED
    BY <2>1, <2>2, <2>3, <2>4, <1>4
<1>7. OrderInv(a)' /\ CountInv(a)'
  BY <1>1, <1>5 DEF ArtInv, OrderInv, CountInv
<1> QED
  BY <1>2, <1>3, <1>6, <1>7 DEF ArtInv

\* A frame is handed to one artifact's writer; the engine moves to the next.
LEMMA EnqueueStep ==
  ASSUME NEW a \in Art, TypeOK, ArtInv(a), Enqueue, second >= 1
  PROVE  ArtInv(a)' /\ Preserved(a)
<1> DEFINE q == queue[a]
           acc == accepted[a]
           n == appended[a]
<1>t. /\ q \in Seq(0..MaxSecond) /\ acc \in Seq(Seconds) /\ second \in Seconds
      /\ wpc[a] \in ThreadStates /\ second \in 0..MaxSecond
  BY ArtTypes, BinWritersAssumption DEF BinWritersAssumption, TypeOK, Seconds
<1>n. /\ Len(q) \in Nat /\ Len(acc) \in Nat /\ n \in Nat /\ second \in Nat
      /\ next \in Nat /\ a \in Nat
      /\ \A i \in 1..Len(acc) : acc[i] \in Nat
  BY ArtTypes DEF Seconds
<1>1. /\ epc = "enqueue" /\ epc' \in {"grid", "enqueue"} /\ wpc[next] # "failed"
      /\ epc' = "enqueue" => next' = next + 1
      /\ UNCHANGED <<disk, thread, second, acked>>
  BY DEF Enqueue
<1> USE DEF disk, thread
<1>s. Stops = 0 /\ Stops' = 0
  BY <1>1 DEF Stops
<1>2. CASE a # next
  <2>1. queue'[a] = queue[a] /\ accepted'[a] = accepted[a]
    BY <1>2 DEF Enqueue, TypeOK
  <2>2. Latest(a) \in Int /\ Latest(a)' \in Int /\ Latest(a) <= Latest(a)'
    <3>1. CASE a >= next
      <4>1. Latest(a) = second - 1 /\ Latest(a)' \in {second - 1, second}
        BY <3>1, <1>1 DEF Latest
      <4> QED
        BY <4>1, <1>n
    <3>2. CASE ~(a >= next)
      <4>1. epc' = "enqueue" => ~(a >= next')
        BY <3>2, <1>1, <1>n
      <4>2. Latest(a) = second /\ Latest(a)' = second
        BY <4>1, <3>2, <1>1 DEF Latest
      <4> QED
        BY <4>2, <1>n
    <3> QED
      BY <3>1, <3>2
  <2>3. epc # "down" /\ epc' \notin {"down", "starting"} /\ Stops' = Stops
        /\ epc \notin {"joining", "exited"}
    BY <1>1, <1>s
  <2> QED
    BY <2>1, <2>2, <2>3, <1>1, EngineMoves
<1>3. CASE a = next
  <2>1. queue'[a] = Append(q, second) /\ accepted'[a] = Append(acc, second)
    BY <1>3 DEF Enqueue, TypeOK
  <2>2. /\ Len(queue'[a]) = Len(q) + 1 /\ queue'[a][Len(q) + 1] = second
        /\ \A i \in 1..Len(q) : queue'[a][i] = q[i]
    <3> HIDE DEF q, acc
    <3> QED
      BY <2>1, <1>t, AppendProperties
  <2>3. /\ Len(accepted'[a]) = Len(acc) + 1 /\ accepted'[a][Len(acc) + 1] = second
        /\ \A i \in 1..Len(acc) : accepted'[a][i] = acc[i]
    <3> HIDE DEF q, acc
    <3> QED
      BY <2>1, <1>t, AppendProperties
  <2>4. Latest(a) = second - 1 /\ Latest(a)' = second
    <3>1. a >= next /\ (epc' = "enqueue" => ~(a >= next'))
      BY <1>1, <1>3, <1>n
    <3> QED
      BY <3>1, <1>1 DEF Latest
  <2>5. wpc[a] \in Alive /\ wpc[a] # "down" /\ wpc[a] # "closed"
    BY <1>1, <1>3, <1>t DEF ArtInv, LifeInv, ThreadStates, Alive
  <2>6. FileInv(a)' /\ Preserved(a)
    <3>1. Shaped(file[a]) /\ synced[a] <= Len(file[a])
      BY ArtTypes DEF ArtInv, FileInv
    <3> QED
      BY <1>1, <3>1, FileKept DEF ArtInv
  <2>7. HeaderInv(a)' /\ CountInv(a)'
    BY <1>1 DEF ArtInv, HeaderInv, CountInv, Written
  <2>8. LifeInv(a)'
    BY <1>1, <2>5 DEF ArtInv, LifeInv
  <2>9. DrainInv(a)'
    <3>1. n <= Len(acked[a]) /\ n <= Len(acc) /\ n <= Len(acc) + 1
      BY <1>n DEF ArtInv, DrainInv
    <3>2. \A i \in 1..n : i \in 1..Len(acc)
      BY <3>1, <1>n
    <3> QED
      BY <3>1, <3>2, <2>3, <1>1 DEF ArtInv, DrainInv
  <2>10. QueueInv(a)'
    <3>1. Held(a)' = Held(a) /\ Held(a) \in {0, 1}
      BY <1>1 DEF Held
    <3>2. /\ Len(q) + Held(a) + n = Len(acc) + 0
          /\ \A i \in 1..(Len(q) - 0) : q[i] = acc[n + Held(a) + i]
          /\ Held(a) = 1 => n + 1 <= Len(acc) /\ item[a] = acc[n + 1]
      BY <2>5, <1>s DEF ArtInv, QueueInv
    <3> DEFINE s == Held(a)
    <3>3. s \in Nat
      BY <3>1
    <3> HIDE DEF s
    <3>4. Len(q) + s + n = Len(acc) /\ \A i \in 1..Len(q) : q[i] = acc[n + s + i]
      <4>1. /\ Len(q) + s + n = Len(acc) + 0
            /\ \A i \in 1..(Len(q) - 0) : q[i] = acc[n + s + i]
        BY <3>2 DEF s
      <4> QED
        BY <4>1, <1>n
    <3>n. Len(q) \in Nat /\ Len(acc) \in Nat /\ n \in Nat /\ s \in Nat /\ Len(q) + s + n = Len(acc)
      BY <1>n, <3>3, <3>4
    <3>5. Len(queue'[a]) + s + n = Len(accepted'[a]) + 0
      <4>1. Len(q) + 1 + s + n = Len(acc) + 1 + 0
        BY <3>n
      <4> QED
        BY <4>1, <2>2, <2>3
    <3>6. ASSUME NEW i \in 1..(Len(queue'[a]) - 0)
          PROVE  queue'[a][i] = accepted'[a][n + s + i]
      <4>1. i \in 1..(Len(q) + 1)
        BY <2>2, <1>n
      <4>2. CASE i = Len(q) + 1
        <5>2. \A x \in Nat : n + s + (x + 1) = x + s + n + 1
          BY <3>n
        <5>1. n + s + i = Len(acc) + 1
          BY <5>2, <4>2, <3>n
        <5> QED
          BY <5>1, <4>2, <2>2, <2>3
      <4>3. CASE i # Len(q) + 1
        <5>1. i \in 1..Len(q)
          BY <4>1, <4>3, <1>n
        <5>2. n + s + i \in 1..Len(acc)
          BY <5>1, <3>n
        <5> QED
          BY <5>1, <5>2, <3>4, <2>2, <2>3
      <4> QED
        BY <4>2, <4>3
    <3>7. ASSUME s = 1 PROVE n + 1 <= Len(accepted'[a]) /\ item[a] = accepted'[a][n + 1]
      <4>1. n + 1 <= Len(acc) /\ item[a] = acc[n + 1]
        BY <3>7, <3>2 DEF s
      <4>2. n + 1 \in 1..Len(acc) /\ n + 1 <= Len(acc) + 1
        BY <4>1, <1>n
      <4> QED
        BY <4>1, <4>2, <2>3
    <3>8. /\ Len(queue'[a]) + Held(a)' + appended'[a] = Len(accepted'[a]) + Stops'
          /\ \A i \in 1..(Len(queue'[a]) - Stops') :
               queue'[a][i] = accepted'[a][appended'[a] + Held(a)' + i]
      BY <3>1, <3>5, <3>6, <1>s, <1>1 DEF s
    <3>9. Stops' # 1 /\ (Held(a)' = 1 => /\ appended'[a] + 1 <= Len(accepted'[a])
                                         /\ item'[a] = accepted'[a][appended'[a] + 1])
      BY <3>1, <3>7, <1>s, <1>1 DEF s
    <3> QED
      BY <3>8, <3>9 DEF QueueInv
  <2>11. OrderInv(a)'
    <3>1. ASSUME NEW j \in 1..Len(file[a]) PROVE file[a][j][1] < second
      <4>1. file[a][j][1] <= second - 1 /\ file[a][j][1] \in Nat
        BY <2>4, ArtTypes DEF ArtInv, OrderInv
      <4> QED
        BY <4>1, <1>n
    <3>2. ASSUME NEW i \in 1..Len(acc) PROVE acc[i] < second
      <4>1. acc[i] <= second - 1 /\ acc[i] \in Nat
        BY <2>4, <1>n DEF ArtInv, OrderInv
      <4> QED
        BY <4>1, <1>n
    <3>3. ASSUME NEW j \in 1..Len(file[a]) PROVE file[a][j][1] <= second
      <4>1. file[a][j][1] < second /\ file[a][j][1] \in Nat
        BY <3>1, ArtTypes
      <4> QED
        BY <4>1, <1>n
    <3>4. ASSUME NEW i \in 1..(Len(acc) + 1)
          PROVE  i \in 1..Len(acc) \/ i = Len(acc) + 1
      BY <1>n
    <3>5. ASSUME NEW i \in 1..(Len(acc) + 1) PROVE accepted'[a][i] <= second
      <4>1. CASE i = Len(acc) + 1
        BY <4>1, <2>3, <1>n
      <4>2. CASE i \in 1..Len(acc)
        <5>1. accepted'[a][i] = acc[i] /\ acc[i] < second /\ acc[i] \in Nat
          BY <4>2, <2>3, <3>2, <1>n
        <5>2. second \in Nat
          BY <1>n
        <5> QED
          BY <5>1, <5>2
      <4> QED
        BY <4>1, <4>2, <3>4
    <3>6. ASSUME NEW i \in 1..(Len(acc) + 1), NEW k \in 1..(Len(acc) + 1), i < k
          PROVE  accepted'[a][i] < accepted'[a][k]
      <4>1. i \in 1..Len(acc)
        BY <3>6, <1>n
      <4>2. CASE k = Len(acc) + 1
        BY <4>1, <4>2, <2>3, <3>2
      <4>3. CASE k \in 1..Len(acc)
        BY <4>1, <4>3, <3>6, <2>3 DEF ArtInv, OrderInv
      <4> QED
        BY <4>2, <4>3, <3>4
    <3>7. Written(a)' = Written(a) /\ Written(a) \in Nat
      BY <1>1, <1>n DEF Written
    <3>8. ASSUME NEW i \in (Written(a) + 1)..(Len(acc) + 1), NEW j \in 1..Len(file[a])
          PROVE  file[a][j][1] < accepted'[a][i]
      <4>1. i \in 1..(Len(acc) + 1)
        BY <3>7, <1>n
      <4>2. CASE i = Len(acc) + 1
        BY <4>2, <3>1, <2>3
      <4>3. CASE i \in 1..Len(acc)
        <5>1. i \in (Written(a) + 1)..Len(acc)
          BY <4>3, <3>7, <1>n
        <5>2. file[a][j][1] < acc[i]
          BY <5>1, <2>5 DEF ArtInv, OrderInv
        <5> QED
          BY <5>2, <4>3, <2>3
      <4> QED
        BY <4>1, <4>2, <4>3, <3>4
    <3> QED
      BY <3>3, <3>5, <3>6, <3>7, <3>8, <2>3, <2>4, <1>1 DEF OrderInv
  <2> QED
    BY <2>6, <2>7, <2>8, <2>9, <2>10, <2>11 DEF ArtInv
<1> QED
  BY <1>2, <1>3

-----------------------------------------------------------------------------
(* The steps of the whole. *)

\* The counts of the files, and the largest of them, are numbers.
LEMMA ScanTypes ==
  ASSUME IInv, Boot
  PROVE  onDisk' \in [Art -> Nat] /\ captures' \in Nat
<1>1. ASSUME NEW a \in Art PROVE onDisk'[a] \in Nat
  <2>1. onDisk'[a] \in ScanFrames(file[a])
    BY DEF Boot
  <2> QED
    BY <2>1, UntornScan DEF IInv, ArtInv, FileInv
<1>2. onDisk' = [a \in Art |-> onDisk'[a]]
  BY DEF Boot
<1>3. onDisk' \in [Art -> Nat]
  BY <1>1, <1>2
<1>4. Max({onDisk'[a] : a \in Art}) \in Nat
  BY <1>3, MaxOverArt
<1> QED
  BY <1>3, <1>4 DEF Boot

\* A step of a thread is one of its seven.
LEMMA ThreadStep ==
  ASSUME IInv, NEW a \in Art, Writer(a) \/ Trouble(a)
  PROVE  \A b \in Art : ArtInv(b)' /\ Preserved(b)
<1> SUFFICES ASSUME NEW b \in Art PROVE ArtInv(b)' /\ Preserved(b)
  OBVIOUS
<1>1. TypeOK /\ ArtInv(a) /\ ArtInv(b)
  BY DEF IInv
<1>2. CASE b # a
  <2>1. /\ file'[b] = file[b] /\ synced'[b] = synced[b] /\ queue'[b] = queue[b]
        /\ wpc'[b] = wpc[b] /\ item'[b] = item[b] /\ headerWritten'[b] = headerWritten[b]
        /\ onDisk'[b] = onDisk[b] /\ appended'[b] = appended[b] /\ acked'[b] = acked[b]
        /\ accepted'[b] = accepted[b] /\ UNCHANGED <<epc, second, next>>
    <3>1. CASE Writer(a)
      BY <3>1, <1>2, <1>1 DEF Writer, OpenFile, TakeFrame, TakeStop, FsyncHeader, FsyncFrame,
         TypeOK, disk, engine
    <3>2. CASE Trouble(a)
      BY <3>2, <1>2, <1>1 DEF Trouble, OpenFails, WriteFails, TypeOK, disk, engine
    <3> QED
      BY <3>1, <3>2
  <2>2. synced[b] \in Nat
    BY <1>1 DEF TypeOK
  <2> QED
    BY <2>1, <2>2, <1>1, Untouched
<1>3. CASE b = a
  <2>1. ArtInv(a)' /\ Preserved(a)
    BY <1>1, OpenFileStep, OpenFailsStep, WriteFailsStep, TakeStopStep, TakeFrameStep,
       FsyncHeaderStep, FsyncFrameStep DEF Writer, Trouble
  <2> QED
    BY <2>1, <1>3
<1> QED
  BY <1>2, <1>3

\* The artifacts' invariant is preserved, and so is what is durable.
LEMMA ArtStep ==
  ASSUME IInv, [Next]_vars
  PROVE  \A a \in Art : ArtInv(a)' /\ Preserved(a)
<1>1. CASE \E a \in Art : Writer(a) \/ Trouble(a)
  BY <1>1, ThreadStep
<1>2. ASSUME NEW a \in Art,
             \/ WritersReady \/ StartRaises \/ BeginSecond \/ EnqueueRaises
             \/ StopEvent \/ JoinAll \/ JoinTimesOut
      PROVE  ArtInv(a)' /\ Preserved(a)
  <2>1. TypeOK /\ ArtInv(a)
    BY DEF IInv
  <2> QED
    BY <2>1, <1>2, QuietStep
<1>3. ASSUME NEW a \in Art, Boot PROVE ArtInv(a)' /\ Preserved(a)
  BY <1>3, BootStep DEF IInv
<1>4. ASSUME NEW a \in Art, Enqueue PROVE ArtInv(a)' /\ Preserved(a)
  <2>1. epc = "enqueue"
    BY <1>4 DEF Enqueue
  <2>2. TypeOK /\ ArtInv(a) /\ second >= 1
    BY <2>1 DEF IInv, EngineInv
  <2> QED
    BY <2>2, <1>4, EnqueueStep
<1>5. ASSUME NEW a \in Art, RequestStops PROVE ArtInv(a)' /\ Preserved(a)
  BY <1>5, RequestStopsStep DEF IInv
<1>6. ASSUME NEW a \in Art, Exit \/ Crash PROVE ArtInv(a)' /\ Preserved(a)
  <2>1. KeepSomePrefix /\ ResetProcess /\ UNCHANGED <<synced, second, acked>>
    BY <1>6 DEF Exit, Crash
  <2>2. TypeOK /\ ArtInv(a)
    BY DEF IInv
  <2> QED
    BY <2>1, <2>2, ResetStep
<1>7. ASSUME NEW a \in Art, UNCHANGED vars PROVE ArtInv(a)' /\ Preserved(a)
  <2>1. /\ file'[a] = file[a] /\ synced'[a] = synced[a] /\ queue'[a] = queue[a]
        /\ wpc'[a] = wpc[a] /\ item'[a] = item[a] /\ headerWritten'[a] = headerWritten[a]
        /\ onDisk'[a] = onDisk[a] /\ appended'[a] = appended[a] /\ acked'[a] = acked[a]
        /\ accepted'[a] = accepted[a] /\ UNCHANGED <<epc, second, next>>
    BY <1>7 DEF vars, disk, thread, engine
  <2>2. synced[a] \in Nat /\ ArtInv(a)
    BY DEF IInv, TypeOK
  <2> QED
    BY <2>1, <2>2, Untouched
<1> QED
  BY <1>1, <1>2, <1>3, <1>4, <1>5, <1>6, <1>7 DEF Next, DayOver

\* Types are preserved.
LEMMA TypeStep ==
  ASSUME IInv, [Next]_vars
  PROVE  TypeOK'
<1>t. TypeOK
  BY DEF IInv
<1>m. /\ Artifacts \in Nat /\ Artifacts >= 1 /\ MaxSecond \in Nat /\ MaxBoots \in Nat
      /\ MaxFailures \in Nat /\ next \in Nat /\ Stop \in 0..MaxSecond /\ 1 \in Art
  BY <1>t, BinWritersAssumption DEF BinWritersAssumption, TypeOK, Art, Stop
<1>f. ASSUME NEW a \in Art PROVE file'[a] \in Seq(Cell)
  BY ArtStep DEF ArtInv, FileInv, Shaped
<1>e. <<>> \in Seq(0..MaxSecond) /\ <<>> \in Seq(Seconds)
  BY EmptySeq
<1>l. ASSUME NEW a \in Art PROVE Len(file[a]) \in Nat
  BY <1>t, ArtTypes
<1>1. CASE Boot
  <2>1. boots' \in 0..MaxBoots
    <3>1. boots \in 0..MaxBoots /\ boots < MaxBoots /\ boots' = boots + 1
      BY <1>1, <1>t DEF TypeOK, Boot
    <3> QED
      BY <3>1, <1>m
  <2>2. onDisk' \in [Art -> Nat] /\ captures' \in Nat
    BY <1>1, ScanTypes
  <2>3. /\ wpc' \in [Art -> ThreadStates] /\ epc' \in EngineStates
        /\ outcome' \in {"none", "clean", "failed"}
    BY <1>1 DEF Boot, ThreadStates, EngineStates
  <2> QED
    BY <2>1, <2>2, <2>3, <1>1, <1>t DEF TypeOK, Boot, disk
<1>2. CASE WritersReady \/ StartRaises \/ StopEvent \/ EnqueueRaises \/ JoinAll \/ JoinTimesOut
  BY <1>2, <1>t DEF TypeOK, WritersReady, StartRaises, StopEvent, EnqueueRaises, JoinAll,
     JoinTimesOut, disk, thread, EngineStates
<1>3. CASE BeginSecond
  <2>1. second' \in 0..MaxSecond
    BY <1>3, <1>t, <1>m DEF TypeOK, BeginSecond
  <2>2. next' \in Art /\ epc' \in EngineStates
    BY <1>3, <1>m DEF BeginSecond, EngineStates
  <2> QED
    BY <2>1, <2>2, <1>3, <1>t DEF TypeOK, BeginSecond, disk, thread
<1>4. CASE Enqueue
  <2>1. second \in Seconds /\ second \in 0..MaxSecond /\ next \in Art
    BY <1>4, <1>t, <1>m DEF IInv, EngineInv, Enqueue, TypeOK, Seconds
  <2>2. /\ Append(queue[next], second) \in Seq(0..MaxSecond)
        /\ Append(accepted[next], second) \in Seq(Seconds)
    BY <2>1, <1>t, AppendProperties DEF TypeOK
  <2>3. queue' \in [Art -> Seq(0..MaxSecond)] /\ accepted' \in [Art -> Seq(Seconds)]
    BY <2>1, <2>2, <1>4, <1>t DEF TypeOK, Enqueue
  <2>4. next' \in Art /\ captures' \in Nat /\ epc' \in EngineStates
    <3>1. CASE next = Artifacts
      <4>1. next' = 1 /\ captures' = captures + 1 /\ epc' = "grid" /\ captures \in Nat
        BY <3>1, <1>4, <1>t DEF TypeOK, Enqueue
      <4> QED
        BY <4>1, <1>m DEF EngineStates
    <3>2. CASE next # Artifacts
      <4>1. next + 1 \in Art
        BY <3>2, <2>1, <1>m DEF Art
      <4> QED
        BY <4>1, <3>2, <1>4, <1>t DEF TypeOK, Enqueue
    <3> QED
      BY <3>1, <3>2
  <2> QED
    BY <2>3, <2>4, <1>4, <1>t DEF TypeOK, Enqueue, disk, thread
<1>5. CASE RequestStops
  <2>1. ASSUME NEW a \in Art PROVE Append(queue[a], Stop) \in Seq(0..MaxSecond)
    BY <1>t, <1>m, AppendProperties DEF TypeOK
  <2> QED
    BY <2>1, <1>5, <1>t DEF TypeOK, RequestStops, disk, thread, EngineStates
<1>6. CASE Exit \/ Crash
  <2>1. file' = [a \in Art |-> file'[a]]
    BY <1>6 DEF Exit, Crash, KeepSomePrefix
  <2>2. file' \in [Art -> Seq(Cell)]
    BY <2>1, <1>f
  <2> QED
    <3>1. /\ queue' \in [Art -> Seq(0..MaxSecond)] /\ accepted' \in [Art -> Seq(Seconds)]
      BY <1>6, <1>e DEF Exit, Crash, ResetProcess
    <3>2. /\ wpc' \in [Art -> ThreadStates] /\ epc' \in EngineStates
          /\ outcome' \in {"none", "clean", "failed"}
          /\ headerWritten' \in [Art -> BOOLEAN]
      BY <1>6 DEF Exit, Crash, ResetProcess, ThreadStates, EngineStates
    <3>3. /\ item' \in [Art -> 0..MaxSecond] /\ onDisk' \in [Art -> Nat]
          /\ appended' \in [Art -> Nat] /\ next' \in Art /\ captures' \in Nat
      BY <1>6, <1>m DEF Exit, Crash, ResetProcess
    <3>4. /\ synced' \in [Art -> Nat] /\ second' \in 0..MaxSecond /\ boots' \in 0..MaxBoots
          /\ failures' \in 0..MaxFailures /\ acked' \in [Art -> Seq(Seconds)]
      BY <1>6, <1>t DEF TypeOK, Exit, Crash
    <3> QED
      BY <2>2, <3>1, <3>2, <3>3, <3>4 DEF TypeOK
<1>7. ASSUME NEW a \in Art, OpenFile(a) \/ OpenFails(a) PROVE TypeOK'
  <2>1. failures' \in 0..MaxFailures
    <3>1. CASE OpenFile(a)
      BY <3>1, <1>t DEF TypeOK, OpenFile
    <3>2. CASE OpenFails(a)
      BY <3>2, <1>t, <1>m DEF TypeOK, OpenFails
    <3> QED
      BY <3>1, <3>2, <1>7
  <2>2. wpc' \in [Art -> ThreadStates] /\ headerWritten' \in [Art -> BOOLEAN]
    BY <1>7, <1>t DEF TypeOK, OpenFile, OpenFails, ThreadStates
  <2> QED
    BY <2>1, <2>2, <1>7, <1>t DEF TypeOK, OpenFile, OpenFails, disk, engine
<1>8. ASSUME NEW a \in Art, TakeFrame(a) PROVE TypeOK'
  <2>1. Head(queue[a]) \in 0..MaxSecond /\ Tail(queue[a]) \in Seq(0..MaxSecond)
    BY <1>8, <1>t, HeadTailProperties DEF TypeOK, TakeFrame
  <2>2. file' \in [Art -> Seq(Cell)]
    <3>1. file' = [b \in Art |-> file'[b]]
      BY <1>8, <1>t DEF TakeFrame, TypeOK
    <3> QED
      BY <3>1, <1>f
  <2> QED
    BY <2>1, <2>2, <1>8, <1>t DEF TypeOK, TakeFrame, engine, ThreadStates
<1>9. ASSUME NEW a \in Art, TakeStop(a) PROVE TypeOK'
  <2>1. Tail(queue[a]) \in Seq(0..MaxSecond)
    BY <1>9, <1>t, HeadTailProperties DEF TypeOK, TakeStop
  <2> QED
    BY <2>1, <1>9, <1>t, <1>l DEF TypeOK, TakeStop, engine, ThreadStates
<1>10. ASSUME NEW a \in Art, FsyncHeader(a) PROVE TypeOK'
  <2>1. file' \in [Art -> Seq(Cell)]
    <3>1. file' = [b \in Art |-> file'[b]]
      BY <1>10, <1>t DEF FsyncHeader, TypeOK
    <3> QED
      BY <3>1, <1>f
  <2> QED
    BY <2>1, <1>10, <1>t, <1>l DEF TypeOK, FsyncHeader, engine, ThreadStates
<1>11. ASSUME NEW a \in Art, FsyncFrame(a) PROVE TypeOK'
  <2>1. item[a] \in Seconds
    BY <1>11, <1>t, FsyncFrameStep DEF IInv
  <2>2. Append(acked[a], item[a]) \in Seq(Seconds)
    BY <2>1, <1>t, AppendProperties DEF TypeOK
  <2> QED
    <3>4. appended[a] \in Nat
      BY <1>t DEF TypeOK
    <3>1. appended[a] + 1 \in Nat
      BY <3>4
    <3>2. appended' \in [Art -> Nat] /\ synced' \in [Art -> Nat]
      BY <3>1, <1>11, <1>t, <1>l DEF TypeOK, FsyncFrame
    <3>3. wpc' \in [Art -> ThreadStates] /\ acked' \in [Art -> Seq(Seconds)]
      BY <2>2, <1>11, <1>t DEF TypeOK, FsyncFrame, ThreadStates
    <3> QED
      BY <3>2, <3>3, <1>11, <1>t DEF TypeOK, FsyncFrame, engine
<1>12. ASSUME NEW a \in Art, WriteFails(a) PROVE TypeOK'
  <2>1. file' \in [Art -> Seq(Cell)]
    <3>1. file' = [b \in Art |-> file'[b]]
      BY <1>12, <1>t DEF WriteFails, TypeOK
    <3> QED
      BY <3>1, <1>f
  <2> QED
    <3>1. failures' \in 0..MaxFailures
      BY <1>12, <1>t, <1>m DEF TypeOK, WriteFails
    <3>2. wpc' \in [Art -> ThreadStates]
      BY <1>12, <1>t DEF TypeOK, WriteFails, ThreadStates
    <3> QED
      BY <2>1, <3>1, <3>2, <1>12, <1>t DEF TypeOK, WriteFails, engine
<1>13. CASE UNCHANGED vars
  BY <1>13, <1>t DEF TypeOK, vars, disk, thread, engine
<1> QED
  BY <1>1, <1>2, <1>3, <1>4, <1>5, <1>6, <1>7, <1>8, <1>9, <1>10, <1>11, <1>12, <1>13
  DEF Next, DayOver, Writer, Trouble

\* The engine's verdict and figures survive every step: a run that ends clean joined
\* threads that all closed, and the figures count what was accepted.
LEMMA EngineStep ==
  ASSUME IInv, [Next]_vars
  PROVE  EngineInv'
<1>t. TypeOK /\ EngineInv
  BY DEF IInv
<1>m. /\ second \in Nat /\ next \in Nat /\ captures \in Nat /\ Artifacts \in Nat /\ Artifacts >= 1
  BY <1>t, BinWritersAssumption DEF BinWritersAssumption, TypeOK, Art
<1>a. ASSUME NEW a \in Art PROVE a \in Nat /\ a >= 1 /\ a <= Artifacts /\ Len(accepted[a]) \in Nat
  BY <1>t, <1>m, ArtTypes DEF Art
<1> DEFINE M == Max({onDisk[b] : b \in Art})
<1>M. M \in Nat
  BY <1>t, MaxOverArt DEF TypeOK
<1>1. CASE Boot
  <2>1. epc' = "starting" /\ outcome' = "none" /\ accepted' = accepted /\ epc = "down"
    BY <1>1 DEF Boot
  <2>2. ASSUME NEW a \in Art
        PROVE  captures' + Given(a)' = Max({onDisk'[b] : b \in Art}) + Len(accepted'[a])
    <3>1. accepted[a] = <<>>
      BY <2>1 DEF IInv, ArtInv, LifeInv
    <3>2. Len(accepted'[a]) = 0 /\ Given(a)' = 0
      BY <2>1, <3>1, EmptySeq DEF Given
    <3>4. captures' = Max({onDisk'[b] : b \in Art})
      BY <1>1 DEF Boot
    <3>5. captures' \in Nat
      BY <1>1, ScanTypes
    <3> QED
      BY <3>2, <3>4, <3>5
  <2> QED
    BY <2>1, <2>2 DEF EngineInv
<1>2. CASE BeginSecond
  <2>1. /\ epc = "grid" /\ epc' = "enqueue" /\ second' = second + 1 /\ next' = 1
        /\ UNCHANGED <<outcome, captures, onDisk, accepted>>
    BY <1>2 DEF BeginSecond, thread
  <2>2. ASSUME NEW a \in Art, outcome # "failed"
        PROVE  captures' + Given(a)' = Max({onDisk'[b] : b \in Art}) + Len(accepted'[a])
    <3>1. Given(a) = 0 /\ Given(a)' = 0
      BY <2>1, <1>a DEF Given
    <3> QED
      BY <3>1, <2>1, <2>2, <1>t DEF EngineInv
  <2>3. second' >= 1
    BY <2>1, <1>m
  <2> QED
    BY <2>1, <2>2, <2>3, <1>t DEF EngineInv
<1>3. CASE Enqueue
  <2>1. /\ epc = "enqueue" /\ epc' \in {"grid", "enqueue"} /\ second' = second /\ next \in Art
        /\ UNCHANGED <<outcome, onDisk>>
    BY <1>3, <1>t DEF Enqueue, thread, TypeOK
  <2>2. ASSUME NEW a \in Art, outcome # "failed"
        PROVE  captures' + Given(a)' = Max({onDisk'[b] : b \in Art}) + Len(accepted'[a])
    <3>1. captures + Given(a) = M + Len(accepted[a])
      BY <2>1, <2>2, <1>t DEF EngineInv
    <3>2. accepted'[a] = IF a = next THEN Append(accepted[a], second) ELSE accepted[a]
      BY <1>3, <1>t DEF Enqueue, TypeOK
    <3>3. Len(accepted'[a]) = IF a = next THEN Len(accepted[a]) + 1 ELSE Len(accepted[a])
      <4>1. second \in Seconds /\ accepted[a] \in Seq(Seconds)
        BY <2>1, <1>t, BinWritersAssumption DEF EngineInv, TypeOK, Seconds, BinWritersAssumption
      <4> QED
        BY <4>1, <3>2, AppendProperties
    <3>4. CASE next = Artifacts
      <4>1. captures' = captures + 1 /\ Given(a)' = 0
        BY <3>4, <1>3 DEF Enqueue, Given
      <4>2. Given(a) = IF a = next THEN 0 ELSE 1
        BY <3>4, <2>1, <1>a, <1>m DEF Given
      <4>3. M + Len(accepted'[a]) = captures + 1
        <5>1. CASE a = next
          BY <5>1, <4>2, <3>1, <3>3, <1>a, <1>M, <1>m
        <5>2. CASE a # next
          BY <5>2, <4>2, <3>1, <3>3, <1>a, <1>M, <1>m
        <5> QED
          BY <5>1, <5>2
      <4> QED
        BY <4>1, <4>3, <2>1, <1>m
    <3>5. CASE next # Artifacts
      <4>1. captures' = captures /\ epc' = "enqueue" /\ next' = next + 1
        BY <3>5, <1>3 DEF Enqueue
      <4>2. CASE a = next
        <5>1. Given(a) = 0 /\ Given(a)' = 1 /\ Len(accepted'[a]) = Len(accepted[a]) + 1
          BY <4>1, <4>2, <3>3, <1>m DEF Given
        <5>2. captures + 1 = M + (Len(accepted[a]) + 1)
          BY <5>1, <3>1, <1>a, <1>m, <1>M
        <5> QED
          BY <5>1, <5>2, <4>1, <2>1
      <4>3. CASE a # next
        <5>1. Given(a)' = Given(a) /\ Len(accepted'[a]) = Len(accepted[a])
          BY <4>1, <4>3, <3>3, <2>1, <1>a, <1>m DEF Given
        <5> QED
          BY <5>1, <3>1, <4>1, <2>1
      <4> QED
        BY <4>2, <4>3
    <3> QED
      BY <3>4, <3>5
  <2> QED
    BY <2>1, <2>2, <1>t DEF EngineInv
<1>4. CASE WritersReady \/ StopEvent \/ RequestStops
  <2>1. /\ epc \in {"starting", "grid", "stopping"} /\ epc' \in {"grid", "stopping", "joining"}
        /\ UNCHANGED <<outcome, captures, onDisk, accepted>>
    BY <1>4 DEF WritersReady, StopEvent, RequestStops, thread
  <2>2. ASSUME NEW a \in Art PROVE Given(a)' = Given(a)
    BY <2>1 DEF Given
  <2> QED
    BY <2>1, <2>2, <1>t DEF EngineInv
<1>5. CASE StartRaises \/ EnqueueRaises \/ JoinTimesOut
  <2>1. outcome' = "failed" /\ epc' \in {"stopping", "exited"}
    BY <1>5 DEF StartRaises, EnqueueRaises, JoinTimesOut
  <2> QED
    BY <2>1 DEF EngineInv
<1>6. CASE JoinAll
  <2>1. /\ epc = "joining" /\ epc' = "exited" /\ \A a \in Art : wpc[a] \in Dead
        /\ UNCHANGED <<captures, onDisk, accepted, wpc>>
        /\ outcome' \in {"clean", "failed"}
        /\ outcome' = "clean" => outcome # "failed" /\ \A a \in Art : wpc[a] # "failed"
    BY <1>6 DEF JoinAll, thread
  <2>2. ASSUME outcome' = "clean", NEW a \in Art PROVE wpc'[a] = "closed"
    <3>1. wpc[a] # "down" /\ wpc[a] # "failed" /\ wpc[a] \in Dead
      BY <2>1, <2>2 DEF IInv, ArtInv, LifeInv
    <3> QED
      BY <3>1, <2>1 DEF Dead
  <2>3. ASSUME NEW a \in Art PROVE Given(a)' = Given(a)
    BY <2>1 DEF Given
  <2> QED
    BY <2>1, <2>2, <2>3, <1>t DEF EngineInv
<1>7. CASE Exit \/ Crash
  <2>1. epc' = "down" /\ outcome' = "none"
    BY <1>7 DEF Exit, Crash, ResetProcess
  <2> QED
    BY <2>1 DEF EngineInv
<1>8. ASSUME NEW a \in Art, Writer(a) \/ Trouble(a) PROVE EngineInv'
  <2>1. /\ UNCHANGED <<epc, outcome, second, next, captures, onDisk, accepted>>
        /\ wpc[a] \in Alive
    BY <1>8 DEF Writer, Trouble, OpenFile, TakeFrame, TakeStop, FsyncHeader, FsyncFrame,
       OpenFails, WriteFails, engine, Alive
  <2>2. ~(epc = "exited" /\ outcome = "clean")
    BY <2>1, <1>t DEF EngineInv, Alive
  <2>3. ASSUME NEW b \in Art PROVE Given(b)' = Given(b)
    BY <2>1 DEF Given
  <2> QED
    BY <2>1, <2>2, <2>3, <1>t DEF EngineInv
<1>9. CASE UNCHANGED vars
  <2>1. UNCHANGED <<epc, outcome, second, next, captures, onDisk, accepted, wpc>>
    BY <1>9 DEF vars, thread, engine
  <2>2. ASSUME NEW b \in Art PROVE Given(b)' = Given(b)
    BY <2>1 DEF Given
  <2> QED
    BY <2>1, <2>2, <1>t DEF EngineInv
<1> QED
  BY <1>1, <1>2, <1>3, <1>4, <1>5, <1>6, <1>7, <1>8, <1>9 DEF Next, DayOver

\* The invariant holds initially.
LEMMA InitStep ==
  ASSUME Init
  PROVE  IInv
<1>m. /\ Artifacts \in Nat /\ Artifacts >= 1 /\ MaxSecond \in Nat /\ MaxBoots \in Nat
      /\ MaxFailures \in Nat /\ Stop \in 0..MaxSecond /\ 1 \in Art
  BY BinWritersAssumption DEF BinWritersAssumption, Art, Stop
<1>e. /\ <<>> \in Seq(Cell) /\ <<>> \in Seq(0..MaxSecond) /\ <<>> \in Seq(Seconds)
      /\ Len(<<>>) = 0
  BY EmptySeq
<1>1. TypeOK
  BY <1>m, <1>e DEF Init, TypeOK, ThreadStates, EngineStates
<1>2. EngineInv
  BY DEF Init, EngineInv
<1>3. ASSUME NEW a \in Art PROVE ArtInv(a)
  <2>1. /\ file[a] = <<>> /\ synced[a] = 0 /\ queue[a] = <<>> /\ wpc[a] = "down"
        /\ appended[a] = 0 /\ acked[a] = <<>> /\ accepted[a] = <<>> /\ epc = "down"
    BY DEF Init
  <2>2. FileInv(a)
    <3>1. Shaped(file[a])
      BY <2>1, <1>e DEF Shaped
    <3> QED
      BY <2>1, <3>1, <1>e DEF FileInv
  <2>3. HeaderInv(a) /\ LifeInv(a) /\ QueueInv(a) /\ CountInv(a)
    BY <2>1 DEF HeaderInv, LifeInv, QueueInv, CountInv, Alive
  <2>4. DrainInv(a)
    BY <2>1, <1>e DEF DrainInv
  <2>5. OrderInv(a)
    BY <2>1, <1>e DEF OrderInv, Alive
  <2> QED
    BY <2>2, <2>3, <2>4, <2>5 DEF ArtInv
<1> QED
  BY <1>1, <1>2, <1>3 DEF IInv

-----------------------------------------------------------------------------
(* The theorems. *)

\* The invariant holds in every reachable state: the writers and the engine keep the
\* types, the shape of the files, the order of the queues and the counts.
THEOREM Invariance == Spec => []IInv
<1>1. Init => IInv
  BY InitStep
<1>2. IInv /\ [Next]_vars => IInv'
  <2> SUFFICES ASSUME IInv, [Next]_vars PROVE IInv'
    OBVIOUS
  <2>1. TypeOK' /\ EngineInv'
    BY TypeStep, EngineStep
  <2>2. \A a \in Art : ArtInv(a)'
    BY ArtStep
  <2> QED
    BY <2>1, <2>2 DEF IInv
<1> QED
  BY <1>1, <1>2, PTL DEF Spec

-----------------------------------------------------------------------------
(* How often a file is torn. *)

\* Whether a file ends in a record that was cut short.
CutShort(f) == IF f # <<>> /\ f[Len(f)][2] # 2 THEN 1 ELSE 0

\* Every process tears a file at most once, the first none; one that has not yet appended
\* still may if the file was left cut short.
TearInv(a) ==
  /\ epc # "down" => boots # 0
  /\ boots = 0 => file[a] = <<>>
  /\ boots # 0 => Cardinality(Tears(file[a])) + 1 <= boots
  /\ wpc[a] \in {"opening", "idle"} =>
       Cardinality(Tears(file[a])) + CutShort(file[a]) + 1 <= boots

\* Tears are counted by a number; a file that only lost cells has no more of them.
LEMMA TearsOfPrefix ==
  ASSUME NEW f, Shaped(f), NEW g, Shaped(g), Len(g) <= Len(f),
         \A i \in 1..Len(g) : g[i] = f[i]
  PROVE  /\ IsFiniteSet(Tears(f)) /\ Cardinality(Tears(f)) \in Nat
         /\ Cardinality(Tears(g)) \in Nat
         /\ Cardinality(Tears(g)) <= Cardinality(Tears(f))
<1>1. Len(f) \in Nat /\ Len(g) \in Nat
  BY LenProperties DEF Shaped
<1>2. IsFiniteSet(Tears(f))
  <2>1. IsFiniteSet(1..(Len(f) - 1))
    BY <1>1, FS_Interval
  <2> QED
    BY <2>1, FS_Subset DEF Tears
<1>3. Tears(g) \subseteq Tears(f)
  <2>1. ASSUME NEW i \in Tears(g) PROVE i \in Tears(f)
    <3>1. i \in 1..(Len(g) - 1) /\ g[i + 1][2] = 1 /\ g[i][2] # RecLen
      BY DEF Tears
    <3>2. i \in 1..(Len(f) - 1) /\ i \in 1..Len(g) /\ i + 1 \in 1..Len(g)
      BY <3>1, <1>1
    <3> QED
      BY <3>1, <3>2 DEF Tears
  <2> QED
    BY <2>1
<1> QED
  BY <1>2, <1>3, FS_Subset, FS_CardinalityType

\* A record appended adds a tear only if the file was cut short, and ends it whole.
LEMMA TearsOfAppend ==
  ASSUME NEW f, Shaped(f), NEW g, Shaped(g), Len(g) = Len(f) + 2,
         \A i \in 1..Len(f) : g[i] = f[i], NEW r, EndsWith(g, r)
  PROVE  /\ Cardinality(Tears(f)) \in Nat /\ Cardinality(Tears(g)) \in Nat
         /\ Cardinality(Tears(g)) <= Cardinality(Tears(f)) + CutShort(f)
<1> DEFINE n == Len(f)
<1>1. n \in Nat /\ Len(g) = n + 2
  BY LenProperties DEF Shaped
<1>2. IsFiniteSet(Tears(f)) /\ Cardinality(Tears(f)) \in Nat
  BY <1>1, TearsOfPrefix
<1>3. g[n + 2][2] = 2
  <2>1. 2 \in 1..2 /\ Len(g) - 2 + 2 = n + 2
    BY <1>1
  <2>2. g[Len(g) - 2 + 2] = <<r, 2>>
    BY <2>1 DEF EndsWith
  <2> QED
    BY <2>1, <2>2
<1>4. ASSUME NEW i \in Tears(g) PROVE i \in Tears(f) \/ (i = n /\ CutShort(f) = 1)
  <2>1. i \in 1..(n + 1) /\ g[i + 1][2] = 1 /\ g[i][2] # RecLen
    <3>1. i \in 1..(Len(g) - 1) /\ (n + 2) - 1 = n + 1
      BY <1>1 DEF Tears
    <3> QED
      BY <3>1, <1>1 DEF Tears
  <2>2. CASE i < n
    <3>1. i \in 1..(n - 1) /\ i \in 1..n /\ i + 1 \in 1..n
      BY <2>1, <2>2, <1>1
    <3> QED
      BY <2>1, <3>1 DEF Tears
  <2>3. CASE i = n
    <3>1. n \in 1..n
      BY <2>1, <2>3, <1>1
    <3>2. f # <<>> /\ f[n][2] # 2
      BY <2>1, <2>3, <3>1, <1>1, EmptySeq DEF RecLen
    <3> QED
      BY <3>2, <2>3 DEF CutShort
  <2>4. CASE i = n + 1
    <3>1. i + 1 = n + 2
      BY <2>4, <1>1
    <3> QED
      BY <3>1, <2>1, <1>3
  <2> QED
    BY <2>1, <2>2, <2>3, <2>4, <1>1
<1> HIDE DEF n
<1>5. CASE CutShort(f) = 0
  <2>1. Tears(g) \subseteq Tears(f)
    BY <1>4, <1>5
  <2>2. Cardinality(Tears(g)) \in Nat /\ Cardinality(Tears(g)) <= Cardinality(Tears(f))
    BY <2>1, <1>2, FS_Subset, FS_CardinalityType
  <2> QED
    BY <2>2, <1>2, <1>5
<1>6. CASE CutShort(f) = 1
  <2>1. Tears(g) \subseteq Tears(f) \cup {n}
    BY <1>4
  <2>2. /\ IsFiniteSet(Tears(f) \cup {n})
        /\ Cardinality(Tears(f) \cup {n}) <= Cardinality(Tears(f)) + 1
        /\ Cardinality(Tears(f) \cup {n}) \in Nat
    <3>1. /\ IsFiniteSet(Tears(f) \cup {n})
          /\ Cardinality(Tears(f) \cup {n})
               = IF n \in Tears(f) THEN Cardinality(Tears(f)) ELSE Cardinality(Tears(f)) + 1
      BY <1>2, FS_AddElement
    <3> QED
      BY <3>1, <1>2
  <2>3. /\ Cardinality(Tears(g)) \in Nat
        /\ Cardinality(Tears(g)) <= Cardinality(Tears(f) \cup {n})
    BY <2>1, <2>2, FS_Subset, FS_CardinalityType
  <2> QED
    BY <2>2, <2>3, <1>2, <1>6
<1> QED
  BY <1>2, <1>5, <1>6 DEF CutShort

\* What a step does to a file: nothing, it cuts some of its end off and leaves the thread
\* dead, or the thread appends a record to it.
LEMMA FileSteps ==
  ASSUME IInv, [Next]_vars, NEW a \in Art
  PROVE  \/ file'[a] = file[a]
         \/ /\ wpc'[a] \in Dead /\ epc # "down" /\ boots' = boots
            /\ Len(file'[a]) <= Len(file[a])
            /\ \A i \in 1..Len(file'[a]) : file'[a][i] = file[a][i]
         \/ /\ wpc[a] \in {"idle", "header"} /\ wpc'[a] \in {"header", "frame"}
            /\ wpc[a] = "header" => EndsWith(file[a], Header)
            /\ boots' = boots
            /\ Len(file'[a]) = Len(file[a]) + 2
            /\ \A i \in 1..Len(file[a]) : file'[a][i] = file[a][i]
            /\ \E r : EndsWith(file'[a], r)
<1>t. TypeOK /\ ArtInv(a) /\ Shaped(file[a]) /\ Len(file[a]) \in Nat /\ synced[a] \in Nat
  BY ArtTypes DEF IInv, ArtInv, FileInv
<1>n. ArtInv(a)'
  BY ArtStep
<1>1. CASE Exit \/ Crash
  <2>1. wpc'[a] = "down" /\ epc # "down" /\ boots' = boots
    BY <1>1 DEF Exit, Crash, ResetProcess
  <2>2. PICK m \in synced[a]..Len(file[a]) : file'[a] = SubSeq(file[a], 1, m)
    BY <1>1 DEF Exit, Crash, KeepSomePrefix
  <2>3. m \in 0..Len(file[a])
    BY <2>2, <1>t
  <2>4. Len(file'[a]) = m /\ \A i \in 1..m : file'[a][i] = file[a][i]
    BY <2>2, <2>3, <1>t, ShapedPrefix
  <2> QED
    BY <2>1, <2>3, <2>4, <1>t DEF Dead
<1>2. CASE WriteFails(a)
  <2>1. wpc'[a] = "failed" /\ wpc[a] \in {"header", "frame"} /\ boots' = boots
    BY <1>2, <1>t DEF WriteFails, TypeOK
  <2>2. epc # "down"
    BY <2>1, <1>t DEF ArtInv, LifeInv
  <2>3. PICK n \in 0..2 : file'[a] = SubSeq(file[a], 1, Len(file[a]) - n)
    BY <1>2, <1>t DEF WriteFails, TypeOK, RecLen
  <2>4. Len(file[a]) >= 2
    BY <2>1, <1>t DEF ArtInv, HeaderInv, EndsWith
  <2>5. Len(file[a]) - n \in 0..Len(file[a])
    BY <2>3, <2>4, <1>t
  <2> DEFINE m == Len(file[a]) - n
  <2>6. Len(file'[a]) = m /\ \A i \in 1..m : file'[a][i] = file[a][i]
    BY <2>3, <2>5, <1>t, ShapedPrefix
  <2>7. Len(file'[a]) <= Len(file[a])
    BY <2>5, <2>6, <1>t
  <2> QED
    BY <2>1, <2>2, <2>6, <2>7 DEF Dead
<1>3. CASE TakeFrame(a) \/ FsyncHeader(a)
  <2>1. /\ wpc[a] \in {"idle", "header"} /\ wpc'[a] \in {"header", "frame"}
        /\ boots' = boots
        /\ \E r \in 0..MaxSecond : file'[a] = file[a] \o Record(r)
    <3>1. CASE TakeFrame(a)
      <4>1. Head(queue[a]) \in 0..MaxSecond /\ Header \in 0..MaxSecond
        <5>1. Head(queue[a]) \in 0..MaxSecond
          BY <3>1, <1>t, HeadTailProperties DEF TypeOK, TakeFrame
        <5> QED
          BY <5>1, BinWritersAssumption DEF Header, BinWritersAssumption
      <4> QED
        BY <3>1, <4>1, <1>t DEF TakeFrame, TypeOK
    <3>2. CASE FsyncHeader(a)
      <4>1. item[a] \in 0..MaxSecond
        BY <1>t DEF TypeOK
      <4> QED
        BY <3>2, <4>1, <1>t DEF FsyncHeader, TypeOK
    <3> QED
      BY <3>1, <3>2, <1>3
  <2>2. PICK r \in 0..MaxSecond : file'[a] = file[a] \o Record(r)
    BY <2>1
  <2>3. file[a] \in Seq(Cell) /\ Record(r) \in Seq(Cell) /\ Len(Record(r)) = 2
    BY <1>t, RecordCells DEF Shaped
  <2>4. /\ Len(file'[a]) = Len(file[a]) + 2
        /\ \A i \in 1..Len(file[a]) : file'[a][i] = file[a][i]
    <3>1. /\ Len(file[a] \o Record(r)) = Len(file[a]) + Len(Record(r))
          /\ \A i \in 1..Len(file[a]) : (file[a] \o Record(r))[i] = file[a][i]
      <4>1. ASSUME NEW s \in Seq(Cell), NEW t \in Seq(Cell)
            PROVE  /\ Len(s \o t) = Len(s) + Len(t)
                   /\ \A i \in 1..Len(s) : (s \o t)[i] = s[i]
        BY ConcatCells
      <4> QED
        BY <2>3, <4>1, Zenon
    <3> QED
      BY <2>2, <2>3, <3>1
  <2>5. \E q : EndsWith(file'[a], q)
    <3>1. CASE wpc'[a] = "header"
      <4>1. EndsWith(file'[a], Header)
        BY <3>1, <1>n DEF ArtInv, HeaderInv
      <4> QED
        BY <4>1
    <3>2. CASE wpc'[a] = "frame"
      <4>1. HeaderInv(a)'
        BY <1>n DEF ArtInv
      <4>2. EndsWith(file'[a], item'[a])
        BY <3>2, <4>1 DEF HeaderInv
      <4> QED
        BY <4>2
    <3> QED
      BY <2>1, <3>1, <3>2
  <2>6. wpc[a] = "header" => EndsWith(file[a], Header)
    BY <1>t DEF ArtInv, HeaderInv
  <2> QED
    BY <2>1, <2>4, <2>5, <2>6
<1>4. CASE OpenFile(a) \/ TakeStop(a) \/ FsyncFrame(a) \/ OpenFails(a)
  BY <1>4, <1>t DEF OpenFile, TakeStop, FsyncFrame, OpenFails, disk
<1>5. ASSUME NEW b \in Art, b # a, Writer(b) \/ Trouble(b) PROVE file'[a] = file[a]
  BY <1>5, <1>t DEF Writer, Trouble, OpenFile, TakeFrame, TakeStop, FsyncHeader, FsyncFrame,
     OpenFails, WriteFails, TypeOK, disk
<1>6. CASE \/ Boot \/ WritersReady \/ StartRaises \/ BeginSecond \/ Enqueue \/ EnqueueRaises
           \/ StopEvent \/ RequestStops \/ JoinAll \/ JoinTimesOut \/ UNCHANGED vars
  BY <1>6 DEF Boot, WritersReady, StartRaises, BeginSecond, Enqueue, EnqueueRaises, StopEvent,
     RequestStops, JoinAll, JoinTimesOut, vars, disk
<1> QED
  BY <1>1, <1>2, <1>3, <1>4, <1>5, <1>6 DEF Next, DayOver, Writer, Trouble

\* A step that leaves a file alone starts a process, keeps a thread from appending, or
\* leaves behind a record that is whole.
LEMMA StageSteps ==
  ASSUME IInv, [Next]_vars, NEW a \in Art, file'[a] = file[a]
  PROVE  \/ Boot /\ epc = "down" /\ epc' # "down" /\ boots' = boots + 1
         \/ /\ boots' = boots /\ (epc' # "down" => epc # "down")
            /\ \/ wpc'[a] \notin {"opening", "idle"}
               \/ wpc[a] \in {"opening", "idle"}
               \/ wpc[a] = "frame" /\ EndsWith(file[a], item[a])
<1>t. TypeOK /\ ArtInv(a)
  BY DEF IInv
<1>1. CASE Boot
  BY <1>1 DEF Boot
<1>2. CASE \/ WritersReady \/ StartRaises \/ BeginSecond \/ Enqueue \/ EnqueueRaises
           \/ StopEvent \/ RequestStops \/ JoinAll \/ JoinTimesOut \/ UNCHANGED vars
  <2>1. wpc'[a] = wpc[a] /\ boots' = boots /\ (epc' # "down" => epc # "down")
    BY <1>2 DEF WritersReady, StartRaises, BeginSecond, Enqueue, EnqueueRaises, StopEvent,
       RequestStops, JoinAll, JoinTimesOut, vars, thread, engine
  <2> QED
    BY <2>1
<1>3. CASE Exit \/ Crash
  <2>1. epc' = "down" /\ wpc'[a] = "down" /\ boots' = boots
    BY <1>3 DEF Exit, Crash, ResetProcess
  <2> QED
    BY <2>1
<1>4. ASSUME NEW b \in Art, Writer(b) \/ Trouble(b)
      PROVE  \/ wpc'[a] = wpc[a]
             \/ wpc'[a] \notin {"opening", "idle"}
             \/ wpc[a] \in {"opening", "idle"}
             \/ wpc[a] = "frame" /\ EndsWith(file[a], item[a])
  <2>1. CASE b # a
    <3>1. wpc'[a] = wpc[a]
      BY <2>1, <1>4, <1>t DEF Writer, Trouble, OpenFile, TakeFrame, TakeStop, FsyncHeader,
         FsyncFrame, OpenFails, WriteFails, TypeOK
    <3> QED
      BY <3>1
  <2>2. CASE b = a
    <3>1. wpc[a] = "frame" => EndsWith(file[a], item[a])
      BY <1>t DEF ArtInv, HeaderInv
    <3> QED
      BY <3>1, <2>2, <1>4, <1>t DEF Writer, Trouble, OpenFile, TakeFrame, TakeStop, FsyncHeader,
         FsyncFrame, OpenFails, WriteFails, TypeOK
  <2> QED
    BY <2>1, <2>2
<1>5. ASSUME NEW b \in Art, Writer(b) \/ Trouble(b) PROVE boots' = boots /\ epc' = epc
  BY <1>5 DEF Writer, Trouble, OpenFile, TakeFrame, TakeStop, FsyncHeader, FsyncFrame,
     OpenFails, WriteFails, engine
<1> QED
  BY <1>1, <1>2, <1>3, <1>4, <1>5 DEF Next, DayOver

\* No step tears a file more often than processes were started before it.
LEMMA TearStep ==
  ASSUME IInv, [Next]_vars, NEW a \in Art, TearInv(a)
  PROVE  TearInv(a)'
<1> DEFINE c == Cardinality(Tears(file[a]))
           d == Cardinality(Tears(file'[a]))
<1>t. /\ ArtInv(a) /\ Shaped(file[a]) /\ Len(file[a]) \in Nat /\ boots \in Nat
      /\ TypeOK
  <2>1. TypeOK /\ ArtInv(a)
    BY DEF IInv
  <2>2. Shaped(file[a]) /\ Len(file[a]) \in Nat
    BY <2>1, ArtTypes DEF ArtInv, FileInv
  <2>3. boots \in Nat
    BY <2>1, BinWritersAssumption DEF TypeOK, BinWritersAssumption
  <2> QED
    BY <2>1, <2>2, <2>3
<1>n. Shaped(file'[a]) /\ Len(file'[a]) \in Nat
  <2>1. Shaped(file'[a])
    BY ArtStep DEF ArtInv, FileInv
  <2>2. file'[a] \in Seq(Cell)
    BY <2>1 DEF Shaped
  <2> QED
    BY <2>1, <2>2, LenProperties
<1>c. c \in Nat /\ d \in Nat
  BY <1>t, <1>n, TearsOfPrefix
<1>s. CutShort(file[a]) \in {0, 1} /\ CutShort(file'[a]) \in {0, 1}
  BY DEF CutShort
<1>e. ASSUME NEW f, NEW r, EndsWith(f, r), Len(f) \in Nat PROVE CutShort(f) = 0
  <2>1. 2 \in 1..2 /\ Len(f) - 2 + 2 = Len(f)
    BY <1>e
  <2>2. f[Len(f) - 2 + 2] = <<r, 2>>
    BY <2>1, <1>e DEF EndsWith
  <2> QED
    BY <2>1, <2>2 DEF CutShort
<1>l. epc = "down" <=> wpc[a] = "down"
  BY <1>t DEF ArtInv, LifeInv
<1>l2. epc' = "down" <=> wpc'[a] = "down"
  BY ArtStep DEF ArtInv, LifeInv
<1>1. CASE file'[a] = file[a]
  <2>1. d = c /\ CutShort(file'[a]) = CutShort(file[a])
    BY <1>1
  <2>2. CASE epc = "down" /\ epc' # "down" /\ boots' = boots + 1
    <3>1. boots' # 0
      BY <2>2, <1>t
    <3>2. c + CutShort(file[a]) <= boots
      <4>1. CASE boots = 0
        <5>1. file[a] = <<>> /\ Len(file[a]) = 0
          BY <4>1, EmptySeq DEF TearInv
        <5>2. Tears(file[a]) = {} /\ CutShort(file[a]) = 0
          BY <5>1 DEF Tears, CutShort
        <5>3. c = 0
          BY <5>2, FS_EmptySet
        <5> QED
          BY <5>2, <5>3, <1>t
      <4>2. CASE boots # 0
        <5>1. c + 1 <= boots
          BY <4>2 DEF TearInv
        <5> QED
          BY <5>1, <1>t, <1>c, <1>s
      <4> QED
        BY <4>1, <4>2
    <3>3. c + CutShort(file[a]) + 1 <= boots' /\ c + 1 <= boots'
      <4> HIDE DEF c
      <4> QED
        BY <3>2, <2>2, <1>t, <1>c, <1>s
    <3> QED
      BY <3>1, <3>3, <2>1 DEF TearInv
  <2>3. CASE /\ boots' = boots /\ (epc' # "down" => epc # "down")
             /\ \/ wpc'[a] \notin {"opening", "idle"}
                \/ wpc[a] \in {"opening", "idle"}
                \/ wpc[a] = "frame" /\ EndsWith(file[a], item[a])
    <3>1. ASSUME wpc[a] = "frame", EndsWith(file[a], item[a])
          PROVE  c + CutShort(file[a]) + 1 <= boots
      <4>1. CutShort(file[a]) = 0 /\ boots # 0
        BY <3>1, <1>e, <1>t, <1>l DEF TearInv
      <4>2. c + 1 <= boots
        BY <4>1 DEF TearInv
      <4> HIDE DEF c
      <4> QED
        BY <4>1, <4>2, <1>t, <1>c
    <3> QED
      BY <2>1, <2>3, <3>1, <1>1 DEF TearInv
  <2> QED
    BY <2>2, <2>3, <1>1, StageSteps
<1>2. CASE /\ wpc'[a] \in Dead /\ epc # "down" /\ boots' = boots
           /\ Len(file'[a]) <= Len(file[a])
           /\ \A i \in 1..Len(file'[a]) : file'[a][i] = file[a][i]
  <2>1. d <= c
    BY <1>2, <1>t, <1>n, TearsOfPrefix
  <2>2. boots # 0 /\ c + 1 <= boots
    BY <1>2 DEF TearInv
  <2>3. d + 1 <= boots
    <3> HIDE DEF c, d
    <3> QED
      BY <2>1, <2>2, <1>c, <1>t
  <2> QED
    BY <2>2, <2>3, <1>2 DEF TearInv, Dead
<1>3. CASE /\ wpc[a] \in {"idle", "header"} /\ wpc'[a] \in {"header", "frame"}
           /\ wpc[a] = "header" => EndsWith(file[a], Header)
           /\ boots' = boots
           /\ Len(file'[a]) = Len(file[a]) + 2
           /\ \A i \in 1..Len(file[a]) : file'[a][i] = file[a][i]
           /\ \E r : EndsWith(file'[a], r)
  <2>1. d <= c + CutShort(file[a])
    BY <1>3, <1>t, <1>n, TearsOfAppend
  <2>2. boots # 0
    BY <1>3, <1>l DEF TearInv
  <2>3. c + CutShort(file[a]) + 1 <= boots
    <3>1. CASE wpc[a] = "idle"
      BY <3>1 DEF TearInv
    <3>2. CASE wpc[a] = "header"
      <4>1. CutShort(file[a]) = 0
        BY <3>2, <1>3, <1>e, <1>t
      <4>2. c + 1 <= boots
        BY <2>2 DEF TearInv
      <4> HIDE DEF c
      <4> QED
        BY <4>1, <4>2, <1>c, <1>t
    <3> QED
      BY <3>1, <3>2, <1>3
  <2>4. d + 1 <= boots
    <3> HIDE DEF c, d
    <3> QED
      BY <2>1, <2>3, <1>c, <1>s, <1>t
  <2> QED
    BY <2>2, <2>4, <1>3 DEF TearInv
<1> QED
  BY <1>1, <1>2, <1>3, FileSteps

\* Types, headers at the head of a file only, and no more tears than restarts, whatever was
\* cut short or restarted.
THEOREM FilesAreWellFormed == Spec => []WellFormed
<1>1. Init => \A a \in Art : TearInv(a)
  BY DEF Init, TearInv
<1>2. IInv /\ (\A a \in Art : TearInv(a)) /\ [Next]_vars => (\A a \in Art : TearInv(a))'
  BY TearStep
<1>3. IInv /\ (\A a \in Art : TearInv(a)) => WellFormed
  <2> SUFFICES ASSUME IInv, \A a \in Art : TearInv(a) PROVE WellFormed
    OBVIOUS
  <2>1. ASSUME NEW a \in Art PROVE Shaped(file[a])
    BY DEF IInv, ArtInv, FileInv
  <2>2. HeaderOnceAtHead
    <3> SUFFICES ASSUME NEW a \in Art, NEW i \in 1..Len(file[a])
                 PROVE  /\ i = 1 => file[a][i] = <<Header, 1>>
                        /\ file[a][i][1] = Header => i <= 2
      BY DEF HeaderOnceAtHead, RecLen
    <3>1. file[a] # <<>>
      BY <2>1, EmptySeq
    <3>2. file[a][1] = <<Header, 1>>
      BY <2>1, <3>1 DEF Shaped
    <3> QED
      BY <2>1, <3>2, HeaderCells
  <2>3. TearsNeedRestarts
    <3> SUFFICES ASSUME NEW a \in Art, Torn(file[a])
                 PROVE  Cardinality(Tears(file[a])) < boots
      BY DEF TearsNeedRestarts
    <3>1. Cardinality(Tears(file[a])) \in Nat /\ Len(file[a]) \in Nat
      BY <2>1, TearsOfPrefix, LenProperties DEF Shaped
    <3>2. file[a] # <<>>
      BY <3>1, EmptySeq DEF Torn, Tears
    <3>3. boots # 0 /\ boots \in Nat
      BY <3>2, BinWritersAssumption DEF TearInv, IInv, TypeOK, BinWritersAssumption
    <3>4. Cardinality(Tears(file[a])) + 1 <= boots
      BY <3>3 DEF TearInv
    <3> QED
      BY <3>1, <3>3, <3>4
  <2> QED
    BY <2>2, <2>3 DEF WellFormed, IInv
<1> QED
  BY <1>1, <1>2, <1>3, Invariance, PTL DEF Spec

\* A reader recovers every second that fsync acknowledged from a file in which no append
\* followed a torn one.
THEOREM AcknowledgedIsRecovered == Spec => []AckedAreRecovered
<1>1. IInv => AckedAreRecovered
  <2> SUFFICES ASSUME IInv, NEW a \in Art, ~Torn(file[a]), NEW s \in ToSet(acked[a])
               PROVE  s \in ToSet(Recovered(file[a]))
    BY DEF AckedAreRecovered
  <2>1. Shaped(file[a]) /\ synced[a] \in 0..Len(file[a]) /\ acked[a] \in Seq(Seconds)
    BY DEF IInv, ArtInv, FileInv, TypeOK
  <2>2. PICK i \in 1..Len(acked[a]) : s = acked[a][i]
    BY <2>1, LenProperties DEF ToSet
  <2>3. s \in Seconds /\ Whole(file[a], synced[a], s)
    BY <2>1, <2>2, ElementOfSeq DEF IInv, ArtInv, FileInv
  <2> QED
    BY <2>1, <2>3, WholeIsRecovered
<1> QED
  BY <1>1, Invariance, PTL

\* Reversed, a sequence that ends another begins it.
LEMMA SuffixIs ==
  ASSUME NEW S, NEW s \in Seq(S), NEW t \in Seq(S), Len(s) <= Len(t),
         \A i \in 1..Len(s) : t[Len(t) - Len(s) + i] = s[i]
  PROVE  IsSuffix(s, t)
<1>1. Len(s) \in Nat /\ Len(t) \in Nat
  BY LenProperties
<1> DEFINE rs == Reverse(s)
           rt == Reverse(t)
           n == Len(s)
<1>2. rs \in [1..Len(s) -> S] /\ rt \in [1..Len(t) -> S]
  <2>1. ASSUME NEW i \in 1..Len(s) PROVE s[Len(s) - i + 1] \in S
    <3>1. Len(s) - i + 1 \in 1..Len(s)
      BY <1>1
    <3> QED
      BY <3>1, ElementOfSeq
  <2>2. ASSUME NEW i \in 1..Len(t) PROVE t[Len(t) - i + 1] \in S
    <3>1. Len(t) - i + 1 \in 1..Len(t)
      BY <1>1
    <3> QED
      BY <3>1, ElementOfSeq
  <2> QED
    BY <2>1, <2>2 DEF Reverse
<1>3. ASSUME NEW i \in 1..n PROVE rs[i] = rt[i]
  <2>1. /\ i \in 1..Len(t) /\ n - i + 1 \in 1..n
        /\ Len(t) - n + (n - i + 1) = Len(t) - i + 1
    BY <1>1
  <2>2. t[Len(t) - i + 1] = s[n - i + 1]
    BY <2>1
  <2> QED
    BY <2>1, <2>2 DEF Reverse
<1> HIDE DEF rs, rt
<1>4. rs \in Seq(S) /\ Len(rs) = n /\ rt \in Seq(S) /\ Len(rt) = Len(t)
  BY <1>1, <1>2, FunctionIsSeq
<1>5. SubSeq(rs, 1, n) = SubSeq(rt, 1, n)
  <2>1. /\ SubSeq(rs, 1, n) = [i \in 1..n |-> rs[i]]
        /\ SubSeq(rt, 1, n) = [i \in 1..n |-> rt[i]]
    <3>1. n \in 0..Len(rs) /\ n \in 0..Len(rt)
      BY <1>1, <1>4
    <3>2. SubSeq(rs, 1, n) = Restrict(rs, 1..n) /\ SubSeq(rt, 1, n) = Restrict(rt, 1..n)
      BY <3>1, <1>4, SubSeqRestrict
    <3> QED
      BY <3>2 DEF Restrict
  <2> QED
    BY <2>1, <1>3
<1> QED
  BY <1>4, <1>5 DEF IsSuffix, IsPrefix, rs, rt

\* A shutdown that reports no error has every accepted frame on disk, in order, and the
\* day's captures are the frames of the fullest file.
THEOREM CleanStopLosesNothing == Spec => []CleanStop
<1>1. IInv => CleanStop
  <2> SUFFICES ASSUME IInv, epc = "exited", outcome = "clean"
      PROVE  /\ \A a \in Art : IsSuffix(accepted[a], acked[a])
             /\ (\A a \in Art : ~Torn(file[a])) =>
                  captures = Max({Len(Recovered(file[a])) : a \in Art})
    BY DEF CleanStop, CleanStopDrained, CapturesAreOnDisk
  <2>t. TypeOK /\ EngineInv
    BY DEF IInv
  <2>1. ASSUME NEW a \in Art
        PROVE  wpc[a] = "closed" /\ appended[a] = Len(accepted[a]) /\ Given(a) = 0
    <3>1. wpc[a] = "closed"
      BY <2>t DEF EngineInv
    <3> QED
      BY <3>1 DEF IInv, ArtInv, LifeInv, Given
  <2>2. ASSUME NEW a \in Art PROVE IsSuffix(accepted[a], acked[a])
    <3>1. /\ accepted[a] \in Seq(Seconds) /\ acked[a] \in Seq(Seconds)
          /\ Len(accepted[a]) <= Len(acked[a])
          /\ \A i \in 1..Len(accepted[a]) :
               acked[a][Len(acked[a]) - Len(accepted[a]) + i] = accepted[a][i]
      BY <2>1 DEF IInv, ArtInv, DrainInv, TypeOK
    <3> QED
      BY <3>1, SuffixIs
  <2>3. ASSUME \A a \in Art : ~Torn(file[a])
        PROVE  captures = Max({Len(Recovered(file[a])) : a \in Art})
    <3> DEFINE M == Max({onDisk[b] : b \in Art})
    <3>1. M \in Nat /\ \E a \in Art : onDisk[a] = M
      BY <2>t, MaxOverArt DEF TypeOK
    <3>2. \A a \in Art : onDisk[a] <= M
      BY <2>t, MaxOverArt DEF TypeOK
    <3> HIDE DEF M
    <3>3. captures \in Nat
      BY <2>t DEF TypeOK
    <3>4. ASSUME NEW a \in Art
          PROVE  /\ Len(Recovered(file[a])) = onDisk[a] + Len(accepted[a])
                 /\ captures = M + Len(accepted[a])
                 /\ onDisk[a] \in Nat /\ Len(accepted[a]) \in Nat
      <4>t. onDisk[a] \in Nat /\ Len(accepted[a]) \in Nat
        BY <2>t, ArtTypes
      <4>1. Len(Recovered(file[a])) = FramesOf(file[a])
        BY <2>3, UntornRecords DEF IInv, ArtInv, FileInv
      <4>2. FramesOf(file[a]) = onDisk[a] + Written(a) /\ Written(a) = Len(accepted[a])
        BY <2>1, <2>3 DEF IInv, ArtInv, CountInv, Written
      <4>3. captures + Given(a) = M + Len(accepted[a])
        BY <2>t DEF EngineInv, M
      <4>4. captures = M + Len(accepted[a])
        BY <4>3, <4>t, <3>1, <3>3, <2>1
      <4> QED
        BY <4>t, <4>1, <4>2, <4>4
    <3> DEFINE T == {Len(Recovered(file[a])) : a \in Art}
    <3>5. captures \in T
      <4>1. PICK a \in Art : onDisk[a] = M
        BY <3>1
      <4> QED
        BY <4>1, <3>4
    <3>6. ASSUME NEW x \in T PROVE x \in Nat /\ x <= captures
      <4>1. PICK a \in Art : x = Len(Recovered(file[a]))
        OBVIOUS
      <4>2. x = onDisk[a] + Len(accepted[a]) /\ captures = M + Len(accepted[a])
        BY <4>1, <3>4
      <4> QED
        BY <4>2, <3>1, <3>2, <3>4
    <3> HIDE DEF T
    <3>7. T \subseteq Nat /\ \A x \in T : x <= captures
      BY <3>6
    <3>8. Max(T) = captures
      BY <3>5, <3>7, MaxIs
    <3> QED
      BY <3>8 DEF T
  <2> QED
    BY <2>2, <2>3
<1> QED
  BY <1>1, Invariance, PTL

\* The files implement the append-only log: what stands intact in the bytes that are
\* durable is never lost or reordered, and only grows by later seconds.
THEOREM FilesImplementLog == Spec => ImplementsLog
<1>1. Init => Log!LogInit
  <2> SUFFICES ASSUME Init PROVE Durable = [a \in Art |-> <<>>]
    BY DEF Log!LogInit
  <2>1. ASSUME NEW a \in Art PROVE Recovered(SubSeq(file[a], 1, synced[a])) = <<>>
    <3> DEFINE f == SubSeq(file[a], 1, synced[a])
    <3>1. IInv
      BY InitStep
    <3>2. Shaped(file[a]) /\ synced[a] = 0 /\ 0 \in 0..Len(file[a])
      BY <3>1 DEF Init, IInv, ArtInv, FileInv
    <3>3. Shaped(f) /\ Len(f) = 0
      BY <3>2, ShapedPrefix
    <3> HIDE DEF f
    <3>4. Len(f) \div 2 = 0
      BY <3>3
    <3>5. Intact(f) = 0
      BY <3>3, <3>4, IntactIs
    <3>6. Len(Recovered(f)) = 0 /\ Recovered(f) \in Seq(Seconds)
      BY <3>3, <3>5, RecoveredIs
    <3>7. Recovered(f) = <<>>
      BY <3>6, EmptySeq
    <3> QED
      BY <3>7 DEF f
  <2> QED
    BY <2>1 DEF Durable
<1>2. IInv /\ [Next]_vars => [Log!LogNext]_Durable
  <2> SUFFICES ASSUME IInv, [Next]_vars PROVE Log!LogNext
    OBVIOUS
  <2>1. ASSUME NEW a \in Art
        PROVE  /\ Durable'[a] \in Seq(Seconds)
               /\ Log!Extends(Durable'[a], Durable[a])
    <3> DEFINE f == SubSeq(file[a], 1, synced[a])
               g == SubSeq(file'[a], 1, synced'[a])
    <3>1. /\ Shaped(file[a]) /\ Shaped(file'[a]) /\ synced[a] \in Nat /\ synced'[a] \in Nat
          /\ synced[a] \in 0..Len(file[a]) /\ synced'[a] \in 0..Len(file'[a])
          /\ synced[a] <= synced'[a]
          /\ \A i \in 1..synced[a] : file'[a][i] = file[a][i]
      BY ArtStep, TypeStep DEF IInv, ArtInv, FileInv, Preserved, TypeOK
    <3>2. /\ Shaped(f) /\ Len(f) = synced[a]
          /\ \A i \in 1..synced[a] : f[i] = file[a][i]
      BY <3>1, ShapedPrefix
    <3>3. /\ Shaped(g) /\ Len(g) = synced'[a]
          /\ \A i \in 1..synced'[a] : g[i] = file'[a][i]
      BY <3>1, ShapedPrefix
    <3> HIDE DEF f, g
    <3>4. Len(f) <= Len(g) /\ \A i \in 1..Len(f) : g[i] = f[i]
      BY <3>1, <3>2, <3>3
    <3>5. Log!Extends(Recovered(g), Recovered(f)) /\ Recovered(g) \in Seq(Seconds)
      BY <3>2, <3>3, <3>4, RecoveredGrows, RecoveredIs
    <3>6. Durable'[a] = Recovered(g) /\ Durable[a] = Recovered(f)
      BY DEF Durable, f, g
    <3> QED
      BY <3>5, <3>6
  <2>2. Durable' \in [Art -> Seq(Seconds)]
    <3>1. Durable' = [a \in Art |-> Durable'[a]]
      BY DEF Durable
    <3> QED
      BY <3>1, <2>1
  <2> QED
    BY <2>1, <2>2 DEF Log!LogNext
<1> QED
  BY <1>1, <1>2, Invariance, PTL DEF Spec, ImplementsLog, Log!LogSpec
=============================================================================
