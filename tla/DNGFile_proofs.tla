--------------------------- MODULE DNGFile_proofs ---------------------------
(***************************************************************************)
(* Theorems about DNGFile and their proofs: in the file that the dng_sdk   *)
(* writes nothing overlaps, the rows are where the strips say, and every   *)
(* offset in a directory points at what it is meant to point at.           *)
(*                                                                         *)
(* The offsets are sums over the tags of a directory, so the first part of *)
(* the module is about sums: it derives induction over a set of naturals   *)
(* from the least element of such a set, and from it what the recursive    *)
(* function LargeBefore is for every directory.                            *)
(***************************************************************************)
EXTENDS DNGFile, TLAPS, WellFoundedInduction, SequenceTheorems

\* A set of naturals that is not empty has a least element.
LEMMA Least ==
  ASSUME NEW T, T \subseteq Nat, T # {}
  PROVE  \E n \in T : \A m \in T : n <= m
<1>1. \E n \in T : \A m \in T : ~(<<m, n>> \in OpToRel(<, Nat))
  BY NatLessThanWellFounded, WFMin
<1>2. PICK n \in T : \A m \in T : ~(<<m, n>> \in OpToRel(<, Nat))
  BY <1>1
<1>3. ASSUME NEW m \in T
      PROVE  n <= m
  <2>1. m \in Nat /\ n \in Nat
    OBVIOUS
  <2>2. CASE m < n
    <3>1. <<m, n>> \in OpToRel(<, Nat)
      BY <2>1, <2>2 DEF OpToRel
    <3> QED
      BY <3>1, <1>2
  <2> QED
    BY <2>1, <2>2
<1> QED
  BY <1>3

\* Induction over Nat, for the numbers that have a property: a set with 0 and
\* with n + 1 whenever it has n has every number. (The induction theorems of
\* the library take the property as an operator, which the provers cannot
\* instantiate; a set they can.)
LEMMA SetInduction ==
  ASSUME NEW S, 0 \in S, \A n \in Nat : n \in S => n + 1 \in S
  PROVE  \A n \in Nat : n \in S
<1>1. SUFFICES ASSUME NEW k \in Nat, k \notin S
               PROVE  FALSE
  OBVIOUS
<1> DEFINE T == Nat \ S
<1>2. PICK n \in T : \A m \in T : n <= m
  <2>1. T \subseteq Nat /\ T # {}
    BY <1>1
  <2> HIDE DEF T
  <2> QED
    BY <2>1, Least
<1>3. n \in Nat /\ n # 0
  OBVIOUS
<1>4. n - 1 \in Nat /\ (n - 1) + 1 = n /\ ~(n <= n - 1)
  BY <1>3
<1>5. n - 1 \in S
  BY <1>2, <1>4
<1> QED
  BY <1>4, <1>5

\* f[i] is the sum of the first i - 1 of the m numbers a.
SumUpTo(a, m, f) ==
  /\ f \in [1..m + 1 -> Nat]
  /\ f[1] = 0
  /\ \A i \in 1..m : f[i + 1] = f[i] + a[i]

\* Every n numbers have such sums.
LEMMA SumsExist ==
  ASSUME NEW n \in Nat, NEW a \in [1..n -> Nat]
  PROVE  \E f : SumUpTo(a, n, f)
<1> DEFINE S == {m \in Nat : m <= n => \E f : SumUpTo(a, m, f)}
<1>1. 0 \in S
  <2>1. SumUpTo(a, 0, [i \in 1..1 |-> 0])
    BY DEF SumUpTo
  <2> QED
    BY <2>1
<1>2. ASSUME NEW m \in Nat, m \in S
      PROVE  m + 1 \in S
  <2>1. SUFFICES ASSUME m + 1 <= n
                 PROVE  \E f : SumUpTo(a, m + 1, f)
    OBVIOUS
  <2>2. PICK f : SumUpTo(a, m, f)
    BY <1>2, <2>1
  <2> DEFINE g == [i \in 1..m + 2 |-> IF i <= m + 1 THEN f[i]
                                      ELSE f[m + 1] + a[m + 1]]
  <2>3. a[m + 1] \in Nat
    BY <2>1
  <2>4. g \in [1..m + 2 -> Nat] /\ g[1] = 0
    BY <2>2, <2>3 DEF SumUpTo
  <2>5. ASSUME NEW i \in 1..m + 1
        PROVE  g[i + 1] = g[i] + a[i]
    <3>1. i \in 1..m + 2 /\ i + 1 \in 1..m + 2 /\ g[i] = f[i]
      OBVIOUS
    <3>2. CASE i <= m
      <4>1. g[i + 1] = f[i + 1] /\ i \in 1..m
        BY <3>1, <3>2
      <4> QED
        BY <4>1, <3>1, <2>2 DEF SumUpTo
    <3>3. CASE i = m + 1
      <4>1. g[i + 1] = f[m + 1] + a[m + 1]
        BY <3>1, <3>3
      <4> QED
        BY <4>1, <3>1, <3>3
    <3> QED
      BY <3>2, <3>3
  <2>6. (m + 1) + 1 = m + 2
    OBVIOUS
  <2>7. SumUpTo(a, m + 1, g)
    <3> HIDE DEF g
    <3> QED
      BY <2>4, <2>5, <2>6 DEF SumUpTo
  <2> QED
    BY <2>7
<1>3. \A m \in Nat : m \in S
  <2> HIDE DEF S
  <2> QED
    BY <1>1, <1>2, SetInduction
<1> QED
  BY <1>3

\* The sums of natural numbers do not shrink.
LEMMA SumsGrow ==
  ASSUME NEW n \in Nat, NEW a \in [1..n -> Nat], NEW f, SumUpTo(a, n, f),
         NEW i \in 1..n + 1, NEW k \in 1..n + 1, i <= k
  PROVE  f[i] <= f[k]
<1> DEFINE S == {d \in Nat : i + d <= n + 1 => f[i] <= f[i + d]}
<1>1. 0 \in S
  BY DEF SumUpTo
<1>2. ASSUME NEW d \in Nat, d \in S
      PROVE  d + 1 \in S
  <2>1. SUFFICES ASSUME i + (d + 1) <= n + 1
                 PROVE  f[i] <= f[i + (d + 1)]
    OBVIOUS
  <2>2. i + d \in 1..n /\ i + (d + 1) = (i + d) + 1 /\ i + d <= n + 1
    BY <2>1
  <2>3. f[i] <= f[i + d]
    BY <1>2, <2>2
  <2>4. f[(i + d) + 1] = f[i + d] + a[i + d] /\ a[i + d] \in Nat
    BY <2>2 DEF SumUpTo
  <2>5. i + d \in 1..n + 1 /\ f[i] \in Nat /\ f[i + d] \in Nat
    BY <2>2 DEF SumUpTo
  <2> QED
    BY <2>2, <2>3, <2>4, <2>5
<1>3. \A d \in Nat : d \in S
  <2> HIDE DEF S
  <2> QED
    BY <1>1, <1>2, SetInduction
<1>4. k - i \in Nat /\ i + (k - i) = k
  OBVIOUS
<1>5. k - i \in S
  BY <1>3, <1>4
<1> QED
  BY <1>4, <1>5

\* What each tag of a directory adds to the offset of the tags after it: its
\* even size when its data does not fit in the entry, else nothing.
Pads(dir, bytes) ==
  [i \in 1..Len(dir) |-> IF Large(dir[i]) THEN Even(bytes[i]) ELSE 0]

\* LargeBefore, the recursive function behind DataOffset, adds up the pads.
\* (That a function with its recursive equation exists is what SumsExist is
\* for.)
LEMMA LargeBeforeSums ==
  ASSUME NEW dir, Len(dir) \in Nat, NEW bytes,
         Pads(dir, bytes) \in [1..Len(dir) -> Nat]
  PROVE  SumUpTo(Pads(dir, bytes), Len(dir), LargeBefore(dir, bytes))
<1> DEFINE n == Len(dir)
           a == Pads(dir, bytes)
           D(g) == [i \in 1..n + 1 |-> IF i = 1 THEN 0
                     ELSE g[i-1] + IF Large(dir[i-1]) THEN Even(bytes[i-1]) ELSE 0]
<1>1. PICK f : SumUpTo(a, n, f)
  BY SumsExist
<1>2. f = D(f)
  <2>1. ASSUME NEW i \in 1..n + 1
        PROVE  f[i] = D(f)[i]
    <3>1. CASE i = 1
      BY <3>1, <1>1 DEF SumUpTo
    <3>2. CASE i # 1
      <4>1. i - 1 \in 1..n /\ (i - 1) + 1 = i
        BY <3>2
      <4>2. f[i] = f[i - 1] + a[i - 1]
        BY <4>1, <1>1 DEF SumUpTo
      <4> QED
        BY <4>1, <4>2, <3>2 DEF Pads
    <3> QED
      BY <3>1, <3>2
  <2>2. f \in [1..n + 1 -> Nat]
    BY <1>1 DEF SumUpTo
  <2> QED
    BY <2>1, <2>2
<1>3. LargeBefore(dir, bytes) = CHOOSE g : g = D(g)
  BY DEF LargeBefore
<1> DEFINE h == LargeBefore(dir, bytes)
<1>4. h = D(h)
  BY <1>2, <1>3
<1>5. h = [i \in 1..n + 1 |-> IF i = 1 THEN 0
             ELSE h[i-1] + IF Large(dir[i-1]) THEN Even(bytes[i-1]) ELSE 0]
  BY <1>4
<1> HIDE DEF h
<1>6. h[1] = 0
  <2>1. 1 \in 1..n + 1
    OBVIOUS
  <2> QED
    BY <1>5, <2>1
<1>7. ASSUME NEW i \in 1..n
      PROVE  h[i + 1] = h[i] + a[i]
  <2>1. i + 1 \in 1..n + 1 /\ i + 1 # 1 /\ (i + 1) - 1 = i
    OBVIOUS
  <2>2. h[i + 1] = h[i] + IF Large(dir[i]) THEN Even(bytes[i]) ELSE 0
    BY <1>5, <2>1
  <2> QED
    BY <2>2 DEF Pads
<1>8. h \in [1..n + 1 -> Nat]
  <2> DEFINE S == {m \in Nat : m <= n => h[m + 1] \in Nat}
  <2>1. 0 \in S
    BY <1>6
  <2>2. ASSUME NEW m \in Nat, m \in S
        PROVE  m + 1 \in S
    <3>1. SUFFICES ASSUME m + 1 <= n
                   PROVE  h[(m + 1) + 1] \in Nat
      OBVIOUS
    <3>2. m + 1 \in 1..n /\ m <= n
      BY <3>1
    <3>3. h[m + 1] \in Nat /\ a[m + 1] \in Nat
      BY <2>2, <3>2
    <3> QED
      BY <1>7, <3>2, <3>3
  <2>3. \A m \in Nat : m \in S
    <3> HIDE DEF S
    <3> QED
      BY <2>1, <2>2, SetInduction
  <2>4. ASSUME NEW i \in 1..n + 1
        PROVE  h[i] \in Nat
    <3>1. i - 1 \in Nat /\ i - 1 <= n /\ (i - 1) + 1 = i
      OBVIOUS
    <3> QED
      BY <2>3, <3>1
  <2> QED
    BY <1>5, <2>4
<1>9. SumUpTo(a, n, h)
  BY <1>6, <1>7, <1>8 DEF SumUpTo
<1> QED
  BY <1>9 DEF h

\* The sum of two even numbers is even.
LEMMA EvenSum ==
  ASSUME NEW m \in Nat, NEW k \in Nat, m % 2 = 0, k % 2 = 0
  PROVE  (m + k) % 2 = 0
OBVIOUS

\* Sums of even numbers are even.
LEMMA SumsEven ==
  ASSUME NEW n \in Nat, NEW a \in [1..n -> Nat], NEW f, SumUpTo(a, n, f),
         \A i \in 1..n : a[i] % 2 = 0
  PROVE  \A i \in 1..n + 1 : f[i] % 2 = 0
<1> DEFINE S == {m \in Nat : m <= n => f[m + 1] % 2 = 0}
<1>1. 0 \in S
  BY DEF SumUpTo
<1>2. ASSUME NEW m \in Nat, m \in S
      PROVE  m + 1 \in S
  <2>1. SUFFICES ASSUME m + 1 <= n
                 PROVE  f[(m + 1) + 1] % 2 = 0
    OBVIOUS
  <2>2. m + 1 \in 1..n /\ m <= n /\ m + 1 \in 1..n + 1
    BY <2>1
  <2>3. f[m + 1] % 2 = 0 /\ f[m + 1] \in Nat
    BY <1>2, <2>2 DEF SumUpTo
  <2>4. a[m + 1] % 2 = 0 /\ a[m + 1] \in Nat
    BY <2>2
  <2>5. f[(m + 1) + 1] = f[m + 1] + a[m + 1]
    BY <2>2 DEF SumUpTo
  <2> HIDE DEF S
  <2>6. (f[m + 1] + a[m + 1]) % 2 = 0
    BY <2>3, <2>4, EvenSum
  <2> QED
    BY <2>5, <2>6
<1>3. \A m \in Nat : m \in S
  <2> HIDE DEF S
  <2> QED
    BY <1>1, <1>2, SetInduction
<1>4. ASSUME NEW i \in 1..n + 1
      PROVE  f[i] % 2 = 0
  <2>1. i - 1 \in Nat /\ i - 1 <= n /\ (i - 1) + 1 = i
    OBVIOUS
  <2> QED
    BY <1>3, <2>1
<1> QED
  BY <1>4

\* The tags that the writer can be given.
Tags == [code : Nat, kind : Kinds, length : Nat]

\* Every tag writes as many bytes as it measures.
LEMMA TagBytes ==
  ASSUME NEW tag \in Tags
  PROVE  Size(tag) \in Nat /\ Written(tag) = Size(tag)
<1>1. tag.length \in Nat /\ tag.kind \in Kinds
  BY DEF Tags
<1>2. CASE tag.kind = "data"
  BY <1>1, <1>2 DEF Size, Written
<1>3. CASE tag.kind = "string"
  BY <1>1, <1>3 DEF Size, Written
<1>4. CASE tag.kind = "text"
  BY <1>1, <1>4 DEF Size, Written
<1>5. CASE tag.kind = "utf16"
  BY <1>1, <1>5 DEF Size, Written
<1> QED
  BY <1>1, <1>2, <1>3, <1>4, <1>5 DEF Kinds

\* Rounding up to even.
LEMMA EvenIs ==
  ASSUME NEW n \in Nat
  PROVE  Even(n) \in Nat /\ Even(n) % 2 = 0 /\ n <= Even(n)
BY DEF Even

\* A piece that ends before the next begins still does when both are moved.
LEMMA EndsBefore ==
  ASSUME NEW b \in Nat, NEW e \in Nat, NEW x \in Nat, NEW s \in Nat,
         NEW y \in Nat, NEW z \in Nat, x + s <= y, y <= z
  PROVE  b + e + x + s <= b + e + z
OBVIOUS

\* The sums of one directory.
SumsOf(dir) == LargeBefore(dir, Measures(dir))

\* What the sums of a directory are, whether its tags are asked what they
\* measure (Size) or what they put into the stream (Written).
LEMMA SumsOfDirectory ==
  ASSUME NEW dir \in Seq(Tags)
  PROVE  /\ SumUpTo(Pads(dir, Measures(dir)), Len(dir), SumsOf(dir))
         /\ Pads(dir, Measures(dir)) \in [1..Len(dir) -> Nat]
         /\ \A i \in 1..Len(dir) : /\ Pads(dir, Measures(dir))[i] % 2 = 0
                                   /\ Large(dir[i]) => Size(dir[i]) <= Pads(dir, Measures(dir))[i]
         /\ Measures(dir) = Writes(dir)
<1>1. Len(dir) \in Nat /\ DOMAIN dir = 1..Len(dir)
  OBVIOUS
<1>2. ASSUME NEW i \in 1..Len(dir)
      PROVE  /\ Size(dir[i]) \in Nat /\ Written(dir[i]) = Size(dir[i])
             /\ Measures(dir)[i] = Size(dir[i])
             /\ Pads(dir, Measures(dir))[i] = IF Large(dir[i]) THEN Even(Size(dir[i])) ELSE 0
             /\ Pads(dir, Measures(dir))[i] \in Nat
             /\ Pads(dir, Measures(dir))[i] % 2 = 0
             /\ Large(dir[i]) => Size(dir[i]) <= Pads(dir, Measures(dir))[i]
  <2>1. dir[i] \in Tags
    OBVIOUS
  <2>2. Size(dir[i]) \in Nat /\ Written(dir[i]) = Size(dir[i])
    BY <2>1, TagBytes
  <2>3. Measures(dir)[i] = Size(dir[i])
    BY <1>1 DEF Measures
  <2>4. Pads(dir, Measures(dir))[i] = IF Large(dir[i]) THEN Even(Size(dir[i])) ELSE 0
    BY <2>3 DEF Pads
  <2>5. Even(Size(dir[i])) \in Nat /\ Even(Size(dir[i])) % 2 = 0
        /\ Size(dir[i]) <= Even(Size(dir[i]))
    BY <2>2, EvenIs
  <2> HIDE DEF Pads
  <2>6. CASE Large(dir[i])
    BY <2>2, <2>3, <2>4, <2>5, <2>6
  <2>7. CASE ~Large(dir[i])
    BY <2>2, <2>3, <2>4, <2>7
  <2> QED
    BY <2>6, <2>7
<1>3. Pads(dir, Measures(dir)) \in [1..Len(dir) -> Nat]
  BY <1>2 DEF Pads
<1>4. Measures(dir) = Writes(dir)
  BY <1>1, <1>2 DEF Measures, Writes
<1>5. SumUpTo(Pads(dir, Measures(dir)), Len(dir), SumsOf(dir))
  BY <1>1, <1>3, LargeBeforeSums DEF SumsOf
<1> QED
  BY <1>2, <1>3, <1>4, <1>5

\* dng_tiff_directory::Size and dng_tiff_directory::Put agree: a directory
\* takes exactly the bytes that Layout() left for it.
LEMMA SizesAgree ==
  ASSUME NEW dir \in Seq(Tags)
  PROVE  /\ DirectorySize(dir) \in Nat
         /\ DirectorySize(dir) % 2 = 0
         /\ BytesPut(dir) = DirectorySize(dir)
         /\ Entries(dir) \in Nat /\ Entries(dir) % 2 = 0
         /\ Entries(dir) # 0
         /\ dir # <<>> => Entries(dir) <= DirectorySize(dir)
<1>1. SumUpTo(Pads(dir, Measures(dir)), Len(dir), SumsOf(dir))
      /\ Measures(dir) = Writes(dir)
  BY SumsOfDirectory
<1>2. Len(dir) \in Nat /\ Len(dir) + 1 \in 1..Len(dir) + 1
  OBVIOUS
<1>3. SumsOf(dir)[Len(dir) + 1] \in Nat
  BY <1>1, <1>2 DEF SumUpTo
<1>4. SumsOf(dir)[Len(dir) + 1] % 2 = 0
  BY <1>2, SumsEven, SumsOfDirectory
<1>5. Entries(dir) \in Nat /\ Entries(dir) % 2 = 0 /\ Entries(dir) # 0
  BY <1>2 DEF Entries
<1>6. DirectorySize(dir) = (IF dir = <<>> THEN 0 ELSE Entries(dir) + SumsOf(dir)[Len(dir) + 1])
  BY DEF DirectorySize, SumsOf
<1>7. BytesPut(dir) = DirectorySize(dir)
  BY <1>1 DEF BytesPut, DirectorySize
<1> QED
  BY <1>3, <1>4, <1>5, <1>6, <1>7

\* The offset that Put writes in an entry is the offset at which it puts the
\* data of that entry: it is even and behind the entries.
LEMMA DataInPlace ==
  ASSUME NEW dir \in Seq(Tags), NEW base \in Nat, base % 2 = 0,
         NEW i \in 1..Len(dir), Large(dir[i])
  PROVE  /\ EntryOffset(dir, base, i) = DataOffset(dir, base, i)
         /\ DataOffset(dir, base, i) \in Nat
         /\ DataOffset(dir, base, i) % 2 = 0
         /\ base + Entries(dir) <= DataOffset(dir, base, i)
         /\ Written(dir[i]) \in Nat
         /\ DataOffset(dir, base, i) + Written(dir[i])
              <= base + DirectorySize(dir)
         /\ \A k \in 1..Len(dir) : i < k =>
              DataOffset(dir, base, i) + Written(dir[i])
                <= DataOffset(dir, base, k)
<1> DEFINE n == Len(dir)
           a == Pads(dir, Measures(dir))
           f == SumsOf(dir)
<1>1. /\ SumUpTo(a, n, f) /\ a \in [1..n -> Nat]
      /\ Size(dir[i]) <= a[i]
      /\ Measures(dir) = Writes(dir)
  BY SumsOfDirectory
<1>2. n \in Nat /\ i \in 1..n + 1 /\ i + 1 \in 1..n + 1 /\ n + 1 \in 1..n + 1
  OBVIOUS
<1>3. f[i] % 2 = 0
  BY <1>2, SumsEven, SumsOfDirectory
<1>4. f[i] \in Nat /\ f[i + 1] \in Nat /\ f[n + 1] \in Nat
      /\ f[i + 1] = f[i] + a[i]
  BY <1>1, <1>2 DEF SumUpTo
<1>5. Size(dir[i]) \in Nat /\ Written(dir[i]) = Size(dir[i])
  BY TagBytes
<1>6. Entries(dir) \in Nat /\ Entries(dir) % 2 = 0
  BY SizesAgree
<1>7. EntryOffset(dir, base, i) = base + Entries(dir) + f[i]
  BY DEF EntryOffset, SumsOf
<1>8. \A k \in 1..n : DataOffset(dir, base, k) = base + Entries(dir) + f[k]
  BY <1>1 DEF DataOffset, SumsOf
<1>9. DirectorySize(dir) = Entries(dir) + f[n + 1]
  <2>1. dir # <<>>
    OBVIOUS
  <2> QED
    BY <2>1 DEF DirectorySize, SumsOf
<1>10. f[i] + Size(dir[i]) <= f[i + 1]
  BY <1>1, <1>4, <1>5
<1>11. f[i + 1] <= f[n + 1]
  <2>1. i + 1 <= n + 1
    BY <1>2
  <2> HIDE DEF n, a, f
  <2> QED
    BY <2>1, <1>1, <1>2, SumsGrow
<1>12. ASSUME NEW k \in 1..n, i < k
       PROVE  DataOffset(dir, base, i) + Written(dir[i])
                <= DataOffset(dir, base, k)
  <2>1. i + 1 <= k /\ k \in 1..n + 1
    BY <1>2, <1>12
  <2>2. f[i + 1] <= f[k]
    <3> HIDE DEF n, a, f
    <3> QED
      BY <2>1, <1>1, <1>2, SumsGrow
  <2>3. f[k] \in Nat
    BY <1>1, <2>1 DEF SumUpTo
  <2>4. DataOffset(dir, base, k) = base + Entries(dir) + f[k]
    BY <1>8
  <2>5. DataOffset(dir, base, i) = base + Entries(dir) + f[i]
    BY <1>8
  <2> HIDE DEF f, n, a
  <2>6. base + Entries(dir) + f[i] + Size(dir[i]) <= base + Entries(dir) + f[k]
    BY <1>4, <1>5, <1>6, <1>10, <2>2, <2>3, EndsBefore
  <2> QED
    BY <1>5, <2>4, <2>5, <2>6
<1> HIDE DEF f, n, a
<1>13. DataOffset(dir, base, i) = base + Entries(dir) + f[i]
  BY <1>8 DEF n
<1>14. DataOffset(dir, base, i) + Written(dir[i]) <= base + DirectorySize(dir)
  <2>1. base + Entries(dir) + f[i] + Size(dir[i])
          <= base + Entries(dir) + f[n + 1]
    BY <1>4, <1>5, <1>6, <1>10, <1>11, EndsBefore
  <2>2. base + Entries(dir) + f[n + 1] = base + (Entries(dir) + f[n + 1])
    BY <1>4, <1>6
  <2>3. DataOffset(dir, base, i) + Written(dir[i])
          = base + Entries(dir) + f[i] + Size(dir[i])
    BY <1>5, <1>13
  <2>4. base + Entries(dir) + f[n + 1] = base + DirectorySize(dir)
    BY <1>9, <2>2
  <2> QED
    BY <2>1, <2>3, <2>4
<1>15. DataOffset(dir, base, i) \in Nat /\ DataOffset(dir, base, i) % 2 = 0
       /\ base + Entries(dir) <= DataOffset(dir, base, i)
  <2>1. base + Entries(dir) \in Nat /\ (base + Entries(dir)) % 2 = 0
    BY <1>6, EvenSum
  <2> DEFINE e == base + Entries(dir)
  <2>2. (e + f[i]) % 2 = 0
    <3> HIDE DEF e
    <3>1. e \in Nat /\ e % 2 = 0
      BY <2>1 DEF e
    <3> QED
      BY <3>1, <1>3, <1>4, EvenSum
  <2>3. /\ base + Entries(dir) + f[i] \in Nat
        /\ base + Entries(dir) <= base + Entries(dir) + f[i]
    BY <2>1, <1>4
  <2> QED
    BY <1>13, <2>2, <2>3
<1>16. EntryOffset(dir, base, i) = DataOffset(dir, base, i)
  BY <1>7, <1>13
<1>17. Written(dir[i]) \in Nat
  BY <1>5
<1>18. \A k \in 1..Len(dir) : i < k =>
         DataOffset(dir, base, i) + Written(dir[i]) <= DataOffset(dir, base, k)
  BY <1>12 DEF n
<1> QED
  BY <1>16, <1>17, <1>14, <1>15, <1>18

\* The codes of a directory increase, so that none occurs twice.
Sorted(dir) ==
  \A i, k \in DOMAIN dir : i < k => dir[i].code < dir[k].code

\* The place at which Add puts a tag.
PlaceOf(dir, tag) ==
  LET after == {i \in DOMAIN dir : tag.code < dir[i].code}
  IN  IF after = {} THEN Len(dir) + 1
      ELSE CHOOSE i \in after : \A k \in after : i <= k

\* That place has every smaller code before it and every larger one behind.
LEMMA PlaceIs ==
  ASSUME NEW dir \in Seq(Tags), Sorted(dir), NEW tag \in Tags,
         tag.code \notin Codes(dir)
  PROVE  /\ PlaceOf(dir, tag) \in 1..Len(dir) + 1
         /\ \A i \in 1..Len(dir) : IF i < PlaceOf(dir, tag)
                                   THEN dir[i].code < tag.code
                                   ELSE tag.code < dir[i].code
<1> DEFINE after == {i \in DOMAIN dir : tag.code < dir[i].code}
           p == PlaceOf(dir, tag)
<1>1. DOMAIN dir = 1..Len(dir) /\ Len(dir) \in Nat
  OBVIOUS
<1>2. \A i \in 1..Len(dir) : /\ dir[i].code \in Nat /\ tag.code \in Nat
                             /\ dir[i].code # tag.code
  <2>1. ASSUME NEW i \in 1..Len(dir)
        PROVE  dir[i].code \in Nat /\ dir[i].code \in Codes(dir)
    <3>1. dir[i] \in Tags
      OBVIOUS
    <3> QED
      BY <1>1, <3>1 DEF Tags, Codes
  <2>2. tag.code \in Nat
    BY DEF Tags
  <2> QED
    BY <2>1, <2>2
<1>3. CASE after = {}
  <2>1. p = Len(dir) + 1
    BY <1>3 DEF PlaceOf
  <2>2. \A i \in 1..Len(dir) : dir[i].code < tag.code /\ i < p
    BY <1>1, <1>2, <1>3, <2>1
  <2> QED
    BY <2>1, <2>2
<1>4. CASE after # {}
  <2>1. \E i \in after : \A k \in after : i <= k
    <3>1. after \subseteq Nat
      BY <1>1
    <3> HIDE DEF after
    <3> QED
      BY <1>4, <3>1, Least
  <2>2. p = CHOOSE i \in after : \A k \in after : i <= k
    BY <1>4 DEF PlaceOf
  <2>3. p \in after /\ \A k \in after : p <= k
    <3> HIDE DEF after, p
    <3> QED
      BY <2>1, <2>2
  <2> HIDE DEF p
  <2>4. p \in 1..Len(dir) /\ tag.code < dir[p].code
    BY <1>1, <2>3
  <2>5. ASSUME NEW i \in 1..Len(dir)
        PROVE  IF i < p THEN dir[i].code < tag.code
               ELSE tag.code < dir[i].code
    <3>1. CASE i < p
      <4>1. i \notin after
        BY <2>3, <2>4, <3>1
      <4> QED
        BY <1>1, <1>2, <3>1, <4>1
    <3>2. CASE i = p
      BY <2>4, <3>2
    <3>3. CASE p < i
      <4>1. dir[p].code < dir[i].code
        BY <1>1, <2>4, <3>3 DEF Sorted
      <4> QED
        BY <1>2, <2>4, <3>3, <4>1
    <3> QED
      BY <2>4, <3>1, <3>2, <3>3
  <2> QED
    BY <2>4, <2>5 DEF p
<1> QED
  BY <1>3, <1>4

\* The length of two sequences put together.
LEMMA LenOfConcat ==
  ASSUME NEW S, NEW s \in Seq(S), NEW t \in Seq(S)
  PROVE  Len(s \o t) = Len(s) + Len(t)
OBVIOUS

\* Behind the first sequence comes the second.
LEMMA IndexOfConcat ==
  ASSUME NEW S, NEW s \in Seq(S), NEW t \in Seq(S), NEW i \in 1..Len(t)
  PROVE  (s \o t)[Len(s) + i] = t[i]
OBVIOUS

\* The tag is inserted there and the others keep their order.
LEMMA AddIs ==
  ASSUME NEW dir \in Seq(Tags), NEW tag \in Tags,
         PlaceOf(dir, tag) \in 1..Len(dir) + 1
  PROVE  /\ Add(dir, tag) \in Seq(Tags)
         /\ Len(Add(dir, tag)) = Len(dir) + 1
         /\ \A i \in 1..Len(dir) + 1 : Add(dir, tag)[i] =
              IF i < PlaceOf(dir, tag) THEN dir[i]
              ELSE IF i = PlaceOf(dir, tag) THEN tag ELSE dir[i - 1]
<1> DEFINE p == PlaceOf(dir, tag)
           left == SubSeq(dir, 1, p - 1)
           right == SubSeq(dir, p, Len(dir))
<1>1. Add(dir, tag) = left \o <<tag>> \o right
  BY DEF Add, InsertAt, PlaceOf
<1> HIDE DEF p
<1>2. p \in 1..Len(dir) + 1 /\ Len(dir) \in Nat
  BY DEF p
<1>3. left \in Seq(Tags) /\ Len(left) = p - 1
      /\ \A i \in 1..p - 1 : left[i] = dir[i]
  BY <1>2
<1>4. right \in Seq(Tags) /\ Len(right) = Len(dir) - p + 1
      /\ \A i \in 1..Len(dir) - p + 1 : right[i] = dir[p + i - 1]
  BY <1>2
<1>5. <<tag>> \in Seq(Tags) /\ Len(<<tag>>) = 1 /\ <<tag>>[1] = tag
  OBVIOUS
<1> HIDE DEF left, right
<1>6. left \o <<tag>> \in Seq(Tags) /\ Len(left \o <<tag>>) = p
      /\ \A i \in 1..p : (left \o <<tag>>)[i] = IF i < p THEN dir[i] ELSE tag
  BY <1>2, <1>3, <1>5
<1> DEFINE begun == left \o <<tag>>
<1>7. begun \in Seq(Tags) /\ Len(begun) = p
      /\ \A i \in 1..p : begun[i] = IF i < p THEN dir[i] ELSE tag
  BY <1>6
<1>8. Add(dir, tag) = begun \o right
  BY <1>1
<1> HIDE DEF begun
<1>9. Add(dir, tag) \in Seq(Tags) /\ Len(Add(dir, tag)) = Len(dir) + 1
  <2>1. Add(dir, tag) \in Seq(Tags)
    BY <1>4, <1>7, <1>8
  <2>2. Len(Add(dir, tag)) = p + (Len(dir) - p + 1)
    <3>1. Len(Add(dir, tag)) = Len(begun) + Len(right)
      BY <1>4, <1>7, <1>8, LenOfConcat
    <3> QED
      BY <1>4, <1>7, <3>1
  <2>3. p + (Len(dir) - p + 1) = Len(dir) + 1
    BY <1>2
  <2> QED
    BY <2>1, <2>2, <2>3
<1>10. ASSUME NEW i \in 1..Len(dir) + 1
       PROVE  Add(dir, tag)[i] = IF i < p THEN dir[i]
                                 ELSE IF i = p THEN tag ELSE dir[i - 1]
  <2>1. CASE i <= p
    <3>1. Add(dir, tag)[i] = begun[i]
      BY <1>2, <1>4, <1>7, <1>8, <2>1
    <3> QED
      BY <1>2, <1>7, <2>1, <3>1
  <2>2. CASE p < i
    <3>1. i - p \in 1..Len(dir) - p + 1 /\ p + (i - p) - 1 = i - 1
      BY <1>2, <2>2
    <3>2. Add(dir, tag)[i] = right[i - p]
      <4>1. i - p \in 1..Len(right) /\ Len(begun) + (i - p) = i
        BY <1>2, <1>4, <1>7, <3>1
      <4>2. (begun \o right)[Len(begun) + (i - p)] = right[i - p]
        BY <1>4, <1>7, <4>1, IndexOfConcat
      <4> QED
        BY <1>8, <4>1, <4>2
    <3> QED
      BY <1>2, <1>4, <2>2, <3>1, <3>2
  <2> QED
    BY <1>2, <2>1, <2>2
<1> QED
  BY <1>9, <1>10 DEF p

\* dng_tiff_directory::Add keeps a directory sorted.
LEMMA AddKeepsOrder ==
  ASSUME NEW dir \in Seq(Tags), Sorted(dir), NEW tag \in Tags,
         tag.code \notin Codes(dir)
  PROVE  /\ Add(dir, tag) \in Seq(Tags)
         /\ Sorted(Add(dir, tag))
         /\ Codes(Add(dir, tag)) = Codes(dir) \cup {tag.code}
         /\ Add(dir, tag) # <<>>
<1> DEFINE p == PlaceOf(dir, tag)
           new == Add(dir, tag)
           n == Len(dir)
<1>1. /\ p \in 1..n + 1
      /\ \A i \in 1..n : IF i < p THEN dir[i].code < tag.code
                         ELSE tag.code < dir[i].code
  BY PlaceIs
<1>2. /\ new \in Seq(Tags) /\ Len(new) = n + 1
      /\ \A i \in 1..n + 1 : new[i] = IF i < p THEN dir[i]
                                      ELSE IF i = p THEN tag ELSE dir[i - 1]
  BY <1>1, AddIs
<1>3. n \in Nat /\ DOMAIN dir = 1..n /\ DOMAIN new = 1..n + 1
  BY <1>2
<1> HIDE DEF p, new, n
<1>4. /\ \A i \in 1..n : dir[i].code \in Nat
      /\ tag.code \in Nat
  <2>1. ASSUME NEW i \in 1..n
        PROVE  dir[i].code \in Nat
    <3>1. dir[i] \in Tags
      BY <1>3
    <3> QED
      BY <3>1 DEF Tags
  <2>2. tag.code \in Nat
    BY DEF Tags
  <2> QED
    BY <2>1, <2>2
<1>5. ASSUME NEW i \in 1..n + 1, NEW k \in 1..n + 1, i < k
      PROVE  new[i].code < new[k].code
  <2>1. CASE k < p
    <3>1. i \in 1..n /\ k \in 1..n /\ i < p
      BY <1>1, <1>3, <1>5, <2>1
    <3> QED
      BY <1>2, <1>3, <1>5, <2>1, <3>1 DEF Sorted
  <2>2. CASE k = p
    <3>1. i \in 1..n /\ i < p
      BY <1>1, <1>3, <1>5, <2>2
    <3> QED
      BY <1>1, <1>2, <2>2, <3>1
  <2>3. CASE p < k
    <3>1. k - 1 \in 1..n /\ ~(k - 1 < p) /\ new[k] = dir[k - 1]
      BY <1>1, <1>2, <1>3, <1>5, <2>3
    <3>2. CASE i < p
      <4>1. i \in 1..n /\ new[i] = dir[i] /\ i < k - 1
        BY <1>1, <1>2, <1>3, <2>3, <3>2
      <4> QED
        BY <1>3, <3>1, <4>1 DEF Sorted
    <3>3. CASE i = p
      <4>1. new[i] = tag
        BY <1>2, <3>3
      <4> QED
        BY <1>1, <3>1, <4>1
    <3>4. CASE p < i
      <4>1. i - 1 \in 1..n /\ new[i] = dir[i - 1] /\ i - 1 < k - 1
        BY <1>1, <1>2, <1>3, <1>5, <3>4
      <4> QED
        BY <1>3, <3>1, <4>1 DEF Sorted
    <3> QED
      BY <1>1, <3>2, <3>3, <3>4
  <2> QED
    BY <1>1, <1>5, <2>1, <2>2, <2>3
<1>6. Sorted(new)
  BY <1>3, <1>5 DEF Sorted
<1>7. ASSUME NEW i \in 1..n + 1
      PROVE  new[i].code \in Codes(dir) \cup {tag.code}
  <2>1. new[i] = tag \/ \E k \in 1..n : new[i] = dir[k]
    <3>1. CASE i < p
      <4>1. i \in 1..n
        BY <1>1, <1>3, <3>1
      <4> QED
        BY <1>2, <3>1, <4>1
    <3>2. CASE i = p
      BY <1>2, <3>2
    <3>3. CASE p < i
      <4>1. i - 1 \in 1..n
        BY <1>1, <1>3, <3>3
      <4> QED
        BY <1>1, <1>2, <3>3, <4>1
    <3> QED
      BY <1>1, <3>1, <3>2, <3>3
  <2> QED
    BY <2>1, <1>3 DEF Codes
<1>8. ASSUME NEW k \in 1..n
      PROVE  dir[k].code \in Codes(new)
  <2>1. CASE k < p
    <3>1. k \in 1..n + 1 /\ new[k] = dir[k]
      BY <1>2, <1>3, <2>1
    <3> QED
      BY <1>3, <3>1 DEF Codes
  <2>2. CASE ~(k < p)
    <3>1. k + 1 \in 1..n + 1 /\ ~(k + 1 < p) /\ k + 1 # p /\ (k + 1) - 1 = k
      BY <1>1, <1>3, <2>2
    <3>2. new[k + 1] = dir[k]
      BY <1>2, <3>1
    <3> QED
      BY <1>3, <3>1, <3>2 DEF Codes
  <2> QED
    BY <2>1, <2>2
<1>9. tag.code \in Codes(new)
  <2>1. new[p] = tag
    BY <1>1, <1>2
  <2> QED
    BY <1>1, <1>3, <2>1 DEF Codes
<1>10. Codes(new) = Codes(dir) \cup {tag.code}
  <2>1. Codes(new) \subseteq Codes(dir) \cup {tag.code}
    BY <1>3, <1>7 DEF Codes
  <2>2. Codes(dir) \subseteq Codes(new)
    BY <1>3, <1>8 DEF Codes
  <2> QED
    BY <2>1, <2>2, <1>9
<1>11. new # <<>>
  BY <1>2, <1>3
<1> QED
  BY <1>2, <1>6, <1>10, <1>11 DEF new

-----------------------------------------------------------------------------
(* The inductive invariant. *)

\* The steps that build the directories, those that write the images, and those
\* that write the header and the directories.
Early == {"tags", "more", "layout"}
Imaging == {"strip", "rows", "trim"}
Late == {"header", "main", "raw", "exif", "gps", "done"}

\* Where the directories are written, and where their room ends.
RawAt == 8 + DirectorySize(dirs["main"])
ExifAt == RawAt + DirectorySize(dirs["raw"])
GPSAt == ExifAt + DirectorySize(dirs["exif"])
Room == GPSAt + DirectorySize(dirs["gps"])

\* The pieces of the file.
Pieces == [at : Nat, size : Nat, dir : Directories,
           part : {"header", "rows", "entries", "data"}, n : Nat]

\* The types of the variables.
FileTypes ==
  /\ filePc \in Early \cup Imaging \cup Late \cup {"failed"}
  /\ height \in [Images -> Nat \ {0}] /\ fit \in [Images -> Nat]
  /\ dirs \in [Directories -> Seq(Tags)]
  /\ value \in [Links -> Nat]
  /\ position \in Nat /\ row \in Nat
  /\ image \in Images
  /\ file \subseteq Pieces

\* The links that the main directory has at each step: the two of its strip
\* from the start, the others when their directory is known.
StripCodes == {StripOffsets, StripByteCounts}
IfAny(d, code) == IF dirs[d] = <<>> THEN {} ELSE {code}
MainLinks(pc) ==
  CASE pc = "tags" -> {}
    [] pc = "more" -> IfAny("exif", ExifIFD) \cup IfAny("gps", GPSInfo)
    [] OTHER -> {SubIFDs} \cup IfAny("exif", ExifIFD) \cup IfAny("gps", GPSInfo)

\* The directories are sorted, and the links are tags of the directories they
\* are meant for.
TagsRight ==
  /\ \A d \in Directories : Sorted(dirs[d])
  /\ Codes(dirs["main"]) \cap LinkCodes = StripCodes \cup MainLinks(filePc)
  /\ Codes(dirs["raw"]) \cap LinkCodes = StripCodes
  /\ Codes(dirs["exif"]) \cap LinkCodes = {}
  /\ Codes(dirs["gps"]) \cap LinkCodes = {}

\* Row r of an image that begins at from lies in a piece of the file.
RowThere(i, from, r) ==
  \E p \in file :
    /\ p.dir = i /\ p.part = "rows" /\ r >= p.n
    /\ from + r * RowBytes[i] = p.at + (r - p.n) * RowBytes[i]
    /\ (r - p.n + 1) * RowBytes[i] <= p.size

\* The first rows of image i are in the file, from its strip's offset.
StripBegun(i, rows) ==
  LET from == value[<<i, StripOffsets>>] IN
  /\ from % 2 = 0
  /\ \A r \in 0..rows - 1 : RowThere(i, from, r)
  /\ rows > 0 => Holds(from, [dir |-> i, part |-> "rows", n |-> 0])

\* All rows of image i are in the file and its byte count is their size.
StripDone(i) ==
  /\ StripBegun(i, height[i])
  /\ value[<<i, StripByteCounts>>] = height[i] * RowBytes[i]

\* Layout() has given the sub-directories their offsets.
Placed ==
  /\ value[<<"main", SubIFDs>>] = RawAt
  /\ value[<<"main", ExifIFD>>] = ExifAt
  /\ value[<<"main", GPSInfo>>] = GPSAt

\* Nothing is written while the directories are built.
EarlyRight == file = {} /\ says = {} /\ image = "main"

\* While the images are written everything in the file is a row behind the room
\* of the directories, and the strips that are done are whole, unless the
\* stream has grown to the size a 32-bit offset cannot say (which Trim reports
\* as an error).
ImagingRight ==
  /\ Placed
  /\ says = {} /\ Room <= position
  /\ \A p \in file : /\ p.part = "rows" /\ Room <= p.at
                     /\ p.at + p.size <= position
  /\ filePc = "rows" => row <= height[image]
  /\ position < Limit =>
       /\ filePc \in {"strip", "trim"} => position % 2 = 0
       /\ image = "raw" => StripDone("main")
       /\ filePc = "trim" => StripDone("main") /\ StripDone("raw")
       /\ filePc = "rows" =>
            /\ StripBegun(image, row)
            /\ position = value[<<image, StripOffsets>>] + row * RowBytes[image]

\* Where the stream writes at each step behind the images, and what it has
\* written by then.
Start(pc) ==
  CASE pc = "header" -> 0     [] pc = "main" -> 8     [] pc = "raw" -> RawAt
    [] pc = "exif"   -> ExifAt [] pc = "gps" -> GPSAt [] pc = "done" -> Room

Before(pc) ==
  CASE pc \in {"header", "main"} -> {}
    [] pc = "raw"  -> {"main"}
    [] pc = "exif" -> {"main", "raw"}
    [] pc = "gps"  -> {"main", "raw", "exif"}
    [] pc = "done" -> Directories

\* The tags of a directory with data of their own, the ones that link, the
\* pieces the directory writes and what its entries say.
LargeOf(dir) == {i \in DOMAIN dir : Large(dir[i])}
LinksOf(d) == {i \in DOMAIN dirs[d] : <<d, dirs[d][i].code>> \in Links}

PiecesOf(d) ==
  IF dirs[d] = <<>> THEN {}
  ELSE {Piece(Start(d), Entries(dirs[d]), d, "entries", 0)}
       \cup {Piece(DataOffset(dirs[d], Start(d), i), Written(dirs[d][i]), d,
                   "data", dirs[d][i].code) : i \in LargeOf(dirs[d])}

SaysOf(d) ==
  IF dirs[d] = <<>> THEN {}
  ELSE {Said(d, Start(d), i) : i \in LargeOf(dirs[d]) \cup LinksOf(d)}

\* The images are whole, what else is written is before the stream's position,
\* and the directories written so far are there, piece for piece.
LateRight ==
  /\ Placed
  /\ StripDone("main") /\ StripDone("raw")
  /\ \A p \in file : IF p.part = "rows" THEN Room <= p.at
                     ELSE p.at + p.size <= Start(filePc)
  /\ filePc # "header" => position = Start(filePc) /\ Header \in file
  /\ \A d \in Before(filePc) : PiecesOf(d) \subseteq file
  /\ says = UNION {SaysOf(d) : d \in Before(filePc)}

\* The inductive invariant. NothingOverlaps is a part of it because a row can
\* only be found where it was written when nothing is written over it; the
\* parts that go with a step say what each step relies on from the earlier
\* ones.
FileInv ==
  /\ FileTypes
  /\ NothingOverlaps
  /\ IF filePc = "failed" THEN RowsInPlace ELSE TagsRight
  /\ filePc \in Early => EarlyRight
  /\ filePc \in Imaging => ImagingRight
  /\ filePc \in Late => LateRight

\* The codes of the links.
Constants ==
  /\ StripOffsets = 273 /\ StripByteCounts = 279 /\ SubIFDs = 330
  /\ ExifIFD = 34665 /\ GPSInfo = 34853

\* The codes are what TIFF says, by definition.
LEMMA ConstantsAre == Constants
BY DEF Constants, StripOffsets, StripByteCounts, SubIFDs, ExifIFD, GPSInfo

\* A link is a tag.
LEMMA LinkIsTag ==
  ASSUME NEW c \in LinkCodes
  PROVE  Link(c) \in Tags /\ Link(c).code = c
<1>1. c \in Nat
  BY ConstantsAre DEF LinkCodes, Constants
<1> QED
  BY <1>1 DEF Link, Tag, Tags, Kinds

\* So is any other, and its code is not that of a link.
LEMMA OtherIsTag ==
  ASSUME NEW c \in OtherCodes, NEW k \in Kinds, NEW n \in Lengths
  PROVE  /\ Tag(c, k, n) \in Tags /\ Tag(c, k, n).code = c
         /\ c \notin LinkCodes
BY DNGFileAssumption DEF DNGFileAssumption, Tag, Tags

\* The invariant holds at first.
LEMMA FileInitRight == FileInit => FileInv
<1> SUFFICES ASSUME FileInit
             PROVE  FileInv
  OBVIOUS
<1> USE DEF FileInit, FileFresh
<1>1. Link(StripOffsets) \in Tags /\ Link(StripByteCounts) \in Tags
      /\ Link(StripOffsets).code = StripOffsets
      /\ Link(StripByteCounts).code = StripByteCounts
  BY LinkIsTag DEF LinkCodes
<1> DEFINE two == <<Link(StripOffsets), Link(StripByteCounts)>>
<1>2. two \in Seq(Tags) /\ DOMAIN two = 1..2
      /\ two[1] = Link(StripOffsets) /\ two[2] = Link(StripByteCounts)
  BY <1>1
<1>3. Sorted(two) /\ Codes(two) = StripCodes
  <2>1. \A i \in 1..2 : i = 1 \/ i = 2
    OBVIOUS
  <2>2. Codes(two) = {two[i].code : i \in 1..2}
    BY <1>2 DEF Codes
  <2>3. two[1].code = 273 /\ two[2].code = 279
    BY <1>1, <1>2, ConstantsAre DEF Constants
  <2> HIDE DEF two
  <2>4. Sorted(two)
    BY <1>2, <2>1, <2>3 DEF Sorted
  <2>5. 1 \in 1..2 /\ 2 \in 1..2
    OBVIOUS
  <2>6. Codes(two) = {273, 279}
    BY <2>1, <2>2, <2>3, <2>5
  <2> QED
    BY <2>4, <2>6, ConstantsAre DEF Constants, StripCodes
<1>4. /\ <<>> \in Seq(Tags) /\ Sorted(<<>>) /\ Codes(<<>>) = {}
  BY DEF Sorted, Codes
<1> HIDE DEF two
<1>5. \A d \in Directories : dirs[d] = IF d \notin Images THEN <<>> ELSE two
  BY DEF two
<1>6. dirs["main"] = two /\ dirs["raw"] = two /\ dirs["exif"] = <<>>
      /\ dirs["gps"] = <<>>
  BY <1>5 DEF Directories, Images
<1>7. dirs \in [Directories -> Seq(Tags)]
  BY <1>2, <1>4, <1>5
<1>8. /\ height \in [Images -> Nat \ {0}] /\ fit \in [Images -> Nat]
  BY DNGFileAssumption DEF DNGFileAssumption
<1>9. FileTypes
  BY <1>7, <1>8 DEF FileTypes, Early, Images
<1>10. TagsRight
  <2>1. \A d \in Directories : Sorted(dirs[d])
    BY <1>3, <1>4, <1>5
  <2>2. StripCodes \subseteq LinkCodes
    BY DEF StripCodes, LinkCodes
  <2>3. MainLinks(filePc) = {}
    BY DEF MainLinks
  <2> QED
    BY <2>1, <2>2, <2>3, <1>3, <1>4, <1>6 DEF TagsRight
<1> QED
  BY <1>9, <1>10
  DEF FileInv, NothingOverlaps, EarlyRight, Early, Imaging, Late

\* Adding a tag that is no link keeps the invariant.
LEMMA AddTagRight ==
  ASSUME FileInv, NEW d \in Directories, NEW c \in OtherCodes,
         NEW k \in Kinds, NEW n \in Lengths, AddTag(d, Tag(c, k, n))
  PROVE  FileInv'
<1> DEFINE tag == Tag(c, k, n)
<1>1. tag \in Tags /\ tag.code = c /\ c \notin LinkCodes
  BY OtherIsTag
<1> HIDE DEF tag
<1>2. /\ filePc = "tags" \/ (filePc = "more" /\ d \in Images)
      /\ tag.code \notin Codes(dirs[d])
      /\ dirs' = [dirs EXCEPT ![d] = Add(dirs[d], tag)]
      /\ UNCHANGED <<height, fit, filePc, value, position, file, says, image, row>>
  BY DEF AddTag, fileInputs, tag
<1>3. FileTypes /\ NothingOverlaps /\ TagsRight /\ EarlyRight
  BY <1>2 DEF FileInv, Early
<1>4. dirs[d] \in Seq(Tags) /\ Sorted(dirs[d])
  BY <1>3 DEF FileTypes, TagsRight
<1>5. /\ Add(dirs[d], tag) \in Seq(Tags) /\ Sorted(Add(dirs[d], tag))
      /\ Codes(Add(dirs[d], tag)) = Codes(dirs[d]) \cup {tag.code}
  BY <1>1, <1>2, <1>4, AddKeepsOrder
<1>6. \A e \in Directories : dirs'[e] = IF e = d THEN Add(dirs[d], tag) ELSE dirs[e]
  BY <1>2, <1>3 DEF FileTypes
<1>7. FileTypes'
  <2>1. dirs' \in [Directories -> Seq(Tags)]
    BY <1>2, <1>3, <1>5 DEF FileTypes
  <2> QED
    BY <2>1, <1>2, <1>3 DEF FileTypes
<1>8. TagsRight'
  <2>1. \A e \in Directories : Sorted(dirs'[e])
    BY <1>3, <1>5, <1>6 DEF TagsRight
  <2>2. \A e \in Directories : Codes(dirs'[e]) \cap LinkCodes = Codes(dirs[e]) \cap LinkCodes
    BY <1>1, <1>5, <1>6
  <2>3. MainLinks(filePc') = MainLinks(filePc) /\ MainLinks(filePc)' = MainLinks(filePc)
    <3>1. CASE filePc = "tags"
      BY <3>1, <1>2 DEF MainLinks
    <3>2. CASE filePc = "more" /\ d \in Images
      <4>1. dirs'["exif"] = dirs["exif"] /\ dirs'["gps"] = dirs["gps"]
        BY <3>2, <1>6 DEF Images, Directories
      <4>2. IfAny("exif", ExifIFD)' = IfAny("exif", ExifIFD)
            /\ IfAny("gps", GPSInfo)' = IfAny("gps", GPSInfo)
        BY <4>1 DEF IfAny
      <4> QED
        BY <4>2, <1>2 DEF MainLinks
    <3> QED
      BY <1>2, <3>1, <3>2
  <2>4. "main" \in Directories /\ "raw" \in Directories
        /\ "exif" \in Directories /\ "gps" \in Directories
    BY DEF Directories
  <2> QED
    BY <1>3, <2>1, <2>2, <2>3, <2>4 DEF TagsRight
<1>9. NothingOverlaps' /\ EarlyRight'
  BY <1>2, <1>3 DEF NothingOverlaps, EarlyRight
<1> QED
  BY <1>2, <1>7, <1>8, <1>9 DEF FileInv, Early, Imaging, Late

\* Adding one link to a directory.
LEMMA AddLinkIs ==
  ASSUME NEW dir \in Seq(Tags), Sorted(dir), NEW c \in LinkCodes,
         c \notin Codes(dir)
  PROVE  /\ Add(dir, Link(c)) \in Seq(Tags) /\ Sorted(Add(dir, Link(c)))
         /\ Codes(Add(dir, Link(c))) = Codes(dir) \cup {c}
<1>1. Link(c) \in Tags /\ Link(c).code = c
  BY LinkIsTag
<1> QED
  BY <1>1, AddKeepsOrder

\* Adding the links to the EXIF and the GPS directory keeps the invariant.
LEMMA AddLinksRight ==
  ASSUME FileInv, AddLinks
  PROVE  FileInv'
<1> DEFINE old  == dirs["main"]
           exif == IF dirs["exif"] = <<>> THEN old ELSE Add(old, Link(ExifIFD))
           gps  == IF dirs["gps"] = <<>> THEN exif ELSE Add(exif, Link(GPSInfo))
<1>1. /\ filePc = "tags" /\ filePc' = "more"
      /\ dirs' = [dirs EXCEPT !["main"] = gps]
      /\ UNCHANGED <<height, fit, value, position, file, says, image, row>>
  BY DEF AddLinks, fileInputs, Goto
<1>2. FileTypes /\ NothingOverlaps /\ TagsRight /\ EarlyRight
  BY <1>1 DEF FileInv, Early
<1>3. old \in Seq(Tags) /\ Sorted(old)
      /\ Codes(old) \cap LinkCodes = StripCodes
  BY <1>1, <1>2 DEF FileTypes, TagsRight, Directories, MainLinks
<1>4. /\ ExifIFD \in LinkCodes /\ GPSInfo \in LinkCodes
      /\ ExifIFD \notin StripCodes /\ GPSInfo \notin StripCodes
      /\ ExifIFD # GPSInfo
  BY ConstantsAre DEF Constants, LinkCodes, StripCodes
<1>5. /\ exif \in Seq(Tags) /\ Sorted(exif)
      /\ Codes(exif) = Codes(old) \cup IfAny("exif", ExifIFD)
  <2>1. CASE dirs["exif"] = <<>>
    BY <1>3, <2>1 DEF IfAny
  <2>2. CASE dirs["exif"] # <<>>
    <3>1. ExifIFD \notin Codes(old)
      BY <1>3, <1>4
    <3> HIDE DEF old
    <3> QED
      BY <1>3, <1>4, <2>2, <3>1, AddLinkIs DEF IfAny
  <2> QED
    BY <2>1, <2>2
<1>6. /\ gps \in Seq(Tags) /\ Sorted(gps)
      /\ Codes(gps) = Codes(exif) \cup IfAny("gps", GPSInfo)
  <2>1. CASE dirs["gps"] = <<>>
    BY <1>5, <2>1 DEF IfAny
  <2>2. CASE dirs["gps"] # <<>>
    <3>1. GPSInfo \notin Codes(exif)
      BY <1>3, <1>4, <1>5 DEF IfAny
    <3> HIDE DEF old, exif
    <3> QED
      BY <1>5, <1>4, <2>2, <3>1, AddLinkIs DEF IfAny
  <2> QED
    BY <2>1, <2>2
<1> HIDE DEF gps, exif, old
<1>7. dirs' \in [Directories -> Seq(Tags)] /\ dirs'["main"] = gps
      /\ \A e \in Directories \ {"main"} : dirs'[e] = dirs[e]
  BY <1>1, <1>2, <1>6 DEF FileTypes, Directories
<1>8. "main" \in Directories /\ "raw" \in Directories
      /\ "exif" \in Directories /\ "gps" \in Directories
  BY DEF Directories
<1>9. TagsRight'
  <2>1. \A e \in Directories : Sorted(dirs'[e])
    BY <1>2, <1>6, <1>7 DEF TagsRight
  <2>2. MainLinks(filePc)' = IfAny("exif", ExifIFD) \cup IfAny("gps", GPSInfo)
    BY <1>1, <1>7, <1>8 DEF MainLinks, IfAny
  <2>3. Codes(gps) \cap LinkCodes = StripCodes \cup MainLinks(filePc)'
    BY <2>2, <1>3, <1>4, <1>5, <1>6 DEF IfAny
  <2> QED
    BY <1>2, <1>7, <1>8, <2>1, <2>3 DEF TagsRight
<1>10. FileTypes'
  BY <1>1, <1>2, <1>7 DEF FileTypes, Early
<1>11. NothingOverlaps' /\ EarlyRight'
  BY <1>1, <1>2 DEF NothingOverlaps, EarlyRight
<1> QED
  BY <1>1, <1>9, <1>10, <1>11 DEF FileInv, Early, Imaging, Late

\* Adding the link to the raw directory keeps the invariant.
LEMMA AddSubIFDsRight ==
  ASSUME FileInv, AddSubIFDs
  PROVE  FileInv'
<1> DEFINE old == dirs["main"]
           new == Add(old, Link(SubIFDs))
<1>1. /\ filePc = "more" /\ filePc' = "layout"
      /\ dirs' = [dirs EXCEPT !["main"] = new]
      /\ UNCHANGED <<height, fit, value, position, file, says, image, row>>
  BY DEF AddSubIFDs, fileInputs, Goto
<1>2. FileTypes /\ NothingOverlaps /\ TagsRight /\ EarlyRight
  BY <1>1 DEF FileInv, Early
<1>3. old \in Seq(Tags) /\ Sorted(old)
      /\ Codes(old) \cap LinkCodes
           = StripCodes \cup IfAny("exif", ExifIFD) \cup IfAny("gps", GPSInfo)
  BY <1>1, <1>2 DEF FileTypes, TagsRight, Directories, MainLinks
<1>4. /\ SubIFDs \in LinkCodes /\ SubIFDs \notin StripCodes
      /\ SubIFDs # ExifIFD /\ SubIFDs # GPSInfo
  BY ConstantsAre DEF Constants, LinkCodes, StripCodes
<1>5. SubIFDs \notin Codes(old)
  BY <1>3, <1>4 DEF IfAny
<1> HIDE DEF old
<1>6. new \in Seq(Tags) /\ Sorted(new) /\ Codes(new) = Codes(old) \cup {SubIFDs}
  BY <1>3, <1>4, <1>5, AddLinkIs
<1> HIDE DEF new
<1>7. dirs' \in [Directories -> Seq(Tags)] /\ dirs'["main"] = new
      /\ \A e \in Directories \ {"main"} : dirs'[e] = dirs[e]
  BY <1>1, <1>2, <1>6 DEF FileTypes, Directories
<1>8. "main" \in Directories /\ "raw" \in Directories
      /\ "exif" \in Directories /\ "gps" \in Directories
  BY DEF Directories
<1>9. TagsRight'
  <2>1. \A e \in Directories : Sorted(dirs'[e])
    BY <1>2, <1>6, <1>7 DEF TagsRight
  <2>2. MainLinks(filePc)' = {SubIFDs} \cup IfAny("exif", ExifIFD) \cup IfAny("gps", GPSInfo)
    BY <1>1, <1>7, <1>8 DEF MainLinks, IfAny
  <2>3. Codes(new) \cap LinkCodes = StripCodes \cup MainLinks(filePc)'
    BY <2>2, <1>3, <1>4, <1>6
  <2> QED
    BY <1>2, <1>7, <1>8, <2>1, <2>3 DEF TagsRight
<1>10. FileTypes'
  BY <1>1, <1>2, <1>7 DEF FileTypes, Early
<1>11. NothingOverlaps' /\ EarlyRight'
  BY <1>1, <1>2 DEF NothingOverlaps, EarlyRight
<1> QED
  BY <1>1, <1>9, <1>10, <1>11 DEF FileInv, Early, Imaging, Late

\* The tags are as they were: none of the later steps adds one.
LEMMA TagsKept ==
  ASSUME TagsRight, dirs' = dirs,
         filePc \notin {"tags", "more"}, filePc' \notin {"tags", "more"}
  PROVE  TagsRight'
<1>1. MainLinks(filePc)' = MainLinks(filePc)
  BY DEF MainLinks, IfAny
<1> QED
  BY <1>1 DEF TagsRight

\* The rooms of the directories follow each other, each at an even offset.
LEMMA RoomsAre ==
  ASSUME FileTypes
  PROVE  /\ \A d \in Directories :
              /\ DirectorySize(dirs[d]) \in Nat /\ DirectorySize(dirs[d]) % 2 = 0
              /\ BytesPut(dirs[d]) = DirectorySize(dirs[d])
         /\ RawAt \in Nat /\ ExifAt \in Nat /\ GPSAt \in Nat /\ Room \in Nat
         /\ RawAt % 2 = 0 /\ ExifAt % 2 = 0 /\ GPSAt % 2 = 0 /\ Room % 2 = 0
         /\ 8 <= RawAt /\ RawAt <= ExifAt /\ ExifAt <= GPSAt /\ GPSAt <= Room
<1>1. \A d \in Directories :
         /\ DirectorySize(dirs[d]) \in Nat /\ DirectorySize(dirs[d]) % 2 = 0
         /\ BytesPut(dirs[d]) = DirectorySize(dirs[d])
  <2>1. \A d \in Directories : dirs[d] \in Seq(Tags)
    BY DEF FileTypes
  <2> QED
    BY <2>1, SizesAgree
<1>2. "main" \in Directories /\ "raw" \in Directories
      /\ "exif" \in Directories /\ "gps" \in Directories
  BY DEF Directories
<1>3. RawAt \in Nat /\ RawAt % 2 = 0 /\ 8 <= RawAt
  BY <1>1, <1>2 DEF RawAt
<1>4. ExifAt \in Nat /\ ExifAt % 2 = 0 /\ RawAt <= ExifAt
  BY <1>1, <1>2, <1>3 DEF ExifAt
<1>5. GPSAt \in Nat /\ GPSAt % 2 = 0 /\ ExifAt <= GPSAt
  BY <1>1, <1>2, <1>4 DEF GPSAt
<1>6. Room \in Nat /\ Room % 2 = 0 /\ GPSAt <= Room
  BY <1>1, <1>2, <1>5 DEF Room
<1> QED
  BY <1>1, <1>3, <1>4, <1>5, <1>6

\* They stay where they are as long as no tag is added.
LEMMA RoomsKept ==
  ASSUME dirs' = dirs
  PROVE  RawAt' = RawAt /\ ExifAt' = ExifAt /\ GPSAt' = GPSAt /\ Room' = Room
BY DEF RawAt, ExifAt, GPSAt, Room

\* The links that have a value of their own.
LEMMA LinksAre ==
  /\ <<"main", SubIFDs>> \in Links /\ <<"main", ExifIFD>> \in Links
  /\ <<"main", GPSInfo>> \in Links
  /\ \A i \in Images : <<i, StripOffsets>> \in Links
                       /\ <<i, StripByteCounts>> \in Links
  /\ <<"main", SubIFDs>> # <<"main", ExifIFD>>
  /\ <<"main", SubIFDs>> # <<"main", GPSInfo>>
  /\ <<"main", ExifIFD>> # <<"main", GPSInfo>>
  /\ \A i, j \in Images :
       /\ <<i, StripOffsets>> # <<j, StripByteCounts>>
       /\ <<i, StripOffsets>> # <<"main", SubIFDs>>
       /\ <<i, StripOffsets>> # <<"main", ExifIFD>>
       /\ <<i, StripOffsets>> # <<"main", GPSInfo>>
       /\ <<i, StripByteCounts>> # <<"main", SubIFDs>>
       /\ <<i, StripByteCounts>> # <<"main", ExifIFD>>
       /\ <<i, StripByteCounts>> # <<"main", GPSInfo>>
BY ConstantsAre DEF Constants, Links

\* Layout() keeps the invariant: the links to the directories are where the
\* writer will put them.
LEMMA LayoutRight ==
  ASSUME FileInv, Layout
  PROVE  FileInv'
<1>1. /\ filePc = "layout" /\ filePc' = "strip"
      /\ value' = [value EXCEPT ![<<"main", SubIFDs>>] = RawAt,
                                ![<<"main", ExifIFD>>] = ExifAt,
                                ![<<"main", GPSInfo>>] = GPSAt]
      /\ position' = Room
      /\ UNCHANGED <<height, fit, dirs, adds, file, says, image, row>>
  BY DEF Layout, fileInputs, Goto, RawAt, ExifAt, GPSAt, Room, GPSOffset
<1>2. FileTypes /\ NothingOverlaps /\ TagsRight /\ EarlyRight
  BY <1>1 DEF FileInv, Early
<1>3. /\ RawAt \in Nat /\ ExifAt \in Nat /\ GPSAt \in Nat /\ Room \in Nat
      /\ Room % 2 = 0
  BY <1>2, RoomsAre
<1>4. RawAt' = RawAt /\ ExifAt' = ExifAt /\ GPSAt' = GPSAt /\ Room' = Room
  BY <1>1, RoomsKept
<1>5. value' \in [Links -> Nat] /\ Placed'
  BY <1>1, <1>2, <1>3, <1>4, LinksAre DEF FileTypes, Placed
<1>6. TagsRight'
  BY <1>1, <1>2, TagsKept
<1>7. FileTypes'
  BY <1>1, <1>2, <1>3, <1>5 DEF FileTypes, Imaging
<1>8. NothingOverlaps'
  BY <1>1, <1>2 DEF NothingOverlaps
<1>9. ImagingRight'
  BY <1>1, <1>2, <1>3, <1>4, <1>5 DEF ImagingRight, EarlyRight
<1> QED
  BY <1>1, <1>6, <1>7, <1>8, <1>9 DEF FileInv, Early, Imaging, Late

\* A 32-bit word holds a number that is below the limit.
LEMMA WordIs ==
  ASSUME NEW n \in Int
  PROVE  Word32(n) \in Nat /\ (0 <= n /\ n < Limit => Word32(n) = n)
<1>1. Limit \in Nat \ {0}
  BY DNGFileAssumption DEF DNGFileAssumption
<1> QED
  BY <1>1 DEF Word32

\* Writing more, at other links, leaves a strip where it is.
LEMMA StripBegunKept ==
  ASSUME NEW i, NEW n, StripBegun(i, n), file \subseteq file',
         value'[<<i, StripOffsets>>] = value[<<i, StripOffsets>>]
  PROVE  StripBegun(i, n)'
<1> DEFINE from == value[<<i, StripOffsets>>]
<1>1. /\ from % 2 = 0
      /\ \A r \in 0..n - 1 : RowThere(i, from, r)
      /\ n > 0 => Holds(from, [dir |-> i, part |-> "rows", n |-> 0])
  BY DEF StripBegun
<1>2. from' = from
  OBVIOUS
<1> HIDE DEF from
<1>3. \A r \in 0..n - 1 : RowThere(i, from, r)'
  BY <1>1, <1>2 DEF RowThere
<1>4. n > 0 => Holds(from, [dir |-> i, part |-> "rows", n |-> 0])'
  BY <1>1, <1>2 DEF Holds
<1> QED
  BY <1>1, <1>2, <1>3, <1>4 DEF StripBegun, from

\* The same for a whole strip.
LEMMA StripDoneKept ==
  ASSUME NEW i, StripDone(i), file \subseteq file', height' = height,
         value'[<<i, StripOffsets>>] = value[<<i, StripOffsets>>],
         value'[<<i, StripByteCounts>>] = value[<<i, StripByteCounts>>]
  PROVE  StripDone(i)'
<1>1. StripBegun(i, height[i])
  BY DEF StripDone
<1>2. \A n : StripBegun(i, n) => StripBegun(i, n)'
  BY StripBegunKept
<1> QED
  BY <1>1, <1>2 DEF StripDone

\* Noting the offset of a strip keeps the invariant.
LEMMA BeginStripRight ==
  ASSUME FileInv, BeginStrip
  PROVE  FileInv'
<1>1. /\ filePc = "strip" /\ filePc' = "rows" /\ row' = 0
      /\ value' = [value EXCEPT ![<<image, StripOffsets>>] = Word32(position)]
      /\ UNCHANGED <<height, fit, dirs, adds, position, file, says, image>>
  BY DEF BeginStrip, fileInputs, Goto
<1>2. FileTypes /\ NothingOverlaps /\ TagsRight /\ ImagingRight
  BY <1>1 DEF FileInv, Imaging
<1>3. image \in Images /\ position \in Nat /\ height[image] \in Nat
      /\ value \in [Links -> Nat] /\ RowBytes[image] \in Nat
  BY <1>2, DNGFileAssumption DEF FileTypes, DNGFileAssumption
<1>4. Word32(position) \in Nat /\ (position < Limit => Word32(position) = position)
  BY <1>3, WordIs
<1>5. /\ value' \in [Links -> Nat]
      /\ value'[<<image, StripOffsets>>] = Word32(position)
      /\ \A l \in Links : l # <<image, StripOffsets>> => value'[l] = value[l]
  BY <1>1, <1>3, <1>4, LinksAre
<1>6. Placed'
  <2>1. Placed
    BY <1>2 DEF ImagingRight
  <2>2. RawAt' = RawAt /\ ExifAt' = ExifAt /\ GPSAt' = GPSAt
    BY <1>1, RoomsKept
  <2> QED
    BY <2>1, <2>2, <1>3, <1>5, LinksAre DEF Placed
<1>7. FileTypes'
  BY <1>1, <1>2, <1>5 DEF FileTypes, Imaging
<1>8. TagsRight'
  BY <1>1, <1>2, TagsKept
<1>9. NothingOverlaps'
  BY <1>1, <1>2 DEF NothingOverlaps
<1>10. ASSUME position < Limit
       PROVE  /\ image = "raw" => StripDone("main")'
              /\ StripBegun(image, row)'
              /\ position = value'[<<image, StripOffsets>>]
                              + row' * RowBytes[image]
  <2>1. position % 2 = 0 /\ (image = "raw" => StripDone("main"))
    BY <1>1, <1>2, <1>10 DEF ImagingRight
  <2>2. value'[<<image, StripOffsets>>] = position
    BY <1>4, <1>5, <1>10
  <2>3. position = position + 0 * RowBytes[image]
    BY <1>3
  <2>4. StripBegun(image, row)'
    BY <1>1, <2>1, <2>2 DEF StripBegun
  <2>5. ASSUME image = "raw"
        PROVE  StripDone("main")'
    <3>1. "main" \in Images
      BY DEF Images
    <3>2. <<"main", StripOffsets>> # <<image, StripOffsets>>
      BY <2>5
    <3>3. /\ value'[<<"main", StripOffsets>>] = value[<<"main", StripOffsets>>]
          /\ value'[<<"main", StripByteCounts>>] = value[<<"main", StripByteCounts>>]
      BY <3>1, <3>2, <1>3, <1>5, LinksAre
    <3>4. file \subseteq file'
      BY <1>1
    <3> QED
      BY <1>1, <2>1, <2>5, <3>3, <3>4, StripDoneKept
  <2> QED
    BY <1>1, <2>2, <2>3, <2>4, <2>5
<1>11. ImagingRight'
  <2>1. Room' = Room
    BY <1>1, RoomsKept
  <2> QED
    BY <2>1, <1>1, <1>2, <1>3, <1>6, <1>10 DEF ImagingRight
<1> QED
  BY <1>1, <1>7, <1>8, <1>9, <1>11 DEF FileInv, Early, Imaging, Late

\* Products of differences and sums.
LEMMA Distributes ==
  ASSUME NEW a \in Int, NEW b \in Int, NEW c \in Int
  PROVE  (a - b) * c = a * c - b * c /\ (a + b) * c = a * c + b * c
OBVIOUS

\* Products of natural numbers grow with their factors.
LEMMA TimesGrows ==
  ASSUME NEW a \in Nat, NEW b \in Nat, NEW c \in Nat, a <= b
  PROVE  a * c <= b * c
<1>1. b = a + (b - a) /\ b - a \in Nat
  OBVIOUS
<1>2. b * c = a * c + (b - a) * c
  BY <1>1
<1>3. (b - a) * c \in Nat /\ a * c \in Nat /\ b * c \in Nat
  BY <1>1
<1> QED
  BY <1>2, <1>3

\* A sub-tile has a row at least and ends within the image.
LEMMA SubTileIs ==
  ASSUME FileTypes, row < height[image]
  PROVE  /\ SubTileEnd \in Nat /\ row < SubTileEnd /\ SubTileEnd <= height[image]
<1>1. image \in Images /\ row \in Nat /\ height[image] \in Nat
      /\ fit[image] \in Nat
  BY DEF FileTypes
<1>2. SubTileLength \in Nat /\ 1 <= SubTileLength
  BY <1>1 DEF SubTileLength
<1> QED
  BY <1>1, <1>2 DEF SubTileEnd

\* Writing a sub-tile keeps the invariant: its rows follow the rows before.
LEMMA WriteSubTileRight ==
  ASSUME FileInv, WriteSubTile
  PROVE  FileInv'
<1> DEFINE end == SubTileEnd
           bytes == (end - row) * RowBytes[image]
           new == Piece(position, bytes, image, "rows", row)
           from == value[<<image, StripOffsets>>]
           RB == RowBytes[image]
<1>1. /\ filePc = "rows" /\ row < height[image] /\ filePc' = filePc
      /\ file' = file \cup {new} /\ position' = position + bytes
      /\ row' = end
      /\ UNCHANGED <<height, fit, dirs, adds, value, says, image>>
  BY DEF WriteSubTile, fileInputs
<1>2. FileTypes /\ NothingOverlaps /\ TagsRight /\ ImagingRight
  BY <1>1 DEF FileInv, Imaging
<1>3. end \in Nat /\ row < end /\ end <= height[image]
  BY <1>1, <1>2, SubTileIs
<1>4. image \in Images /\ position \in Nat /\ row \in Nat
      /\ RB \in Nat /\ RB # 0 /\ from \in Nat
  BY <1>2, DNGFileAssumption, LinksAre DEF FileTypes, DNGFileAssumption
<1> HIDE DEF end, RB, from
<1>5. bytes \in Nat /\ bytes = end * RB - row * RB
      /\ end * RB \in Nat /\ row * RB \in Nat
  <2>1. end - row \in Nat
    BY <1>3, <1>4
  <2> QED
    BY <2>1, <1>3, <1>4, Distributes DEF RB
<1> HIDE DEF bytes
<1>6. new \in Pieces /\ new.at = position /\ new.size = bytes
      /\ new.dir = image /\ new.part = "rows" /\ new.n = row
  BY <1>4, <1>5 DEF Pieces, Piece, Images, Directories
<1> HIDE DEF new
<1>7. /\ Room \in Nat /\ Room <= position
      /\ \A p \in file : /\ p \in Pieces /\ p.at \in Nat /\ p.size \in Nat
                         /\ p.part = "rows" /\ Room <= p.at
                         /\ p.at + p.size <= position
  <2>1. Room \in Nat
    BY <1>2, RoomsAre
  <2>2. \A p \in file : p \in Pieces /\ p.at \in Nat /\ p.size \in Nat
    BY <1>2 DEF FileTypes, Pieces
  <2> QED
    BY <2>1, <2>2, <1>2 DEF ImagingRight
<1>8. FileTypes'
  <2>1. position' \in Nat /\ row' \in Nat
    BY <1>1, <1>3, <1>4, <1>5
  <2>2. file' \subseteq Pieces
    BY <1>1, <1>2, <1>6 DEF FileTypes
  <2> QED
    BY <2>1, <2>2, <1>1, <1>2 DEF FileTypes
<1>9. TagsRight'
  BY <1>1, <1>2, TagsKept
<1>10. NothingOverlaps'
  <2>1. SUFFICES ASSUME NEW p \in file', NEW q \in file', p # q
                 PROVE  p.at + p.size <= q.at \/ q.at + q.size <= p.at
    BY DEF NothingOverlaps
  <2>2. CASE p \in file /\ q \in file
    BY <2>1, <2>2, <1>2 DEF NothingOverlaps
  <2>3. CASE p = new
    <3>1. q \in file
      BY <2>1, <2>3, <1>1
    <3> QED
      BY <3>1, <2>3, <1>6, <1>7
  <2>4. CASE q = new
    <3>1. p \in file
      BY <2>1, <2>4, <1>1
    <3> QED
      BY <3>1, <2>4, <1>6, <1>7
  <2> QED
    BY <2>2, <2>3, <2>4, <1>1
<1>11. Placed' /\ Room' = Room
  <2>1. Placed
    BY <1>2 DEF ImagingRight
  <2>2. RawAt' = RawAt /\ ExifAt' = ExifAt /\ GPSAt' = GPSAt /\ Room' = Room
    BY <1>1, RoomsKept
  <2> QED
    BY <2>1, <2>2, <1>1 DEF Placed
<1>12. /\ Room <= position'
       /\ \A p \in file' : /\ p.part = "rows" /\ Room <= p.at
                           /\ p.at + p.size <= position'
  BY <1>1, <1>4, <1>5, <1>6, <1>7
<1>13. ASSUME position' < Limit
       PROVE  /\ image = "raw" => StripDone("main")'
              /\ StripBegun(image, row)'
              /\ position' = from + end * RB
  <2>1. position < Limit
    BY <1>1, <1>4, <1>5, <1>13, DNGFileAssumption DEF DNGFileAssumption
  <2>2. /\ image = "raw" => StripDone("main")
        /\ StripBegun(image, row)
        /\ position = from + row * RB
    BY <1>1, <1>2, <2>1 DEF ImagingRight, from, RB
  <2>3. position' = from + end * RB
    BY <1>1, <1>4, <1>5, <2>2
  <2>4. image = "raw" => StripDone("main")'
    BY <1>1, <2>2, StripDoneKept
  <2>5. ASSUME NEW r \in 0..end - 1
        PROVE  RowThere(image, from, r)'
    <3>1. CASE r < row
      <4>1. RowThere(image, from, r)
        BY <2>2, <1>4, <3>1 DEF StripBegun, from
      <4> QED
        BY <4>1, <1>1 DEF RowThere, from
    <3>2. CASE r >= row
      <4>1. r \in Nat /\ r - row \in Nat /\ (r - row) + 1 <= end - row
            /\ (r - row) + 1 \in Nat /\ end - row \in Nat
        BY <1>3, <1>4, <3>2
      <4>2. from + r * RB = new.at + (r - new.n) * RB
        <5>1. (r - row) * RB = r * RB - row * RB /\ r * RB \in Nat
          BY <1>4, <4>1, Distributes
        <5> QED
          BY <5>1, <1>4, <1>5, <1>6, <2>2
      <4>3. (r - new.n + 1) * RB <= new.size
        BY <4>1, <1>4, <1>6, TimesGrows DEF bytes, RB
      <4>4. new \in file' /\ r >= new.n
        BY <1>1, <1>6, <3>2
      <4> QED
        BY <4>2, <4>3, <4>4, <1>1, <1>6 DEF RowThere, RB, from
    <3> QED
      BY <3>1, <3>2, <1>4
  <2>6. Holds(from, [dir |-> image, part |-> "rows", n |-> 0])'
    <3>1. CASE row = 0
      <4>1. new.at = from /\ new.n = 0
        BY <1>4, <1>6, <2>2, <3>1
      <4> QED
        BY <4>1, <1>1, <1>6 DEF Holds, from
    <3>2. CASE row # 0
      <4>1. Holds(from, [dir |-> image, part |-> "rows", n |-> 0])
        BY <1>4, <2>2, <3>2 DEF StripBegun, from
      <4> QED
        BY <4>1, <1>1 DEF Holds, from
    <3> QED
      BY <3>1, <3>2
  <2>7. from % 2 = 0
    BY <2>2 DEF StripBegun, from
  <2>8. from' = from /\ from = value'[<<image', StripOffsets>>]
    BY <1>1 DEF from
  <2>9. StripBegun(image, row)'
    <3>1. \A r \in 0..row' - 1 : RowThere(image, from, r)'
      BY <2>5, <1>1
    <3> QED
      BY <3>1, <2>6, <2>7, <2>8, <1>1 DEF StripBegun, from
  <2> QED
    BY <2>3, <2>4, <2>9
<1>14. ImagingRight'
  <2>1. says' = {} /\ row' <= height'[image']
    BY <1>1, <1>2, <1>3 DEF ImagingRight
  <2>2. position' < Limit =>
          /\ image' = "raw" => StripDone("main")'
          /\ StripBegun(image, row)'
          /\ position' = value'[<<image', StripOffsets>>]
                           + row' * RowBytes[image']
    BY <1>1, <1>13 DEF from, RB
  <2> QED
    BY <2>1, <2>2, <1>1, <1>11, <1>12 DEF ImagingRight
<1> QED
  BY <1>1, <1>8, <1>9, <1>10, <1>14 DEF FileInv, Early, Imaging, Late

\* Ending a strip keeps the invariant.
LEMMA EndStripRight ==
  ASSUME FileInv, EndStrip
  PROVE  FileInv'
<1> DEFINE from == value[<<image, StripOffsets>>]
           count == Word32(position - from)
           bytes == height[image] * RowBytes[image]
<1>1. /\ filePc = "rows" /\ row >= height[image]
      /\ value' = [value EXCEPT ![<<image, StripByteCounts>>] = count]
      /\ position' = position + (count % 2)
      /\ image' = "raw" /\ filePc' = AfterStrip
      /\ UNCHANGED <<height, fit, dirs, adds, file, says, row>>
  BY DEF EndStrip, fileInputs, Goto
<1>2. FileTypes /\ NothingOverlaps /\ TagsRight /\ ImagingRight
  BY <1>1 DEF FileInv, Imaging
<1>3. /\ image \in Images /\ position \in Nat /\ row \in Nat
      /\ height[image] \in Nat /\ from \in Nat /\ RowBytes[image] \in Nat
      /\ value \in [Links -> Nat]
  BY <1>2, DNGFileAssumption, LinksAre DEF FileTypes, DNGFileAssumption
<1>4. row = height[image]
  BY <1>1, <1>2, <1>3 DEF ImagingRight
<1>5. /\ count \in Nat
      /\ 0 <= position - from /\ position - from < Limit
           => count = position - from
  BY <1>3, WordIs
<1> HIDE DEF count
<1>6. /\ value' \in [Links -> Nat]
      /\ value'[<<image, StripByteCounts>>] = count
      /\ \A l \in Links : l # <<image, StripByteCounts>> => value'[l] = value[l]
  BY <1>1, <1>3, <1>5, LinksAre
<1>7. position' \in Nat /\ position <= position'
  BY <1>1, <1>3, <1>5
<1>8. filePc' \in {"strip", "trim"} /\ (filePc' = "trim" => image = "raw")
  BY <1>1, <1>3 DEF AfterStrip, Images
<1>9. FileTypes'
  BY <1>1, <1>2, <1>6, <1>7, <1>8 DEF FileTypes, Imaging, Images
<1>10. TagsRight'
  BY <1>1, <1>2, <1>8, TagsKept
<1>11. NothingOverlaps'
  BY <1>1, <1>2 DEF NothingOverlaps
<1>12. Placed' /\ Room' = Room
  <2>1. Placed
    BY <1>2 DEF ImagingRight
  <2>2. RawAt' = RawAt /\ ExifAt' = ExifAt /\ GPSAt' = GPSAt /\ Room' = Room
    BY <1>1, RoomsKept
  <2> QED
    BY <2>1, <2>2, <1>3, <1>6, LinksAre DEF Placed
<1>13. PICK i \in Images : i = image
  BY <1>3
<1>14. ASSUME position' < Limit
       PROVE  /\ position' % 2 = 0
              /\ StripDone(i)'
              /\ i = "raw" => StripDone("main")'
  <2>1. position < Limit /\ Limit \in Nat
    BY <1>3, <1>7, <1>14, DNGFileAssumption DEF DNGFileAssumption
  <2>2. /\ i = "raw" => StripDone("main")
        /\ StripBegun(i, height[i])
        /\ position = from + bytes
    BY <1>1, <1>2, <1>4, <1>13, <2>1 DEF ImagingRight
  <2>3. bytes \in Nat
    BY <1>3
  <2>4. from % 2 = 0
    BY <1>13, <2>2 DEF StripBegun
  <2> HIDE DEF bytes
  <2>5. count = bytes
    BY <1>3, <1>5, <2>1, <2>2, <2>3
  <2>6. position' % 2 = 0
    BY <1>1, <1>3, <2>2, <2>3, <2>4, <2>5
  <2>7. value'[<<i, StripOffsets>>] = value[<<i, StripOffsets>>]
    BY <1>6, <1>13, LinksAre
  <2>8. file \subseteq file' /\ height' = height
    BY <1>1
  <2>9. \A n : StripBegun(i, n) => StripBegun(i, n)'
    BY <2>7, <2>8, StripBegunKept
  <2>10. StripDone(i)'
    <3>1. value'[<<i, StripByteCounts>>] = height[i] * RowBytes[i]
      BY <1>6, <1>13, <2>5 DEF bytes
    <3> QED
      BY <2>2, <2>8, <2>9, <3>1 DEF StripDone
  <2>11. ASSUME i = "raw"
         PROVE  StripDone("main")'
    <3>1. "main" \in Images /\ "main" # i
      BY <2>11 DEF Images
    <3>2. <<"main", StripByteCounts>> # <<i, StripByteCounts>>
      BY <3>1
    <3>3. value'[<<"main", StripOffsets>>] = value[<<"main", StripOffsets>>]
          /\ value'[<<"main", StripByteCounts>>] = value[<<"main", StripByteCounts>>]
      BY <3>1, <3>2, <1>6, <1>13, LinksAre
    <3> QED
      BY <2>2, <2>8, <2>11, <3>3, StripDoneKept
  <2> QED
    BY <2>6, <2>10, <2>11
<1>15. ImagingRight'
  <2>1. says' = {} /\ Room' <= position'
    <3>1. Room \in Nat
      BY <1>2, RoomsAre
    <3> QED
      BY <3>1, <1>1, <1>2, <1>3, <1>7, <1>12 DEF ImagingRight
  <2>2. \A p \in file' : /\ p.part = "rows" /\ Room' <= p.at
                         /\ p.at + p.size <= position'
    <3>1. \A p \in file : p.at \in Nat /\ p.size \in Nat
      BY <1>2 DEF FileTypes, Pieces
    <3> QED
      BY <3>1, <1>1, <1>2, <1>3, <1>7, <1>12 DEF ImagingRight
  <2>3. i = "main" \/ i = "raw"
    BY <1>13 DEF Images
  <2>4. position' < Limit =>
          /\ filePc' \in {"strip", "trim"} => position' % 2 = 0
          /\ image' = "raw" => StripDone("main")'
          /\ filePc' = "trim" => StripDone("main")' /\ StripDone("raw")'
    BY <1>8, <1>13, <1>14, <2>3
  <2> QED
    BY <2>1, <2>2, <2>4, <1>8, <1>12 DEF ImagingRight
<1> QED
  BY <1>8, <1>9, <1>10, <1>11, <1>15 DEF FileInv, Early, Imaging, Late

\* Trimming the file keeps the invariant: only a file below the limit goes on.
LEMMA TrimRight ==
  ASSUME FileInv, Trim
  PROVE  FileInv'
<1>1. /\ filePc = "trim" /\ filePc' = "header" /\ position < Limit
      /\ UNCHANGED <<height, fit, dirs, value, position, file, says, image, row>>
  BY DEF Trim, fileInputs, Goto
<1>2. FileTypes /\ NothingOverlaps /\ TagsRight /\ ImagingRight
  BY <1>1 DEF FileInv, Imaging
<1>3. FileTypes' /\ NothingOverlaps'
  BY <1>1, <1>2 DEF FileTypes, NothingOverlaps, Late
<1>4. TagsRight'
  BY <1>1, <1>2, TagsKept
<1>5. Placed'
  <2>1. RawAt' = RawAt /\ ExifAt' = ExifAt /\ GPSAt' = GPSAt
    BY <1>1, RoomsKept
  <2> QED
    BY <2>1, <1>1, <1>2 DEF Placed, ImagingRight
<1>6. StripDone("main")' /\ StripDone("raw")'
  BY <1>1, <1>2, StripDoneKept DEF ImagingRight
<1>7. Before("header") = {}
  BY DEF Before
<1>8. Room' = Room
  BY <1>1, RoomsKept
<1>9. LateRight'
  BY <1>1, <1>2, <1>5, <1>6, <1>7, <1>8 DEF LateRight, ImagingRight, Before
<1> QED
  BY <1>1, <1>3, <1>4, <1>9 DEF FileInv, Early, Imaging, Late

\* Writing the header keeps the invariant.
LEMMA WriteHeaderRight ==
  ASSUME FileInv, WriteHeader
  PROVE  FileInv'
<1>1. /\ filePc = "header" /\ filePc' = "main"
      /\ file' = file \cup {Header} /\ position' = 8
      /\ UNCHANGED <<height, fit, dirs, value, says, image, row>>
  BY DEF WriteHeader, fileInputs, Goto
<1>2. FileTypes /\ NothingOverlaps /\ TagsRight /\ LateRight
  BY <1>1 DEF FileInv, Late
<1>3. Header \in Pieces /\ Header.at = 0 /\ Header.size = 8
      /\ Header.part = "header"
  BY DEF Header, Piece, Pieces, Directories
<1>4. /\ RawAt \in Nat /\ Room \in Nat /\ 8 <= Room
  BY <1>2, RoomsAre
<1>5. \A p \in file : /\ p.at \in Nat /\ p.size \in Nat
                      /\ p.part = "rows" => Room <= p.at
                      /\ p.part # "rows" => p.at + p.size <= 0
  BY <1>1, <1>2 DEF FileTypes, Pieces, LateRight, Start
<1>6. FileTypes'
  <2>1. file' \subseteq Pieces
    BY <1>1, <1>2, <1>3 DEF FileTypes
  <2> QED
    BY <2>1, <1>1, <1>2 DEF FileTypes, Late
<1>7. NothingOverlaps'
  <2>1. SUFFICES ASSUME NEW p \in file', NEW q \in file', p # q
                 PROVE  p.at + p.size <= q.at \/ q.at + q.size <= p.at
    BY DEF NothingOverlaps
  <2>2. \A q1 \in file : \/ Header.at + Header.size <= q1.at
                         \/ q1.at + q1.size <= Header.at
    BY <1>3, <1>4, <1>5
  <2> QED
    BY <2>1, <2>2, <1>1, <1>2 DEF NothingOverlaps
<1>8. TagsRight'
  BY <1>1, <1>2, TagsKept
<1>9. Placed' /\ Room' = Room
  <2>1. RawAt' = RawAt /\ ExifAt' = ExifAt /\ GPSAt' = GPSAt /\ Room' = Room
    BY <1>1, RoomsKept
  <2> QED
    BY <2>1, <1>1, <1>2 DEF Placed, LateRight
<1>10. StripDone("main")' /\ StripDone("raw")'
  BY <1>1, <1>2, StripDoneKept DEF LateRight
<1>11. Before(filePc) = {} /\ Before(filePc)' = {} /\ Start(filePc)' = 8
  BY <1>1 DEF Before, Start
<1>12. \A p \in file' : IF p.part = "rows" THEN Room <= p.at
                        ELSE p.at + p.size <= 8
  BY <1>1, <1>3, <1>5
<1>13. LateRight'
  BY <1>1, <1>2, <1>9, <1>10, <1>11, <1>12 DEF LateRight
<1> QED
  BY <1>1, <1>6, <1>7, <1>8, <1>13 DEF FileInv, Early, Imaging, Late

\* A directory ends where the next step starts.
LEMMA StartsAre ==
  ASSUME FileTypes, NEW d \in Directories
  PROVE  /\ Start(d) \in Nat /\ Start(d) % 2 = 0 /\ 8 <= Start(d)
         /\ Start(After(d)) = Start(d) + DirectorySize(dirs[d])
         /\ Start(After(d)) <= Room
         /\ Before(After(d)) = Before(d) \cup {d}
         /\ After(d) \in Late /\ After(d) # "header"
<1>1. d = "main" \/ d = "raw" \/ d = "exif" \/ d = "gps"
  BY DEF Directories
<1>2. CASE d = "main"
  BY <1>2, RoomsAre DEF Start, After, Before, Late, RawAt
<1>3. CASE d = "raw"
  BY <1>3, RoomsAre DEF Start, After, Before, Late, ExifAt
<1>4. CASE d = "exif"
  BY <1>4, RoomsAre DEF Start, After, Before, Late, GPSAt
<1>5. CASE d = "gps"
  BY <1>5, RoomsAre DEF Start, After, Before, Late, Room, Directories
<1> QED
  BY <1>1, <1>2, <1>3, <1>4, <1>5

\* The pieces of a directory lie in its room and do not overlap.
LEMMA PiecesApart ==
  ASSUME FileTypes, NEW d \in Directories
  PROVE  /\ PiecesOf(d) \subseteq Pieces
         /\ \A p \in PiecesOf(d) :
              /\ p.part # "rows" /\ Start(d) <= p.at
              /\ p.at + p.size <= Start(d) + DirectorySize(dirs[d])
         /\ \A p, q \in PiecesOf(d) : p # q =>
              p.at + p.size <= q.at \/ q.at + q.size <= p.at
<1> DEFINE dir == dirs[d]
           base == Start(d)
           D(i) == Piece(DataOffset(dir, base, i), Written(dir[i]), d, "data", dir[i].code)
           E == Piece(base, Entries(dir), d, "entries", 0)
<1>1. dir \in Seq(Tags)
  BY DEF FileTypes
<1>2. base \in Nat /\ base % 2 = 0
  BY StartsAre
<1>3. CASE dir = <<>>
  BY <1>3 DEF PiecesOf
<1>4. CASE dir # <<>>
  <2>1. PiecesOf(d) = {E} \cup {D(i) : i \in LargeOf(dir)}
    BY <1>4 DEF PiecesOf
  <2> HIDE DEF dir, base
  <2>2. /\ Entries(dir) \in Nat /\ Entries(dir) <= DirectorySize(dir)
        /\ DirectorySize(dir) \in Nat
    BY <1>1, <1>4, SizesAgree
  <2>3. E \in Pieces /\ E.at = base /\ E.size = Entries(dir) /\ E.part = "entries"
    BY <1>2, <2>2 DEF Piece, Pieces
  <2>4. ASSUME NEW i \in LargeOf(dir)
        PROVE  /\ D(i) \in Pieces /\ D(i).at \in Nat /\ D(i).size \in Nat
               /\ D(i).part = "data"
               /\ base + Entries(dir) <= D(i).at
               /\ D(i).at + D(i).size <= base + DirectorySize(dir)
               /\ \A k \in LargeOf(dir) : i < k => D(i).at + D(i).size <= D(k).at
    <3>1. i \in 1..Len(dir) /\ Large(dir[i])
      BY <1>1 DEF LargeOf
    <3>2. dir[i] \in Tags
      BY <1>1, <3>1
    <3>3. dir[i].code \in Nat
      BY <3>2 DEF Tags
    <3>4. /\ DataOffset(dir, base, i) \in Nat /\ Written(dir[i]) \in Nat
          /\ base + Entries(dir) <= DataOffset(dir, base, i)
          /\ DataOffset(dir, base, i) + Written(dir[i])
               <= base + DirectorySize(dir)
          /\ \A k \in 1..Len(dir) : i < k =>
               DataOffset(dir, base, i) + Written(dir[i])
                 <= DataOffset(dir, base, k)
      BY <1>1, <1>2, <3>1, DataInPlace
    <3>5. \A k \in LargeOf(dir) : k \in 1..Len(dir)
      BY <1>1 DEF LargeOf
    <3>6. /\ D(i).at = DataOffset(dir, base, i) /\ D(i).size = Written(dir[i])
          /\ D(i).part = "data"
          /\ \A k : D(k).at = DataOffset(dir, base, k)
      BY DEF Piece
    <3>7. D(i) \in Pieces
      BY <3>3, <3>4 DEF Piece, Pieces
    <3> HIDE DEF D
    <3> QED
      BY <3>4, <3>5, <3>6, <3>7
  <2> HIDE DEF D, E
  <2>5. PiecesOf(d) \subseteq Pieces
    BY <2>1, <2>3, <2>4
  <2>6. ASSUME NEW p \in PiecesOf(d)
        PROVE  /\ p.part # "rows" /\ base <= p.at
               /\ p.at + p.size <= base + DirectorySize(dir)
    <3>1. CASE p = E
      BY <1>2, <2>2, <2>3, <3>1
    <3>2. CASE p # E
      <4>1. PICK i \in LargeOf(dir) : p = D(i)
        BY <2>1, <3>2
      <4> QED
        BY <1>2, <2>2, <2>4, <4>1
    <3> QED
      BY <3>1, <3>2
  <2>7. ASSUME NEW p \in PiecesOf(d), NEW q \in PiecesOf(d), p # q
        PROVE  p.at + p.size <= q.at \/ q.at + q.size <= p.at
    <3>1. CASE p = E
      <4>1. PICK k \in LargeOf(dir) : q = D(k)
        BY <2>1, <2>7, <3>1
      <4> QED
        BY <2>3, <2>4, <3>1, <4>1
    <3>2. CASE q = E
      <4>1. PICK k \in LargeOf(dir) : p = D(k)
        BY <2>1, <2>7, <3>2
      <4> QED
        BY <2>3, <2>4, <3>2, <4>1
    <3>3. CASE p # E /\ q # E
      <4>1. PICK i \in LargeOf(dir) : p = D(i)
        BY <2>1, <3>3
      <4>2. PICK k \in LargeOf(dir) : q = D(k)
        BY <2>1, <3>3
      <4>3. i \in Nat /\ k \in Nat /\ i # k
        BY <1>1, <2>7, <4>1, <4>2 DEF LargeOf
      <4>4. i < k \/ k < i
        BY <4>3
      <4> QED
        BY <2>4, <4>1, <4>2, <4>4
    <3> QED
      BY <3>1, <3>2, <3>3
  <2> QED
    BY <2>5, <2>6, <2>7 DEF dir, base
<1> QED
  BY <1>3, <1>4

\* What Put() adds to the file and says in its entries.
LEMMA PutIs ==
  ASSUME FileTypes, LateRight, NEW d \in Directories, PutDirectory(d)
  PROVE  /\ filePc = d /\ filePc' = After(d)
         /\ file' = file \cup PiecesOf(d)
         /\ says' = says \cup SaysOf(d)
         /\ position' = Start(After(d))
         /\ UNCHANGED <<height, fit, dirs, value, image, row>>
<1>1. /\ filePc = d /\ filePc' = After(d)
      /\ UNCHANGED <<height, fit, dirs, value, image, row>>
  BY DEF PutDirectory, Goto, fileInputs
<1>2. position = Start(d) /\ Start(d) \in Nat
  BY <1>1, StartsAre DEF LateRight, Directories
<1>3. Start(After(d)) = Start(d) + BytesPut(dirs[d])
  <2>1. dirs[d] \in Seq(Tags)
    BY DEF FileTypes
  <2> QED
    BY <2>1, StartsAre, SizesAgree
<1>4. CASE dirs[d] = <<>>
  <2>1. UNCHANGED <<position, file, says>>
    BY <1>4 DEF PutDirectory
  <2>2. BytesPut(dirs[d]) = 0
    BY <1>4 DEF BytesPut
  <2> QED
    BY <1>1, <1>2, <1>3, <1>4, <2>1, <2>2 DEF PiecesOf, SaysOf
<1>5. CASE dirs[d] # <<>>
  <2>1. /\ file' = file
             \cup {Piece(position, Entries(dirs[d]), d, "entries", 0)}
             \cup {Piece(DataOffset(dirs[d], position, i), Written(dirs[d][i]),
                         d, "data", dirs[d][i].code) : i \in LargeOf(dirs[d])}
        /\ says' = says
             \cup {Said(d, position, i) : i \in LargeOf(dirs[d]) \cup LinksOf(d)}
        /\ position' = position + BytesPut(dirs[d])
    BY <1>5 DEF PutDirectory, LargeOf, LinksOf
  <2>2. file' = file \cup PiecesOf(d)
    BY <1>2, <1>5, <2>1 DEF PiecesOf
  <2>3. says' = says \cup SaysOf(d)
    BY <1>2, <1>5, <2>1 DEF SaysOf
  <2> QED
    BY <1>1, <1>2, <1>3, <2>1, <2>2, <2>3
<1> QED
  BY <1>4, <1>5

\* The pieces of a directory depend on nothing that the last steps change.
LEMMA WrittenKept ==
  ASSUME dirs' = dirs, value' = value, NEW d \in Directories
  PROVE  PiecesOf(d)' = PiecesOf(d) /\ SaysOf(d)' = SaysOf(d)
<1>1. Start(d)' = Start(d)
  BY RoomsKept DEF Start
<1>2. PiecesOf(d)' = PiecesOf(d)
  BY <1>1 DEF PiecesOf
<1>3. \A i : Said(d, Start(d), i)' = Said(d, Start(d), i)
  BY <1>1 DEF Said
<1>4. SaysOf(d)' = SaysOf(d)
  BY <1>3 DEF SaysOf, LinksOf
<1> QED
  BY <1>2, <1>4

\* Writing a directory keeps the invariant.
LEMMA PutDirectoryRight ==
  ASSUME FileInv, NEW d \in Directories, PutDirectory(d)
  PROVE  FileInv'
<1>1. filePc = d /\ d \in Late
  BY DEF PutDirectory, Directories, Late
<1>2. FileTypes /\ NothingOverlaps /\ TagsRight /\ LateRight
  BY <1>1 DEF FileInv, Late
<1>3. /\ filePc' = After(d)
      /\ file' = file \cup PiecesOf(d)
      /\ says' = says \cup SaysOf(d)
      /\ position' = Start(After(d))
      /\ UNCHANGED <<height, fit, dirs, value, image, row>>
  BY <1>2, PutIs
<1>4. /\ Start(d) \in Nat
      /\ Start(After(d)) = Start(d) + DirectorySize(dirs[d])
      /\ Start(After(d)) <= Room
      /\ Before(After(d)) = Before(d) \cup {d}
      /\ After(d) \in Late /\ After(d) # "header"
  BY <1>2, StartsAre
<1>5. /\ PiecesOf(d) \subseteq Pieces
      /\ \A p \in PiecesOf(d) : /\ p.part # "rows" /\ Start(d) <= p.at
                                /\ p.at + p.size <= Start(After(d))
      /\ \A p, q \in PiecesOf(d) : p # q =>
           p.at + p.size <= q.at \/ q.at + q.size <= p.at
  BY <1>2, <1>4, PiecesApart
<1>6. Room \in Nat /\ DirectorySize(dirs[d]) \in Nat
  BY <1>2, RoomsAre
<1>7. \A p \in file : IF p.part = "rows" THEN Room <= p.at
                      ELSE p.at + p.size <= Start(d)
  BY <1>1, <1>2 DEF LateRight
<1>8. \A p \in file \cup PiecesOf(d) : p.at \in Nat /\ p.size \in Nat
  BY <1>2, <1>5 DEF FileTypes, Pieces
<1>9. FileTypes'
  <2>1. position' \in Nat /\ file' \subseteq Pieces
    BY <1>2, <1>3, <1>4, <1>5, <1>6 DEF FileTypes
  <2> QED
    BY <2>1, <1>2, <1>3, <1>4 DEF FileTypes
<1>10. TagsRight'
  BY <1>1, <1>2, <1>3, <1>4, TagsKept DEF Late, Directories
<1>11. NothingOverlaps'
  <2>1. SUFFICES ASSUME NEW p \in file', NEW q \in file', p # q
                 PROVE  p.at + p.size <= q.at \/ q.at + q.size <= p.at
    BY DEF NothingOverlaps
  <2>2. ASSUME NEW a \in file, NEW b \in PiecesOf(d)
        PROVE  a.at + a.size <= b.at \/ b.at + b.size <= a.at
    <3>1. /\ a.at \in Nat /\ a.size \in Nat /\ b.at \in Nat /\ b.size \in Nat
          /\ Start(d) <= b.at /\ b.at + b.size <= Start(After(d))
          /\ Start(After(d)) \in Nat
      BY <1>4, <1>5, <1>6, <1>8
    <3>2. CASE a.part = "rows"
      BY <1>4, <1>6, <1>7, <3>1, <3>2
    <3>3. CASE a.part # "rows"
      BY <1>4, <1>7, <3>1, <3>3
    <3> QED
      BY <3>2, <3>3
  <2>3. CASE p \in file /\ q \in file
    BY <2>1, <2>3, <1>2 DEF NothingOverlaps
  <2>4. CASE p \in PiecesOf(d) /\ q \in PiecesOf(d)
    BY <2>1, <2>4, <1>5
  <2> QED
    BY <1>3, <2>2, <2>3, <2>4
<1>12. Placed' /\ Room' = Room
  <2>1. RawAt' = RawAt /\ ExifAt' = ExifAt /\ GPSAt' = GPSAt /\ Room' = Room
    BY <1>3, RoomsKept
  <2> QED
    BY <2>1, <1>2, <1>3 DEF Placed, LateRight
<1>13. StripDone("main")' /\ StripDone("raw")'
  BY <1>2, <1>3, StripDoneKept DEF LateRight
<1>14. Start(filePc)' = Start(After(d))
  <2>1. RawAt' = RawAt /\ ExifAt' = ExifAt /\ GPSAt' = GPSAt /\ Room' = Room
    BY <1>3, RoomsKept
  <2> QED
    BY <2>1, <1>3, <1>4 DEF Start, Late
<1>15. \A p \in file' : IF p.part = "rows" THEN Room' <= p.at
                        ELSE p.at + p.size <= Start(filePc)'
  <2>1. ASSUME NEW p \in file
        PROVE  IF p.part = "rows" THEN Room' <= p.at
               ELSE p.at + p.size <= Start(After(d))
    BY <1>4, <1>6, <1>7, <1>8, <1>12
  <2> QED
    BY <2>1, <1>3, <1>5, <1>14
<1>16. Header \in file'
  BY <1>1, <1>2, <1>3 DEF LateRight, Directories
<1>17. Before(filePc)' = Before(d) \cup {d} /\ Before(d) \subseteq Directories
  BY <1>3, <1>4 DEF Before, Directories
<1>18. \A e \in Before(d) \cup {d} : PiecesOf(e)' \subseteq file'
                                     /\ SaysOf(e)' = SaysOf(e)
  BY <1>1, <1>2, <1>3, <1>17, WrittenKept DEF LateRight
<1>19. says' = UNION {SaysOf(e)' : e \in Before(d) \cup {d}}
  <2>1. says = UNION {SaysOf(e) : e \in Before(d)}
    BY <1>1, <1>2 DEF LateRight
  <2> QED
    BY <2>1, <1>3, <1>18
<1>20. LateRight'
  BY <1>3, <1>4, <1>12, <1>13, <1>14, <1>15, <1>16, <1>17, <1>18, <1>19
  DEF LateRight
<1> QED
  BY <1>3, <1>4, <1>9, <1>10, <1>11, <1>20 DEF FileInv, Early, Imaging, Late

\* RowsInPlace follows from the invariant.
LEMMA RowsAreInPlace ==
  ASSUME FileInv
  PROVE  RowsInPlace
<1>1. FileTypes
  BY DEF FileInv
<1>2. CASE filePc = "failed"
  BY <1>2 DEF FileInv
<1>3. CASE filePc \in Early
  <2>1. Header \notin file
    BY <1>3 DEF FileInv, EarlyRight
  <2> QED
    BY <2>1 DEF RowsInPlace
<1>4. CASE filePc \in Imaging
  <2>1. Header.part # "rows"
    BY DEF Header, Piece
  <2>2. Header \notin file
    BY <1>4, <2>1 DEF FileInv, ImagingRight
  <2> QED
    BY <2>2 DEF RowsInPlace
<1>5. CASE filePc \in Late
  <2>1. StripDone("main") /\ StripDone("raw")
    BY <1>5 DEF FileInv, LateRight
  <2>2. \A i \in Images : StripDone(i)
    BY <2>1 DEF Images
  <2> QED
    BY <2>2 DEF StripDone, StripBegun, RowThere, RowsInPlace
<1> QED
  BY <1>1, <1>2, <1>3, <1>4, <1>5 DEF FileTypes

\* Failing keeps the invariant: it leaves the file as it is.
LEMMA FailRight ==
  ASSUME FileInv, Fail
  PROVE  FileInv'
<1>1. /\ filePc' = "failed"
      /\ UNCHANGED <<height, fit, dirs, value, position, file, says, image, row>>
  BY DEF Fail, fileInputs, Goto
<1>2. RowsInPlace'
  BY <1>1, RowsAreInPlace DEF RowsInPlace
<1>3. FileTypes' /\ NothingOverlaps'
  BY <1>1 DEF FileInv, FileTypes, NothingOverlaps
<1> QED
  BY <1>1, <1>2, <1>3 DEF FileInv, Early, Imaging, Late

\* And so does doing nothing.
LEMMA FileStutterRight ==
  ASSUME FileInv, UNCHANGED fileVars
  PROVE  FileInv'
<1>1. UNCHANGED <<filePc, height, fit, dirs, value, position, file, says, image, row>>
  BY DEF fileVars, fileInputs
<1>2. FileTypes' /\ NothingOverlaps'
  BY <1>1 DEF FileInv, FileTypes, NothingOverlaps
<1>3. RowsInPlace'
  BY <1>1, RowsAreInPlace DEF RowsInPlace
<1>4. filePc # "failed" => TagsRight'
  <2>1. MainLinks(filePc)' = MainLinks(filePc)
    BY <1>1 DEF MainLinks, IfAny
  <2> QED
    BY <2>1, <1>1 DEF FileInv, TagsRight
<1>5. filePc \in Early => EarlyRight'
  BY <1>1 DEF FileInv, EarlyRight
<1>6. /\ RawAt' = RawAt /\ ExifAt' = ExifAt /\ GPSAt' = GPSAt /\ Room' = Room
      /\ Placed <=> Placed'
  BY <1>1, RoomsKept DEF Placed
<1>7. \A i, n : StripBegun(i, n) => StripBegun(i, n)'
  BY <1>1, StripBegunKept
<1>8. \A i : StripDone(i) => StripDone(i)'
  BY <1>1, StripDoneKept
<1>9. filePc \in Imaging => ImagingRight'
  BY <1>1, <1>6, <1>7, <1>8 DEF FileInv, ImagingRight
<1>10. filePc \in Late => LateRight'
  <2> SUFFICES ASSUME filePc \in Late
               PROVE  LateRight'
    OBVIOUS
  <2>1. Start(filePc)' = Start(filePc) /\ Before(filePc)' = Before(filePc)
        /\ Before(filePc) \subseteq Directories
    BY <1>1, <1>6 DEF Start, Before, Late, Directories
  <2>2. \A d \in Directories : PiecesOf(d)' = PiecesOf(d) /\ SaysOf(d)' = SaysOf(d)
    BY <1>1, WrittenKept
  <2>3. LateRight
    BY DEF FileInv
  <2>4. says' = UNION {SaysOf(d)' : d \in Before(filePc)'}
    BY <1>1, <2>1, <2>2, <2>3 DEF LateRight
  <2> QED
    BY <1>1, <1>6, <1>8, <2>1, <2>2, <2>3, <2>4 DEF LateRight
<1> QED
  BY <1>1, <1>2, <1>3, <1>4, <1>5, <1>9, <1>10 DEF FileInv

\* The inductive invariant holds for every set of tags and lengths, every image
\* size and buffer and every limit of the stream: no step of WriteDNG
\* (dng_image_writer.cpp) leaves it.
THEOREM FileInvHolds == FileSpec => []FileInv
<1>1. FileInit => FileInv
  BY FileInitRight
<1>2. FileInv /\ [FileNext]_fileVars => FileInv'
  <2> SUFFICES ASSUME FileInv, [FileNext]_fileVars
               PROVE  FileInv'
    OBVIOUS
  <2>1. ASSUME NEW d \in Directories, NEW c \in OtherCodes, NEW k \in Kinds,
               NEW n \in Lengths, AddTag(d, Tag(c, k, n))
        PROVE  FileInv'
    BY <2>1, AddTagRight
  <2>2. CASE AddLinks
    BY <2>2, AddLinksRight
  <2>3. CASE AddSubIFDs
    BY <2>3, AddSubIFDsRight
  <2>4. CASE Layout
    BY <2>4, LayoutRight
  <2>5. CASE BeginStrip
    BY <2>5, BeginStripRight
  <2>6. CASE WriteSubTile
    BY <2>6, WriteSubTileRight
  <2>7. CASE EndStrip
    BY <2>7, EndStripRight
  <2>8. CASE Trim
    BY <2>8, TrimRight
  <2>9. CASE WriteHeader
    BY <2>9, WriteHeaderRight
  <2>10. ASSUME NEW d \in Directories, PutDirectory(d)
         PROVE  FileInv'
    BY <2>10, PutDirectoryRight
  <2>11. CASE Fail
    BY <2>11, FailRight
  <2>12. CASE UNCHANGED fileVars
    BY <2>12, FileStutterRight
  <2> QED
    BY <2>1, <2>2, <2>3, <2>4, <2>5, <2>6, <2>7, <2>8, <2>9, <2>10, <2>11,
       <2>12 DEF FileNext
<1> QED
  BY <1>1, <1>2, PTL DEF FileSpec

\* Nothing that WriteDNG puts into the file overlaps anything else it put
\* there: header, entries and data of the four directories and the rows of both
\* images all keep their bytes, because each directory takes just the room that
\* was computed for it.
THEOREM FilePiecesApart == FileSpec => []NothingOverlaps
<1>1. FileInv => NothingOverlaps
  BY DEF FileInv
<1> QED
  BY <1>1, FileInvHolds, PTL

\* As soon as the file has a header, the rows of both images lie one after the
\* other from their strip's offset and the byte count covers just these,
\* however the buffer divided them, also in a file that WriteDNG gave up on.
THEOREM FileRowsInPlace == FileSpec => []RowsInPlace
<1>1. FileInv => RowsInPlace
  BY RowsAreInPlace
<1> QED
  BY <1>1, FileInvHolds, PTL

\* A directory that is not empty is in a finished file at its offset.
LEMMA DirectoryFound ==
  ASSUME FileTypes, LateRight, filePc = "done", NEW d \in Directories,
         dirs[d] # <<>>
  PROVE  Holds(Start(d), [dir |-> d, part |-> "entries", n |-> 0])
<1> DEFINE p == Piece(Start(d), Entries(dirs[d]), d, "entries", 0)
<1>1. p \in PiecesOf(d)
  BY DEF PiecesOf
<1>2. PiecesOf(d) \subseteq file
  BY DEF LateRight, Before
<1>3. p.at = Start(d) /\ p.dir = d /\ p.part = "entries" /\ p.n = 0
  BY DEF Piece
<1> QED
  BY <1>1, <1>2, <1>3 DEF Holds

\* So are the data of its large tags.
LEMMA DataFound ==
  ASSUME FileTypes, LateRight, filePc = "done", NEW d \in Directories,
         NEW i \in LargeOf(dirs[d])
  PROVE  /\ EntryOffset(dirs[d], Start(d), i) % 2 = 0
         /\ Holds(EntryOffset(dirs[d], Start(d), i),
                  [dir |-> d, part |-> "data", n |-> dirs[d][i].code])
<1> DEFINE p == Piece(DataOffset(dirs[d], Start(d), i), Written(dirs[d][i]), d,
                      "data", dirs[d][i].code)
<1>1. dirs[d] \in Seq(Tags) /\ i \in 1..Len(dirs[d]) /\ Large(dirs[d][i])
      /\ dirs[d] # <<>>
  BY DEF FileTypes, LargeOf
<1>2. /\ EntryOffset(dirs[d], Start(d), i) = DataOffset(dirs[d], Start(d), i)
      /\ DataOffset(dirs[d], Start(d), i) % 2 = 0
  <2>1. Start(d) \in Nat /\ Start(d) % 2 = 0
    BY StartsAre
  <2> QED
    BY <1>1, <2>1, DataInPlace
<1>3. p \in PiecesOf(d)
  BY <1>1 DEF PiecesOf
<1>4. PiecesOf(d) \subseteq file
  BY DEF LateRight, Before
<1>5. p.at = DataOffset(dirs[d], Start(d), i) /\ p.dir = d /\ p.part = "data"
      /\ p.n = dirs[d][i].code
  BY DEF Piece
<1> QED
  BY <1>2, <1>3, <1>4, <1>5 DEF Holds

\* A directory only has the links that are meant for it, and a link to a
\* directory only when that directory is not empty.
LEMMA LinkCodesOfDirectory ==
  ASSUME TagsRight, filePc = "done", NEW d \in Directories, NEW c \in LinkCodes,
         c \in Codes(dirs[d])
  PROVE  /\ <<d, c>> \in Links
         /\ c = ExifIFD => d = "main" /\ dirs["exif"] # <<>>
         /\ c = GPSInfo => d = "main" /\ dirs["gps"] # <<>>
<1>1. Constants
  BY ConstantsAre
<1>2. d = "main" \/ d = "raw" \/ d = "exif" \/ d = "gps"
  BY DEF Directories
<1>3. MainLinks(filePc) = {SubIFDs} \cup IfAny("exif", ExifIFD) \cup IfAny("gps", GPSInfo)
  BY DEF MainLinks
<1>4. CASE d = "main"
  <2>1. c \in StripCodes \cup {SubIFDs} \cup IfAny("exif", ExifIFD) \cup IfAny("gps", GPSInfo)
    BY <1>3, <1>4 DEF TagsRight
  <2>2. c \in StripCodes => c = StripOffsets \/ c = StripByteCounts
    BY DEF StripCodes
  <2>3. <<d, c>> \in Links
    BY <2>1, <2>2, <1>4, LinksAre DEF IfAny, Images
  <2> QED
    BY <2>1, <2>3, <1>1, <1>4 DEF IfAny, StripCodes, Constants
<1>5. CASE d = "raw"
  <2>1. c \in StripCodes
    BY <1>5 DEF TagsRight
  <2>2. <<d, c>> \in Links
    BY <2>1, <1>5, LinksAre DEF StripCodes, Images
  <2> QED
    BY <2>1, <2>2, <1>1 DEF StripCodes, Constants
<1>6. CASE d = "exif" \/ d = "gps"
  BY <1>6 DEF TagsRight
<1> QED
  BY <1>2, <1>4, <1>5, <1>6

\* The directories of the images are never empty.
LEMMA ImagesNotEmpty ==
  ASSUME TagsRight
  PROVE  dirs["main"] # <<>> /\ dirs["raw"] # <<>>
<1>1. StripOffsets \in Codes(dirs["main"]) /\ StripOffsets \in Codes(dirs["raw"])
  BY DEF TagsRight, StripCodes
<1>2. Codes(<<>>) = {}
  BY DEF Codes
<1> QED
  BY <1>1, <1>2

\* What an entry of a finished file points at is there.
LEMMA SaidIsRight ==
  ASSUME FileTypes, TagsRight, LateRight, filePc = "done",
         NEW s \in says, s.code # StripByteCounts
  PROVE  s.value % 2 = 0 /\ Holds(s.value, Target(s.dir, s.code))
<1>1. PICK d \in Directories : s \in SaysOf(d)
  BY DEF LateRight, Before
<1>2. dirs[d] # <<>>
  BY <1>1 DEF SaysOf
<1>3. PICK i \in LargeOf(dirs[d]) \cup LinksOf(d) : s = Said(d, Start(d), i)
  BY <1>1, <1>2 DEF SaysOf
<1> DEFINE c == dirs[d][i].code
<1>4. /\ s.dir = d /\ s.code = c
      /\ s.value = IF <<d, c>> \in Links THEN value[<<d, c>>]
                   ELSE EntryOffset(dirs[d], Start(d), i)
  BY <1>3 DEF Said
<1>5. c \in Codes(dirs[d])
  BY <1>3 DEF LargeOf, LinksOf, Codes
<1>6. Constants
  BY ConstantsAre
<1>7. CASE c \notin LinkCodes
  <2>1. <<d, c>> \notin Links
    BY <1>7 DEF Links, LinkCodes
  <2>2. i \in LargeOf(dirs[d])
    BY <1>3, <2>1 DEF LinksOf
  <2>3. Target(d, c) = [dir |-> d, part |-> "data", n |-> c]
    BY <1>7 DEF Target, LinkCodes
  <2> QED
    BY <1>4, <2>1, <2>2, <2>3, DataFound
<1>8. CASE c \in LinkCodes
  <2> HIDE DEF c
  <2>1. /\ <<d, c>> \in Links
        /\ c = ExifIFD => d = "main" /\ dirs["exif"] # <<>>
        /\ c = GPSInfo => d = "main" /\ dirs["gps"] # <<>>
    BY <1>5, <1>8, LinkCodesOfDirectory
  <2>2. s.value = value[<<d, c>>]
    BY <1>4, <2>1
  <2>3. "raw" \in Directories /\ "exif" \in Directories /\ "gps" \in Directories
    BY DEF Directories
  <2>4. Start("raw") = RawAt /\ Start("exif") = ExifAt /\ Start("gps") = GPSAt
        /\ RawAt % 2 = 0 /\ ExifAt % 2 = 0 /\ GPSAt % 2 = 0
    BY RoomsAre DEF Start
  <2>5. Placed
    BY DEF LateRight
  <2>6. CASE c = StripOffsets
    <3>1. d \in Images
      BY <2>1, <2>6, <1>6 DEF Links, Constants
    <3>2. StripDone(d) /\ height[d] \in Nat \ {0}
      BY <3>1 DEF LateRight, Images, FileTypes
    <3>3. value[<<d, c>>] % 2 = 0
          /\ Holds(value[<<d, c>>], [dir |-> d, part |-> "rows", n |-> 0])
      BY <3>2, <2>6 DEF StripDone, StripBegun
    <3>4. Target(d, c) = [dir |-> d, part |-> "rows", n |-> 0]
      BY <2>6, <1>6 DEF Target, Constants
    <3> QED
      BY <1>4, <2>2, <3>3, <3>4
  <2>7. CASE c = SubIFDs
    <3>1. d = "main"
      BY <2>1, <2>7, <1>6 DEF Links, Constants
    <3>2. Target(d, c) = [dir |-> "raw", part |-> "entries", n |-> 0]
      BY <2>7, <1>6 DEF Target, Constants
    <3> QED
      BY <1>4, <2>2, <2>3, <2>4, <2>5, <2>7, <3>1, <3>2, DirectoryFound,
         ImagesNotEmpty DEF Placed
  <2>8. CASE c = ExifIFD
    <3>1. Target(d, c) = [dir |-> "exif", part |-> "entries", n |-> 0]
      BY <2>8, <1>6 DEF Target, Constants
    <3> QED
      BY <1>4, <2>1, <2>2, <2>3, <2>4, <2>5, <2>8, <3>1, DirectoryFound
      DEF Placed
  <2>9. CASE c = GPSInfo
    <3>1. Target(d, c) = [dir |-> "gps", part |-> "entries", n |-> 0]
      BY <2>9, <1>6 DEF Target, Constants
    <3> QED
      BY <1>4, <2>1, <2>2, <2>3, <2>4, <2>5, <2>9, <3>1, DirectoryFound
      DEF Placed
  <2> QED
    BY <1>4, <1>8, <2>6, <2>7, <2>8, <2>9 DEF LinkCodes
<1> QED
  BY <1>7, <1>8

\* Every directory of a finished file has an entry that points at it.
LEMMA DirectoryReached ==
  ASSUME FileTypes, TagsRight, LateRight, filePc = "done",
         NEW d \in Directories \ {"main"}, dirs[d] # <<>>
  PROVE  \E s \in says : Target(s.dir, s.code).dir = d /\ s.dir = "main"
<1> DEFINE c == IF d = "raw" THEN SubIFDs ELSE IF d = "exif" THEN ExifIFD ELSE GPSInfo
<1>1. d = "raw" \/ d = "exif" \/ d = "gps"
  BY DEF Directories
<1>2. Constants
  BY ConstantsAre
<1>3. c \in Codes(dirs["main"]) /\ <<"main", c>> \in Links
  <2>1. c \in MainLinks(filePc)
    BY <1>1 DEF MainLinks, IfAny
  <2> QED
    BY <1>1, <2>1, LinksAre DEF TagsRight
<1>4. Target("main", c).dir = d
  BY <1>1, <1>2 DEF Target, Constants
<1> HIDE DEF c
<1>5. PICK i \in DOMAIN dirs["main"] : dirs["main"][i].code = c
  BY <1>3 DEF Codes
<1>6. i \in LinksOf("main")
  BY <1>3, <1>5 DEF LinksOf
<1> DEFINE s == Said("main", Start("main"), i)
<1>7. s.dir = "main" /\ s.code = c
  BY <1>5 DEF Said
<1>8. s \in says
  <2>1. dirs["main"] # <<>>
    BY ImagesNotEmpty
  <2>2. s \in SaysOf("main")
    BY <1>6, <2>1 DEF SaysOf
  <2> QED
    BY <2>2 DEF LateRight, Before, Directories
<1> QED
  BY <1>4, <1>7, <1>8

\* In a finished file every offset is even and leads to what it stands for,
\* although it was computed before the directories were written; every
\* directory that is not empty is reached from the main one, and the tags are
\* sorted.
THEOREM FileLinksHold == FileSpec => []LinksHold
<1>1. ASSUME FileInv
      PROVE  LinksHold
  <2> SUFFICES ASSUME filePc = "done"
               PROVE  LinksHold
    BY DEF LinksHold
  <2>1. FileTypes /\ TagsRight /\ LateRight
    BY <1>1 DEF FileInv, Late
  <2>2. \A d \in Directories : \A i, k \in DOMAIN dirs[d] :
          i < k => dirs[d][i].code < dirs[d][k].code
    BY <2>1 DEF TagsRight, Sorted
  <2>3. Holds(8, [dir |-> "main", part |-> "entries", n |-> 0])
    <3>1. "main" \in Directories /\ Start("main") = 8
      BY DEF Directories, Start
    <3> QED
      BY <2>1, <3>1, DirectoryFound, ImagesNotEmpty
  <2>4. \A s \in says : s.code # StripByteCounts =>
          s.value % 2 = 0 /\ Holds(s.value, Target(s.dir, s.code))
    BY <2>1, SaidIsRight
  <2>5. \A d \in Directories \ {"main"} : dirs[d] # <<>> =>
          \E s \in says : Target(s.dir, s.code).dir = d /\ s.dir = "main"
    BY <2>1, DirectoryReached
  <2> QED
    BY <2>2, <2>3, <2>4, <2>5 DEF LinksHold
<1> QED
  BY <1>1, FileInvHolds, PTL
===============================================================================
