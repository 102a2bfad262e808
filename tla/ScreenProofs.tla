----------------------------- MODULE ScreenProofs -----------------------------
(***************************************************************************)
(* Proofs about the two screens, for any sizes of screens, characters and  *)
(* images, any programs' requests and any tick: no word is written outside *)
(* the framebuffer, nor beyond the cells of the text screen by more than   *)
(* the lines of the prints cut short; every call paints the shape it means *)
(* and nothing else; the desktop is what orbit draws; and a text call      *)
(* leaves the cells, the cursor and the colour that it was asked for.      *)
(***************************************************************************)
EXTENDS TextScreen, SequenceTheorems, FiniteSetTheorems, TLAPS

-----------------------------------------------------------------------------
(***************************************************************************)
(* Numbers.                                                                *)
(***************************************************************************)
LEMMA Constant ==
  /\ W \in Nat \ {0} /\ H \in Nat \ {0} /\ CHAR_W \in Nat \ {0} /\ CHAR_H \in Nat \ {0}
  /\ HALF \in Nat \ {0} /\ MAX_REQUESTS \in Nat /\ MAX_BMP \in Nat
  /\ BUTTON_W \in Int /\ BUTTON_H \in Int /\ SHADOW \in Int /\ LINE \in Int
  /\ Box.x \in Int /\ Box.y \in Int /\ Box.w \in Int /\ Box.h \in Int
  /\ Buttons \in Seq([x : Int, y : Int]) /\ Icon.w \in Nat /\ Icon.h \in Nat
  /\ Heights \subseteq Int
  /\ VGA_WIDTH \in Nat /\ VGA_WIDTH > 2 /\ VGA_HEIGHT \in Nat /\ VGA_HEIGHT > 1
  /\ MAX_FAULTS \in Nat
<1>1. /\ {W, H, CHAR_W, CHAR_H, HALF} \subseteq Nat \ {0}
      /\ {BUTTON_W, BUTTON_H, SHADOW, LINE, Box.x, Box.y, Box.w, Box.h} \subseteq Int
      /\ Buttons \in Seq([x : Int, y : Int]) /\ {Icon.w, Icon.h} \subseteq Nat
      /\ Heights \subseteq Int /\ {MAX_BMP, MAX_REQUESTS} \subseteq Nat
  BY ScreenAssumption, Zenon
<1> QED
  BY <1>1, TextAssumption

LEMMA Product ==
  ASSUME NEW m \in Nat, NEW n \in Nat
  PROVE  m * n \in Nat
OBVIOUS

\* The place of a point in rows of n words.
LEMMA InRows ==
  ASSUME NEW m \in Nat, NEW n \in Nat, NEW x \in 0 .. n - 1, NEW y \in 0 .. m - 1
  PROVE  y * n + x \in 0 .. m * n - 1
<1>1. y * n >= 0 /\ y * n \in Int
  BY Product
<1>2. y * n + n <= m * n
  <2>1. m - y - 1 \in Nat
    OBVIOUS
  <2>2. (m - y - 1) * n >= 0
    BY <2>1, Product
  <2>3. (m - y - 1) * n = m * n - y * n - n
    OBVIOUS
  <2> QED
    BY <1>1, <2>2, <2>3
<1> QED
  BY <1>1, <1>2

\* Of n rows of m words each, the row and the column of a word.
LEMMA RowAndColumn ==
  ASSUME NEW m \in Nat \ {0}, NEW n \in Nat, NEW k \in 0 .. n * m - 1
  PROVE  k \div m \in 0 .. n - 1 /\ k % m \in 0 .. m - 1
<1>1. k \div m \in Nat /\ k % m \in 0 .. m - 1 /\ k = m * (k \div m) + (k % m)
  BY SMTT(30)
<1> DEFINE q == k \div m
<1>2. q \in Nat /\ m * q <= k
  BY <1>1
<1> HIDE DEF q
<1>3. ASSUME q >= n PROVE FALSE
  <2>1. q - n \in Nat /\ m * (q - n) >= 0
    BY <1>2, <1>3, Product
  <2>2. m * (q - n) = m * q - n * m
    BY <1>2
  <2> QED
    BY <1>2, <2>1, <2>2
<1> QED
  BY <1>1, <1>2, <1>3 DEF q

\* H is some number of lines, and a cursor that is above it on the grid is a line above.
LEMMA Divides ==
  ASSUME NEW a \in Nat \ {0}, NEW b \in Nat \ {0}, a % b = 0
  PROVE  a >= b /\ \E m \in Nat : a = m * b
<1> DEFINE q == a \div b
<1>1. q \in Nat /\ a = b * q + (a % b)
  BY SMTT(30)
<1>2. a = q * b
  <2> HIDE DEF q
  <2> QED
    BY <1>1
<1> HIDE DEF q
<1>3. q # 0
  BY <1>2
<1>4. q - 1 \in Nat /\ (q - 1) * b >= 0 /\ (q - 1) * b = a - b
  <2>1. q - 1 \in Nat
    BY <1>1, <1>3
  <2> QED
    BY <1>1, <1>2, <2>1, Product
<1> QED
  BY <1>1, <1>2, <1>4

LEMMA LineAbove ==
  ASSUME NEW b \in Nat \ {0}, NEW k \in Nat, NEW m \in Nat, k * b < m * b
  PROVE  k * b <= m * b - b
<1>1. CASE k >= m
  <2>1. k - m \in Nat /\ (k - m) * b >= 0 /\ (k - m) * b = k * b - m * b
    BY <1>1, Product
  <2> QED
    BY <2>1
<1>2. CASE k < m
  <2>1. m - k - 1 \in Nat
    BY <1>2
  <2>2. (m - k - 1) * b >= 0
    BY <2>1, Product
  <2>3. (m - k - 1) * b = m * b - k * b - b
    OBVIOUS
  <2>4. k * b \in Int /\ m * b \in Int
    OBVIOUS
  <2> QED
    BY <2>2, <2>3, <2>4
<1> QED
  BY <1>1, <1>2

-----------------------------------------------------------------------------
(***************************************************************************)
(* Sequences.                                                              *)
(***************************************************************************)
IsSeq(s) == \E S : s \in Seq(S)

LEMMA SeqFacts ==
  ASSUME NEW s, IsSeq(s)
  PROVE  /\ Len(s) \in Nat /\ DOMAIN s = 1 .. Len(s)
         /\ s # <<>> => 1 \in DOMAIN s /\ Head(s) = s[1]
<1>1. PICK S : s \in Seq(S)
  BY DEF IsSeq
<1> QED
  BY <1>1

LEMMA TailFacts ==
  ASSUME NEW s, IsSeq(s), s # <<>>
  PROVE  /\ IsSeq(Tail(s))
         /\ \A i \in DOMAIN Tail(s) : i + 1 \in DOMAIN s /\ Tail(s)[i] = s[i + 1]
<1>1. PICK S : s \in Seq(S)
  BY DEF IsSeq
<1>2. Tail(s) \in Seq(S) /\ Len(Tail(s)) = Len(s) - 1
      /\ \A i \in 1 .. Len(s) - 1 : Tail(s)[i] = s[i + 1]
  BY <1>1
<1>3. DOMAIN Tail(s) = 1 .. Len(s) - 1 /\ DOMAIN s = 1 .. Len(s) /\ Len(s) \in Nat
  BY <1>1, <1>2
<1> QED
  BY <1>2, <1>3 DEF IsSeq

\* A function on 1 .. n with values in T.
LEMMA SeqOfFunction ==
  ASSUME NEW n \in Nat, NEW T, NEW f \in [1 .. n -> T]
  PROVE  f \in Seq(T) /\ Len(f) = n /\ DOMAIN f = 1 .. n
<1>1. f \in Seq(T)
  BY SeqDef
<1> QED
  BY <1>1

Less == {ss \in Nat \X Nat : ss[1] < ss[2]}

\* Induction over a set of numbers: the least number outside T, if there were one,
\* would be the next of one in T.
LEMMA Induction ==
  ASSUME NEW N \in Nat, NEW T, 0 \in T,
         \A n \in 0 .. N - 1 : n \in T => n + 1 \in T
  PROVE  N \in T
<1> SUFFICES ASSUME N \notin T PROVE FALSE
  OBVIOUS
<1> DEFINE U == {k \in 0 .. N : k \notin T}
<1>1. OpToRel(<, Nat) = Less
  BY Zenon DEF OpToRel, Less
<1>2. IsWellFoundedOn(Less, Nat)
  BY NatLessThanWellFounded, <1>1, Zenon
<1>3. U \subseteq Nat /\ U # {}
  OBVIOUS
<1> HIDE DEF U
<1>4. PICK x \in U : \A y \in U : ~(<<y, x>> \in Less)
  BY <1>2, <1>3, WFMin, Zenon
<1>5. x \in Nat /\ \A y \in U : ~(y < x)
  BY <1>3, <1>4 DEF Less
<1>6. x \in 0 .. N /\ x \notin T /\ x # 0 /\ x - 1 \in 0 .. N - 1
  BY <1>5 DEF U
<1>7. x - 1 \in T
  BY <1>5, <1>6 DEF U
<1> QED
  BY <1>6, <1>7

\* f is, at each n, the sequences of ss up to the n-th put together.
Joins(f, ss, N) ==
  f = [n \in 1 .. N |-> IF n = 1 THEN ss[n] ELSE f[n - 1] \o ss[n]]

LEMMA JoinsValue ==
  ASSUME NEW f, NEW ss, NEW N, Joins(f, ss, N)
  PROVE  \A n \in 1 .. N : f[n] = IF n = 1 THEN ss[n] ELSE f[n - 1] \o ss[n]
BY Zenon DEF Joins

LEMMA JoinsExist ==
  ASSUME NEW ss, NEW N \in Nat \ {0}
  PROVE  \E f : Joins(f, ss, N)
<1> DEFINE T == {m \in 0 .. N - 1 : \E f : Joins(f, ss, m + 1)}
<1>1. 0 \in T
  <2> DEFINE f == [n \in 1 .. 1 |-> ss[n]]
  <2>1. f = [n \in 1 .. 1 |-> IF n = 1 THEN ss[n] ELSE f[n - 1] \o ss[n]]
    OBVIOUS
  <2>2. Joins(f, ss, 1)
    BY <2>1 DEF Joins
  <2>3. Joins(f, ss, 0 + 1)
    BY <2>2
  <2> QED
    BY <2>3
<1>2. ASSUME NEW m \in 0 .. (N - 1) - 1, m \in T PROVE m + 1 \in T
  <2>1. PICK f : Joins(f, ss, m + 1)
    BY <1>2
  <2> DEFINE M == m + 2
             g == [n \in 1 .. M |-> IF n = M THEN f[m + 1] \o ss[M] ELSE f[n]]
  <2>2. ASSUME NEW n \in 1 .. M
        PROVE  g[n] = IF n = 1 THEN ss[n] ELSE g[n - 1] \o ss[n]
    <3>1. CASE n = M
      <4>1. n # 1 /\ n - 1 = m + 1 /\ m + 1 \in 1 .. M /\ m + 1 # M
        BY <3>1
      <4>2. g[n] = f[m + 1] \o ss[n]
        BY <3>1
      <4>3. g[n - 1] = f[m + 1]
        BY <4>1
      <4> QED
        BY <4>1, <4>2, <4>3, Zenon
    <3>2. CASE n # M
      <4>1. n \in 1 .. m + 1 /\ g[n] = f[n] /\ (n # 1 => g[n - 1] = f[n - 1])
        BY <3>2
      <4>2. f[n] = IF n = 1 THEN ss[n] ELSE f[n - 1] \o ss[n]
        BY <2>1, <4>1, JoinsValue
      <4> QED
        BY <4>1, <4>2, Zenon
    <3> QED
      BY <3>1, <3>2
  <2>3. g = [n \in 1 .. M |-> g[n]]
    OBVIOUS
  <2> HIDE DEF g
  <2>4. Joins(g, ss, M)
    BY <2>2, <2>3, Zenon DEF Joins
  <2>5. m + 1 \in 0 .. N - 1 /\ (m + 1) + 1 = M
    OBVIOUS
  <2> QED
    BY <2>4, <2>5
<1>3. N - 1 \in T
  <2> HIDE DEF T
  <2>1. N - 1 \in Nat
    OBVIOUS
  <2> QED
    BY <1>1, <1>2, <2>1, Induction
<1>4. (N - 1) + 1 = N
  OBVIOUS
<1> QED
  BY <1>3, <1>4

LEMMA FlattenTyped ==
  ASSUME NEW T, NEW ss, IsSeq(ss), \A i \in DOMAIN ss : ss[i] \in Seq(T)
  PROVE  FlattenSeq(ss) \in Seq(T)
<1> DEFINE N == Len(ss)
           flat == CHOOSE f : Joins(f, ss, N)
<1>1. N \in Nat /\ DOMAIN ss = 1 .. N
  BY SeqFacts
<1>2. CASE N = 0
  <2>1. FlattenSeq(ss) = ss
    BY <1>2 DEF FlattenSeq
  <2>2. PICK S : ss \in Seq(S)
    BY DEF IsSeq
  <2>3. ss = <<>>
    BY <1>2, <2>2
  <2> QED
    BY <2>1, <2>3
<1>3. CASE N # 0
  <2>1. FlattenSeq(ss) = flat[N]
    BY <1>3 DEF FlattenSeq, Joins
  <2>2. Joins(flat, ss, N)
    BY <1>1, <1>3, JoinsExist
  <2> DEFINE U == {m \in 0 .. N - 1 : flat[m + 1] \in Seq(T)}
  <2> HIDE DEF flat
  <2>3. \A n \in 1 .. N : flat[n] = IF n = 1 THEN ss[n] ELSE flat[n - 1] \o ss[n]
    BY <2>2, JoinsValue
  <2>4. 0 \in U
    BY <1>1, <1>3, <2>3
  <2>5. ASSUME NEW m \in 0 .. (N - 1) - 1, m \in U PROVE m + 1 \in U
    <3>1. flat[m + 1] \in Seq(T) /\ m + 2 \in 1 .. N /\ (m + 2) - 1 = m + 1 /\ m + 2 # 1
      BY <1>1, <2>5
    <3>2. flat[m + 2] = flat[m + 1] \o ss[m + 2]
      BY <2>3, <3>1
    <3>3. ss[m + 2] \in Seq(T)
      BY <1>1, <3>1
    <3>4. flat[m + 2] \in Seq(T)
      BY <3>1, <3>2, <3>3
    <3>5. (m + 1) + 1 = m + 2 /\ m + 1 \in 0 .. N - 1
      BY <1>1
    <3> QED
      BY <3>4, <3>5
  <2>6. N - 1 \in U
    <3> HIDE DEF U, N
    <3>1. N - 1 \in Nat
      BY <1>1, <1>3
    <3> QED
      BY <2>4, <2>5, <3>1, Induction
  <2> QED
    BY <1>1, <2>1, <2>6
<1> QED
  BY <1>2, <1>3

LEMMA KeptTyped ==
  ASSUME NEW T, NEW S, NEW points \in Seq(T)
  PROVE  Kept(points, S) \in Seq(T \cap S)
<1> DEFINE ss == [i \in DOMAIN points |-> IF points[i] \in S THEN <<points[i]>> ELSE <<>>]
<1>1. DOMAIN points = 1 .. Len(points) /\ Len(points) \in Nat
      /\ \A i \in 1 .. Len(points) : points[i] \in T
  BY ElementOfSeq
<1>2. ASSUME NEW i \in 1 .. Len(points) PROVE ss[i] \in Seq(T \cap S)
  <2>1. points[i] \in S => <<points[i]>> \in Seq(T \cap S)
    BY <1>1
  <2>2. <<>> \in Seq(T \cap S)
    OBVIOUS
  <2> QED
    BY <1>1, <2>1, <2>2
<1>3. ss \in [1 .. Len(points) -> Seq(T \cap S)]
  BY <1>1, <1>2
<1>4. ss \in Seq(Seq(T \cap S)) /\ DOMAIN ss = 1 .. Len(points)
  BY <1>1, <1>3, SeqOfFunction, Zenon
<1> HIDE DEF ss
<1>5. IsSeq(ss) /\ \A i \in DOMAIN ss : ss[i] \in Seq(T \cap S)
  BY <1>2, <1>4 DEF IsSeq
<1>6. FlattenSeq(ss) \in Seq(T \cap S)
  BY <1>5, FlattenTyped
<1> QED
  BY <1>6 DEF Kept, ss

-----------------------------------------------------------------------------
(***************************************************************************)
(* The words of a shape.                                                   *)
(***************************************************************************)
Inside(writes, A) ==
  IsSeq(writes) /\ \A i \in DOMAIN writes : writes[i].at \in A

LEMMA RasterTyped ==
  ASSUME NEW r \in Int, NEW rowEnd \in Int, NEW c \in Int, NEW colEnd \in Int
  PROVE  Raster(r, rowEnd, c, colEnd) \in Seq((r .. rowEnd - 1) \X (c .. colEnd - 1))
<1> DEFINE S == (r .. rowEnd - 1) \X (c .. colEnd - 1)
<1>1. CASE rowEnd <= r \/ colEnd <= c
  <2>1. Raster(r, rowEnd, c, colEnd) = <<>>
    BY <1>1 DEF Raster
  <2>2. <<>> \in Seq(S)
    OBVIOUS
  <2> QED
    BY <2>1, <2>2
<1>2. CASE ~(rowEnd <= r \/ colEnd <= c)
  <2> DEFINE n == rowEnd - r
             m == colEnd - c
             f == [i \in 1 .. n * m |-> <<r + ((i - 1) \div m), c + ((i - 1) % m)>>]
  <2>1. n \in Nat \ {0} /\ m \in Nat \ {0} /\ rowEnd = r + n /\ colEnd = c + m
    BY <1>2
  <2>2. Raster(r, rowEnd, c, colEnd) = f
    BY <1>2 DEF Raster
  <2> HIDE DEF n, m
  <2>3. n * m \in Nat
    BY <2>1, Product
  <2>4. ASSUME NEW i \in 1 .. n * m PROVE f[i] \in S
    <3>1. i - 1 \in 0 .. n * m - 1
      BY <2>3
    <3> DEFINE q == (i - 1) \div m
               k == (i - 1) % m
    <3>2. q \in 0 .. n - 1 /\ k \in 0 .. m - 1
      BY <2>1, <3>1, RowAndColumn
    <3>3. f[i] = <<r + q, c + k>>
      OBVIOUS
    <3> HIDE DEF q, k
    <3>4. r + q \in r .. rowEnd - 1 /\ c + k \in c .. colEnd - 1
      BY <2>1, <3>2
    <3> QED
      BY <3>3, <3>4
  <2>5. f \in [1 .. n * m -> S]
    <3> HIDE DEF S
    <3> QED
      BY <2>4
  <2> HIDE DEF f, S
  <2>6. f \in Seq(S)
    BY <2>3, <2>5, SeqOfFunction, Zenon
  <2> QED
    BY <2>2, <2>6 DEF S
<1> QED
  BY <1>1, <1>2

LEMMA CountingTyped ==
  ASSUME NEW a \in Int, NEW b \in Int
  PROVE  Counting(a, b) \in Seq(a .. b - 1)
<1>1. CASE b <= a
  <2>1. Counting(a, b) = <<>> /\ <<>> \in Seq(a .. b - 1)
    BY <1>1 DEF Counting
  <2> QED
    BY <2>1
<1>2. CASE b > a
  <2> DEFINE f == [i \in 1 .. b - a |-> a + i - 1]
  <2>1. Counting(a, b) = f /\ b - a \in Nat
    BY <1>2 DEF Counting
  <2>2. f \in [1 .. b - a -> a .. b - 1]
    OBVIOUS
  <2> HIDE DEF f
  <2> QED
    BY <2>1, <2>2, SeqOfFunction, Zenon
<1> QED
  BY <1>1, <1>2

LEMMA WritesInside ==
  ASSUME NEW points, points \in Seq(OnScreen), NEW c
  PROVE  Inside(Writes(points, c), Words)
<1> DEFINE n == Len(points)
           f == Writes(points, c)
           T == [at : Words, color : {c}]
<1>1. n \in Nat /\ DOMAIN points = 1 .. n /\ \A i \in 1 .. n : points[i] \in OnScreen
  BY ElementOfSeq
<1>2. f = [i \in 1 .. n |-> [at |-> Word(points[i][2], points[i][1]), color |-> c]]
  BY <1>1 DEF Writes
<1>3. ASSUME NEW i \in 1 .. n PROVE Word(points[i][2], points[i][1]) \in Words
  <2>1. points[i][1] \in 0 .. H - 1 /\ points[i][2] \in 0 .. W - 1
    BY <1>1 DEF OnScreen
  <2>2. points[i][1] * W + points[i][2] \in 0 .. H * W - 1
    BY <2>1, Constant, InRows
  <2>3. H * W = W * H
    BY Constant
  <2> QED
    BY <2>2, <2>3 DEF Word, Words
<1> DEFINE value(i) == [at |-> Word(points[i][2], points[i][1]), color |-> c]
<1> HIDE DEF n
<1>4. f \in [1 .. n -> T]
  <2>1. ASSUME NEW i \in 1 .. n PROVE value(i) \in T
    BY <1>3
  <2>2. f = [i \in 1 .. n |-> value(i)]
    BY <1>2
  <2> HIDE DEF value, f, T
  <2> QED
    BY <2>1, <2>2
<1> HIDE DEF f
<1>5. f \in Seq(T) /\ DOMAIN f = 1 .. n
  BY <1>1, <1>4, SeqOfFunction, Zenon
<1>6. \A i \in 1 .. n : f[i].at \in Words
  <2>1. \A i \in 1 .. n : f[i] \in T
    BY <1>4
  <2> QED
    BY <2>1
<1> QED
  BY <1>5, <1>6 DEF Inside, IsSeq, f

LEMMA PutpixelsInside ==
  ASSUME NEW points, points \in Seq(Int \X Int), NEW c
  PROVE  Inside(Putpixels(points, c), Words)
<1>1. Kept(points, OnScreen) \in Seq((Int \X Int) \cap OnScreen)
  BY KeptTyped
<1>2. (Int \X Int) \cap OnScreen = OnScreen
  BY Constant DEF OnScreen
<1>3. Kept(points, OnScreen) \in Seq(OnScreen)
  BY <1>1, <1>2
<1> QED
  BY <1>3, WritesInside DEF Putpixels

LEMMA ClearInside ==
  ASSUME NEW c
  PROVE  Inside(ClearWrites(c), Words)
<1> DEFINE f == ClearWrites(c)
           T == [at : Words, color : {c}]
<1>1. Pixels \in Nat /\ Words = 0 .. Pixels - 1
  BY Constant, Product DEF Pixels, Words
<1> HIDE DEF T
<1>2. ASSUME NEW i \in 1 .. Pixels PROVE [at |-> i - 1, color |-> c] \in T
  BY <1>1 DEF T
<1>3. f \in [1 .. Pixels -> T]
  BY <1>2 DEF ClearWrites
<1> HIDE DEF f
<1>4. f \in Seq(T) /\ DOMAIN f = 1 .. Pixels
  BY <1>1, <1>3, SeqOfFunction, Zenon
<1>5. \A i \in 1 .. Pixels : f[i].at \in Words
  BY <1>3 DEF T
<1> QED
  BY <1>4, <1>5 DEF Inside, IsSeq, f

LEMMA LesserTyped ==
  ASSUME NEW a \in Int, NEW b \in Int
  PROVE  Lesser(a, b) \in Int /\ Lesser(a, b) <= a /\ Lesser(a, b) <= b
BY DEF Lesser

LEMMA SubSeqType ==
  ASSUME NEW S, NEW T, S \subseteq T, NEW s \in Seq(S)
  PROVE  s \in Seq(T)
OBVIOUS

\* The loops of bga_fill_rect and of vga_draw_rect stop at the edges; what they
\* begin with is for them to say.
LEMMA RasterWithin ==
  ASSUME NEW x \in Nat, NEW y \in Nat, NEW right \in Int, NEW bottom \in Int,
         NEW m \in Nat, NEW n \in Nat, right <= m, bottom <= n
  PROVE  Raster(y, bottom, x, right) \in Seq((0 .. n - 1) \X (0 .. m - 1))
<1>1. Raster(y, bottom, x, right) \in Seq((y .. bottom - 1) \X (x .. right - 1))
  BY RasterTyped
<1>2. (y .. bottom - 1) \X (x .. right - 1) \subseteq (0 .. n - 1) \X (0 .. m - 1)
  OBVIOUS
<1> QED
  BY <1>1, <1>2, SubSeqType

LEMMA FillInside ==
  ASSUME NEW x \in Int, NEW y \in Int, NEW w \in Int, NEW h \in Int, NEW c
  PROVE  Inside(FillWrites(x, y, w, h, c), Words)
<1>1. FirstFrom(x) \in Nat /\ FirstFrom(y) \in Nat
  BY DEF FirstFrom
<1>2. /\ Lesser(y + h, H) \in Int /\ Lesser(y + h, H) <= H
      /\ Lesser(x + w, W) \in Int /\ Lesser(x + w, W) <= W
  <2>1. x + w \in Int /\ y + h \in Int /\ W \in Int /\ H \in Int
    BY Constant
  <2> QED
    BY <2>1, LesserTyped
<1>3. Raster(FirstFrom(y), Lesser(y + h, H), FirstFrom(x), Lesser(x + w, W)) \in Seq(OnScreen)
  BY <1>1, <1>2, Constant, RasterWithin DEF OnScreen
<1> QED
  BY <1>3, WritesInside DEF FillWrites

LEMMA PairsTyped ==
  ASSUME NEW s, s \in Seq(Int), NEW ss, DOMAIN ss = DOMAIN s,
         ss = [i \in DOMAIN s |-> ss[i]],
         \A i \in DOMAIN s : ss[i] \in Seq(Int \X Int)
  PROVE  FlattenSeq(ss) \in Seq(Int \X Int)
<1>1. Len(s) \in Nat /\ DOMAIN s = 1 .. Len(s)
  OBVIOUS
<1>2. ss \in [1 .. Len(s) -> Seq(Int \X Int)]
  BY <1>1
<1>3. ss \in Seq(Seq(Int \X Int)) /\ DOMAIN ss = 1 .. Len(s)
  BY <1>1, <1>2, SeqOfFunction, Zenon
<1> QED
  BY <1>1, <1>3, FlattenTyped DEF IsSeq

LEMMA RectInside ==
  ASSUME NEW x \in Int, NEW y \in Int, NEW w \in Int, NEW h \in Int, NEW c
  PROVE  Inside(RectWrites(x, y, w, h, c), Words)
<1> DEFINE across == Counting(x, Lesser(x + w, W))
           down   == Counting(y, Lesser(y + h, H))
           rows == [i \in DOMAIN across |-> << <<y, across[i]>>, <<y + h - 1, across[i]>> >>]
           cols == [i \in DOMAIN down |-> << <<down[i], x>>, <<down[i], x + w - 1>> >>]
<1>1. across \in Seq(Int) /\ down \in Seq(Int)
  <2>1. Lesser(x + w, W) \in Int /\ Lesser(y + h, H) \in Int
    <3>1. x + w \in Int /\ y + h \in Int /\ W \in Int /\ H \in Int
      BY Constant
    <3> QED
      BY <3>1, LesserTyped
  <2>2. /\ across \in Seq(x .. Lesser(x + w, W) - 1)
        /\ down \in Seq(y .. Lesser(y + h, H) - 1)
    BY <2>1, CountingTyped
  <2>3. x .. Lesser(x + w, W) - 1 \subseteq Int /\ y .. Lesser(y + h, H) - 1 \subseteq Int
    BY <2>1
  <2> HIDE DEF across, down
  <2> QED
    BY <2>2, <2>3, SubSeqType
<1>2. RectWrites(x, y, w, h, c) = Putpixels(FlattenSeq(rows) \o FlattenSeq(cols), c)
  BY DEF RectWrites
<1> HIDE DEF across, down
<1>3. FlattenSeq(rows) \in Seq(Int \X Int)
  <2>1. ASSUME NEW i \in DOMAIN across PROVE rows[i] \in Seq(Int \X Int)
    <3>1. across[i] \in Int
      BY <1>1
    <3>2. <<y, across[i]>> \in Int \X Int /\ <<y + h - 1, across[i]>> \in Int \X Int
      BY <3>1
    <3> QED
      BY <3>2
  <2> QED
    BY <1>1, <2>1, PairsTyped
<1>4. FlattenSeq(cols) \in Seq(Int \X Int)
  <2>1. ASSUME NEW i \in DOMAIN down PROVE cols[i] \in Seq(Int \X Int)
    <3>1. down[i] \in Int
      BY <1>1
    <3>2. <<down[i], x>> \in Int \X Int /\ <<down[i], x + w - 1>> \in Int \X Int
      BY <3>1
    <3> QED
      BY <3>2
  <2> QED
    BY <1>1, <2>1, PairsTyped
<1>5. FlattenSeq(rows) \o FlattenSeq(cols) \in Seq(Int \X Int)
  BY <1>3, <1>4
<1> QED
  BY <1>2, <1>5, PutpixelsInside

LEMMA CharInside ==
  ASSUME NEW x \in Int, NEW y \in Int, NEW char, NEW c
  PROVE  Inside(CharWrites(x, y, char, c), Words)
<1> DEFINE set == Kept(Raster(0, CHAR_H, 0, CHAR_W), Glyph[char])
           points == [i \in DOMAIN set |-> <<y + set[i][1], x + set[i][2]>>]
<1>1. set \in Seq(((0 .. CHAR_H - 1) \X (0 .. CHAR_W - 1)) \cap Glyph[char])
  <2>1. Raster(0, CHAR_H, 0, CHAR_W) \in Seq((0 .. CHAR_H - 1) \X (0 .. CHAR_W - 1))
    BY Constant, RasterTyped
  <2> QED
    BY <2>1, KeptTyped
<1>2. CharWrites(x, y, char, c) = Putpixels(points, c)
  BY DEF CharWrites
<1> HIDE DEF set
<1>3. Len(set) \in Nat /\ DOMAIN set = 1 .. Len(set)
      /\ \A i \in 1 .. Len(set) : set[i] \in (0 .. CHAR_H - 1) \X (0 .. CHAR_W - 1)
  BY <1>1, ElementOfSeq
<1>4. ASSUME NEW i \in 1 .. Len(set) PROVE <<y + set[i][1], x + set[i][2]>> \in Int \X Int
  <2>1. set[i] \in (0 .. CHAR_H - 1) \X (0 .. CHAR_W - 1)
    BY <1>3
  <2>2. set[i][1] \in 0 .. CHAR_H - 1 /\ set[i][2] \in 0 .. CHAR_W - 1
    BY <2>1
  <2>3. y + set[i][1] \in Int /\ x + set[i][2] \in Int
    <3> DEFINE row == set[i][1]
               col == set[i][2]
    <3>1. CHAR_H \in Int /\ CHAR_W \in Int
      BY Constant
    <3> HIDE DEF row, col
    <3>2. row \in Int /\ col \in Int
      BY <2>2, <3>1 DEF row, col
    <3>3. y + row \in Int /\ x + col \in Int
      BY <3>2
    <3> QED
      BY <3>3 DEF row, col
  <2> QED
    BY <2>3
<1>5. points \in [1 .. Len(set) -> Int \X Int]
  BY <1>3, <1>4
<1> HIDE DEF points
<1>6. points \in Seq(Int \X Int)
  BY <1>3, <1>5, SeqOfFunction, Zenon
<1> QED
  BY <1>2, <1>6, PutpixelsInside

LEMMA BmpInside ==
  ASSUME NEW x \in Int, NEW y \in Int, NEW image, image # Null,
         image.w \in Nat, image.h \in Nat
  PROVE  Inside(BmpWrites(x, y, image), Words)
<1> DEFINE color(p) == image.rows[BmpRow(image, p[1])][p[2] + 1]
           S == {p \in (0 .. image.h - 1) \X (0 .. image.w - 1) :
                   color(p) # "clear" /\ <<y + p[1], x + p[2]>> \in OnScreen}
           cells == Raster(0, image.h, 0, image.w)
           drawn == Kept(cells, S)
           f == [i \in DOMAIN drawn |-> [at |-> Word(x + drawn[i][2], y + drawn[i][1]),
                                         color |-> color(drawn[i])]]
<1>1. BmpWrites(x, y, image)
        \in {FillWrites(x, y, ErrorSize, ErrorSize, "red"),
             FillWrites(x, y, ErrorSize, ErrorSize, "yellow"), f}
  BY DEF BmpWrites
<1>2. \A c \in {"red", "yellow"} : Inside(FillWrites(x, y, ErrorSize, ErrorSize, c), Words)
  <2>1. ErrorSize \in Int
    BY DEF ErrorSize
  <2> QED
    BY <2>1, FillInside
<1>3. Inside(f, Words)
  <2>1. cells \in Seq((0 .. image.h - 1) \X (0 .. image.w - 1))
    <3>1. image.h \in Int /\ image.w \in Int /\ 0 \in Int
      OBVIOUS
    <3> QED
      BY <3>1, RasterTyped, Zenon
  <2>2. drawn \in Seq(((0 .. image.h - 1) \X (0 .. image.w - 1)) \cap S)
    <3> HIDE DEF cells, S
    <3> QED
      BY <2>1, KeptTyped
  <2> DEFINE n == Len(drawn)
             value(i) == [at |-> Word(x + drawn[i][2], y + drawn[i][1]),
                          color |-> color(drawn[i])]
             T == {value(i) : i \in 1 .. n}
  <2> HIDE DEF cells, drawn
  <2>3. n \in Nat /\ DOMAIN drawn = 1 .. n /\ \A i \in 1 .. n : drawn[i] \in S
    <3> HIDE DEF S
    <3> QED
      BY <2>2, ElementOfSeq
  <2>4. ASSUME NEW i \in 1 .. n PROVE Word(x + drawn[i][2], y + drawn[i][1]) \in Words
    <3> DEFINE row == y + drawn[i][1]
               col == x + drawn[i][2]
    <3>1. <<row, col>> \in OnScreen
      BY <2>3
    <3> HIDE DEF row, col
    <3>2. row \in 0 .. H - 1 /\ col \in 0 .. W - 1
      BY <3>1 DEF OnScreen
    <3>3. row * W + col \in 0 .. H * W - 1
      BY <3>2, Constant, InRows
    <3>4. H * W = W * H
      BY Constant
    <3>5. Word(col, row) \in Words
      BY <3>3, <3>4 DEF Word, Words
    <3> QED
      BY <3>5 DEF row, col
  <2>5. f = [i \in 1 .. n |-> value(i)]
    BY <2>3
  <2>6. \A i \in 1 .. n : value(i).at \in Words
    BY <2>4
  <2> HIDE DEF value, f, n
  <2>7. f \in [1 .. n -> T] /\ \A i \in 1 .. n : f[i].at \in Words
    BY <2>5, <2>6
  <2> HIDE DEF T
  <2>8. f \in Seq(T) /\ DOMAIN f = 1 .. n
    BY <2>3, <2>7, SeqOfFunction, Zenon
  <2> QED
    BY <2>7, <2>8 DEF Inside, IsSeq
<1> HIDE DEF f
<1> QED
  BY <1>1, <1>2, <1>3

-----------------------------------------------------------------------------
(***************************************************************************)
(* The cells of a text shape.                                              *)
(***************************************************************************)
LEMMA CellInside ==
  ASSUME NEW x \in 0 .. VGA_WIDTH - 1, NEW y \in 0 .. VGA_HEIGHT - 1
  PROVE  CellAt(x, y) \in TextWords
<1>1. y * VGA_WIDTH + x \in 0 .. VGA_HEIGHT * VGA_WIDTH - 1
  BY Constant, InRows
<1>2. VGA_HEIGHT * VGA_WIDTH = VGA_WIDTH * VGA_HEIGHT
  BY Constant
<1> QED
  BY <1>1, <1>2 DEF CellAt, TextWords, Cells

LEMMA VgaClearInside == Inside(VgaClearWrites, TextWords)
<1> DEFINE f == VgaClearWrites
           T == [at : TextWords, char : {" "}, attr : {vga_attr}]
<1>1. Cells \in Nat /\ TextWords = 0 .. Cells - 1
  BY Constant, Product DEF Cells, TextWords
<1>2. ASSUME NEW i \in 1 .. Cells PROVE [at |-> i - 1, char |-> " ", attr |-> vga_attr] \in T
  BY <1>1
<1> HIDE DEF T
<1>3. f \in [1 .. Cells -> T]
  BY <1>2 DEF VgaClearWrites
<1> HIDE DEF f
<1>4. f \in Seq(T) /\ DOMAIN f = 1 .. Cells
  BY <1>1, <1>3, SeqOfFunction, Zenon
<1>5. \A i \in 1 .. Cells : f[i].at \in TextWords
  BY <1>3 DEF T
<1> QED
  BY <1>4, <1>5 DEF Inside, IsSeq, f

LEMMA VgaRectInside ==
  ASSUME NEW x \in Nat, NEW y \in Nat, NEW w \in Int, NEW h \in Int, NEW c
  PROVE  Inside(VgaRectWrites(x, y, w, h, c), TextWords)
<1> DEFINE points == Raster(y, Lesser(y + h, VGA_HEIGHT), x, Lesser(x + w, VGA_WIDTH))
           n == Len(points)
           value(i) == [at |-> CellAt(points[i][2], points[i][1]),
                        char |-> "block", attr |-> Attr(c, c)]
           f == [i \in DOMAIN points |-> value(i)]
           T == {value(i) : i \in 1 .. n}
<1>1. points \in Seq((0 .. VGA_HEIGHT - 1) \X (0 .. VGA_WIDTH - 1))
  <2>1. x + w \in Int /\ y + h \in Int /\ VGA_WIDTH \in Nat /\ VGA_HEIGHT \in Nat
    BY Constant
  <2>2. /\ Lesser(y + h, VGA_HEIGHT) \in Int /\ Lesser(y + h, VGA_HEIGHT) <= VGA_HEIGHT
        /\ Lesser(x + w, VGA_WIDTH) \in Int /\ Lesser(x + w, VGA_WIDTH) <= VGA_WIDTH
    BY <2>1, LesserTyped
  <2> QED
    BY <2>1, <2>2, RasterWithin
<1>2. VgaRectWrites(x, y, w, h, c) = f
  BY DEF VgaRectWrites
<1> HIDE DEF points
<1>3. n \in Nat /\ DOMAIN points = 1 .. n
      /\ \A i \in 1 .. n : points[i] \in (0 .. VGA_HEIGHT - 1) \X (0 .. VGA_WIDTH - 1)
  BY <1>1, ElementOfSeq
<1>4. ASSUME NEW i \in 1 .. n PROVE value(i).at \in TextWords
  <2>1. points[i][1] \in 0 .. VGA_HEIGHT - 1 /\ points[i][2] \in 0 .. VGA_WIDTH - 1
    BY <1>3
  <2> QED
    BY <2>1, CellInside
<1> HIDE DEF value, n
<1>5. f \in [1 .. n -> T] /\ \A i \in 1 .. n : f[i].at \in TextWords
  BY <1>3, <1>4
<1> HIDE DEF T, f
<1>6. f \in Seq(T) /\ DOMAIN f = 1 .. n
  BY <1>3, <1>5, SeqOfFunction, Zenon
<1> QED
  BY <1>2, <1>5, <1>6 DEF Inside, IsSeq

\* vga_draw_box writes nothing unless the box fits; one that has no extent would have a
\* side left of its position, or a bottom above it.
LEMMA VgaBoxInside ==
  ASSUME NEW x \in Int, NEW y \in Int, NEW w \in Nat \ {0}, NEW h \in Nat \ {0}
  PROVE  Inside(VgaBoxWrites(x, y, w, h), TextWords)
<1> DEFINE along(row) == [i \in 1 .. w |-> [at |-> CellAt(x + i - 1, row), char |-> "=",
                                            attr |-> vga_attr]]
           side(col, row) == [at |-> CellAt(col, row), char |-> "|", attr |-> vga_attr]
           down  == Counting(y + 1, y + h - 1)
           sides == [i \in DOMAIN down |-> <<side(x, down[i]), side(x + w - 1, down[i])>>]
           all   == along(y) \o along(y + h - 1) \o FlattenSeq(sides)
           T     == [at : TextWords, char : {"=", "|"}, attr : {vga_attr}]
<1>1. CASE x < 0 \/ y < 0 \/ x + w > VGA_WIDTH \/ y + h > VGA_HEIGHT
  <2>1. VgaBoxWrites(x, y, w, h) = <<>>
    BY <1>1 DEF VgaBoxWrites
  <2>2. <<>> \in Seq({}) /\ DOMAIN <<>> = {}
    OBVIOUS
  <2> QED
    BY <2>1, <2>2 DEF Inside, IsSeq
<1>2. CASE x >= 0 /\ y >= 0 /\ x + w <= VGA_WIDTH /\ y + h <= VGA_HEIGHT
  <2>1. VgaBoxWrites(x, y, w, h) = all
    BY <1>2, Constant DEF VgaBoxWrites
  <2>2. ASSUME NEW row \in 0 .. VGA_HEIGHT - 1 PROVE along(row) \in Seq(T)
    <3>1. ASSUME NEW i \in 1 .. w
          PROVE  [at |-> CellAt(x + i - 1, row), char |-> "=", attr |-> vga_attr] \in T
      <4>1. x + i - 1 \in 0 .. VGA_WIDTH - 1
        BY <1>2, Constant
      <4>2. CellAt(x + i - 1, row) \in TextWords
        BY <4>1, CellInside
      <4> QED
        BY <4>2
    <3> HIDE DEF T
    <3>2. along(row) \in [1 .. w -> T]
      BY <3>1
    <3> HIDE DEF along
    <3> QED
      BY <3>2, SeqOfFunction
  <2>3. FlattenSeq(sides) \in Seq(T)
    <3>1. down \in Seq(y + 1 .. y + h - 1 - 1)
      BY CountingTyped
    <3> HIDE DEF down
    <3>2. Len(down) \in Nat /\ DOMAIN down = 1 .. Len(down)
          /\ \A i \in 1 .. Len(down) : down[i] \in y + 1 .. y + h - 1 - 1
      BY <3>1, ElementOfSeq
    <3>3. ASSUME NEW i \in 1 .. Len(down)
          PROVE  <<side(x, down[i]), side(x + w - 1, down[i])>> \in Seq(T)
      <4>1. down[i] \in 0 .. VGA_HEIGHT - 1
        BY <1>2, <3>2, Constant
      <4>2. x \in 0 .. VGA_WIDTH - 1 /\ x + w - 1 \in 0 .. VGA_WIDTH - 1
        BY <1>2, Constant
      <4>3. CellAt(x, down[i]) \in TextWords /\ CellAt(x + w - 1, down[i]) \in TextWords
        BY <4>1, <4>2, CellInside
      <4>4. side(x, down[i]) \in T /\ side(x + w - 1, down[i]) \in T
        BY <4>3
      <4> HIDE DEF side, T
      <4> QED
        BY <4>4
    <3> HIDE DEF T, side
    <3>4. sides \in [1 .. Len(down) -> Seq(T)]
      BY <3>2, <3>3
    <3> HIDE DEF sides
    <3>5. sides \in Seq(Seq(T)) /\ DOMAIN sides = 1 .. Len(down)
      BY <3>2, <3>4, SeqOfFunction, Zenon
    <3> QED
      BY <3>4, <3>5, FlattenTyped DEF IsSeq
  <2>4. y \in 0 .. VGA_HEIGHT - 1 /\ y + h - 1 \in 0 .. VGA_HEIGHT - 1
    BY <1>2, Constant
  <2>5. along(y) \in Seq(T) /\ along(y + h - 1) \in Seq(T)
    BY <2>2, <2>4
  <2> HIDE DEF T, along, sides
  <2>6. all \in Seq(T)
    BY <2>3, <2>5
  <2> HIDE DEF all
  <2>7. \A i \in DOMAIN all : all[i] \in T
    BY <2>6
  <2>8. \A i \in DOMAIN all : all[i].at \in TextWords
    BY <2>7 DEF T
  <2> QED
    BY <2>1, <2>6, <2>8 DEF Inside, IsSeq
<1> QED
  BY <1>1, <1>2, Constant

-----------------------------------------------------------------------------
(***************************************************************************)
(* The calls of the programs.                                              *)
(***************************************************************************)
\* The text shapes that vga.c does not clip, which no wrapper asks for, begin on the
\* screen and have an extent.
OnText(call) ==
  /\ call.kind = "vga_rect" => call.x >= 0 /\ call.y >= 0
  /\ call.kind = "vga_box" => call.w >= 1 /\ call.h >= 1
ShapesOnText == \A call \in Requests : OnText(call)

Strings == Seq(DOMAIN Glyph \cup {Newline})

LEMMA Short ==
  ASSUME NEW S, NEW a \in S, NEW b \in S, NEW c \in S
  PROVE  <<a>> \in Seq(S) /\ <<a, b>> \in Seq(S) /\ <<a, b, c>> \in Seq(S)
OBVIOUS

LEMMA Texts ==
  /\ <<"o">> \in Strings /\ <<"o", "o">> \in Strings
  /\ <<"o", " ", "o">> \in Strings /\ <<"o", ".", "o">> \in Strings
<1> DEFINE S == DOMAIN Glyph \cup {Newline}
<1>1. {"o", " ", "."} \subseteq DOMAIN Glyph
  BY ScreenAssumption, Zenon
<1>2. "o" \in S /\ " " \in S /\ "." \in S
  BY <1>1
<1>3. Strings = Seq(S)
  BY DEF Strings
<1> HIDE DEF S
<1> QED
  BY <1>2, <1>3, Short, Zenon

\* The requests can be shown, on the text screen.
TextsShowable == \A call \in Requests : Showable(call)

Good(call) == /\ Typed(call) /\ TextTyped(call) /\ (ShapesOnText => OnText(call))
              /\ TextsShowable => Showable(call)
ScriptOK(s) == \E S : s \in Seq(S) /\ \A call \in S : Good(call)

LEMMA RequestsGood == \A call \in Requests : Good(call)
BY RequestsAssumption, TextRequestsAssumption DEF Good, ShapesOnText, TextsShowable

\* Short texts are sequences.
LEMMA ShortIsSeq ==
  /\ \A a : IsSeq(<<a>>)
  /\ \A a, b : IsSeq(<<a, b>>)
  /\ \A a, b, c, d, e : IsSeq(<<a, b, c, d, e>>)
<1>1. ASSUME NEW a PROVE IsSeq(<<a>>)
  <2>1. <<a>> \in Seq({a})
    OBVIOUS
  <2> QED
    BY <2>1 DEF IsSeq
<1>2. ASSUME NEW a, NEW b PROVE IsSeq(<<a, b>>)
  <2>1. <<a, b>> \in Seq({a, b})
    OBVIOUS
  <2> QED
    BY <2>1 DEF IsSeq
<1>3. ASSUME NEW a, NEW b, NEW c, NEW d, NEW e PROVE IsSeq(<<a, b, c, d, e>>)
  <2>1. <<a, b, c, d, e>> \in Seq({a, b, c, d, e})
    OBVIOUS
  <2> QED
    BY <2>1 DEF IsSeq
<1> QED
  BY <1>1, <1>2, <1>3

\* A sequence is one of its own elements.
LEMMA OfItsElements == ASSUME NEW s, IsSeq(s) PROVE s \in Seq(Range(s))
<1>1. PICK S : s \in Seq(S)
  BY DEF IsSeq
<1>2. \A i \in 1 .. Len(s) : s[i] \in Range(s)
  BY <1>1 DEF Range
<1> QED
  BY <1>1, <1>2

LEMMA GraphicsGood ==
  /\ Good(None) /\ Good(GfxClear)
  /\ \A c : Good(ClearColor(c))
  /\ \A x, y, w, h \in Int : \A c : Good(FillRect(x, y, w, h, c))
  /\ \A x, y \in Int : \A s \in Strings : Good(PrintAt(x, y, s))
  /\ \A x, y \in Int : Good(DrawBmp(x, y, Icon))
  /\ \A p \in DOMAIN Script : Good(Create(p))
<1> USE DEF Good, Typed, TextTyped, OnText, Kinds, TextKinds, Showable
<1>1. Good(None) /\ Good(GfxClear)
  BY DEF None, GfxClear
<1>2. \A c : Good(ClearColor(c))
  BY DEF ClearColor
<1>3. \A x, y, w, h \in Int : \A c : Good(FillRect(x, y, w, h, c))
  BY DEF FillRect
<1>4. \A x, y \in Int : \A s \in Strings : Good(PrintAt(x, y, s))
  BY DEF PrintAt, Strings
<1>5. \A x, y \in Int : Good(DrawBmp(x, y, Icon))
  BY Constant DEF DrawBmp
<1>6. \A p \in DOMAIN Script : Good(Create(p))
  BY DEF Create
<1> QED
  BY <1>1, <1>2, <1>3, <1>4, <1>5, <1>6

LEMMA TextGood ==
  /\ \A s : IsSeq(s) => Good(Say(s))
  /\ Good(ClearText)
  /\ \A fg, bg \in 0 .. 15 : Good(SetAttr(fg, bg))
  /\ \A x, y \in Int : \A s : IsSeq(s) => Good(PrintAtCell(x, y, s))
<1> USE DEF Good, Typed, TextTyped, OnText, Kinds, TextKinds, Showable, NumberAsked
<1>1. \A s : IsSeq(s) => Good(Say(s))
  BY OfItsElements DEF Say
<1>2. Good(ClearText)
  BY DEF ClearText
<1>3. \A fg, bg \in 0 .. 15 : Good(SetAttr(fg, bg))
  BY DEF SetAttr
<1>4. \A x, y \in Int : \A s : IsSeq(s) => Good(PrintAtCell(x, y, s))
  BY OfItsElements DEF PrintAtCell
<1> QED
  BY <1>1, <1>2, <1>3, <1>4

\* What orbit says.
LEMMA OrbitSays ==
  /\ Good(Say(<<"o", Newline>>)) /\ Good(Say(<<"m">>)) /\ Good(Say(<<"i">>))
  /\ Good(Say(<<Newline>>)) /\ Good(Say(<<"s", Newline>>)) /\ Good(Say(<<"c", Newline>>))
<1>1. /\ IsSeq(<<"o", Newline>>) /\ IsSeq(<<"m">>) /\ IsSeq(<<"i">>)
      /\ IsSeq(<<Newline>>) /\ IsSeq(<<"s", Newline>>)
      /\ IsSeq(<<"c", Newline>>)
  BY ShortIsSeq
<1> QED
  BY <1>1, TextGood, Zenon

LEMMA ScriptOver ==
  ASSUME NEW S, NEW s, s \in Seq(S), \A call \in S : Good(call)
  PROVE  ScriptOK(s)
BY DEF ScriptOK

LEMMA ScriptSteps ==
  ASSUME NEW s, ScriptOK(s), s # <<>>
  PROVE  ScriptOK(Tail(s)) /\ Good(Head(s))
<1>1. PICK S : s \in Seq(S) /\ \A call \in S : Good(call)
  BY DEF ScriptOK
<1>2. Tail(s) \in Seq(S) /\ Head(s) \in S
  BY <1>1
<1> QED
  BY <1>1, <1>2 DEF ScriptOK

LEMMA ScriptConcat ==
  ASSUME NEW s, NEW t, ScriptOK(s), ScriptOK(t)
  PROVE  ScriptOK(s \o t)
<1>1. PICK S : s \in Seq(S) /\ \A call \in S : Good(call)
  BY DEF ScriptOK
<1>2. PICK T : t \in Seq(T) /\ \A call \in T : Good(call)
  BY DEF ScriptOK
<1>3. s \in Seq(S \cup T) /\ t \in Seq(S \cup T)
  BY <1>1, <1>2
<1>4. s \o t \in Seq(S \cup T)
  BY <1>3
<1>5. \A call \in S \cup T : Good(call)
  BY <1>1, <1>2
<1> QED
  BY <1>4, <1>5 DEF ScriptOK

LEMMA EmptyScript == ScriptOK(<<>>)
<1> DEFINE S == {}
           s == <<>>
<1>1. s \in Seq(S) /\ \A call \in S : Good(call)
  OBVIOUS
<1> HIDE DEF S, s
<1>2. ScriptOK(s)
  BY <1>1, ScriptOver
<1> QED
  BY <1>2 DEF s

LEMMA OneCall ==
  ASSUME NEW a,
         Good(a)
  PROVE  ScriptOK(<<a>>)
<1> DEFINE S == {a}
           s == <<a>>
<1>1. s \in Seq(S) /\ \A call \in S : Good(call)
  OBVIOUS
<1> HIDE DEF S, s
<1>2. ScriptOK(s)
  BY <1>1, ScriptOver
<1> QED
  BY <1>2 DEF s

LEMMA Calls4 ==
  ASSUME NEW a, NEW b, NEW c, NEW d,
         Good(a), Good(b), Good(c), Good(d)
  PROVE  ScriptOK(<<a, b, c, d>>)
<1> DEFINE S == {a, b, c, d}
           s == <<a, b, c, d>>
<1>1. s \in Seq(S) /\ \A call \in S : Good(call)
  OBVIOUS
<1> HIDE DEF S, s
<1>2. ScriptOK(s)
  BY <1>1, ScriptOver
<1> QED
  BY <1>2 DEF s

LEMMA Calls5 ==
  ASSUME NEW a, NEW b, NEW c, NEW d, NEW e,
         Good(a), Good(b), Good(c), Good(d), Good(e)
  PROVE  ScriptOK(<<a, b, c, d, e>>)
<1> DEFINE S == {a, b, c, d, e}
           s == <<a, b, c, d, e>>
<1>1. s \in Seq(S) /\ \A call \in S : Good(call)
  OBVIOUS
<1> HIDE DEF S, s
<1>2. ScriptOK(s)
  BY <1>1, ScriptOver
<1> QED
  BY <1>2 DEF s

LEMMA Calls8 ==
  ASSUME NEW a, NEW b, NEW c, NEW d, NEW e, NEW f, NEW g, NEW h,
         Good(a), Good(b), Good(c), Good(d), Good(e), Good(f), Good(g), Good(h)
  PROVE  ScriptOK(<<a, b, c, d, e, f, g, h>>)
<1> DEFINE S == {a, b, c, d, e, f, g, h}
           s == <<a, b, c, d, e, f, g, h>>
<1>1. s \in Seq(S) /\ \A call \in S : Good(call)
  OBVIOUS
<1> HIDE DEF S, s
<1>2. ScriptOK(s)
  BY <1>1, ScriptOver
<1> QED
  BY <1>2 DEF s

LEMMA ButtonGood ==
  ASSUME NEW x \in Int, NEW y \in Int
  PROVE  ScriptOK(GuiButton(x, y))
<1>1. x + SHADOW \in Int /\ y + SHADOW \in Int /\ y + LINE \in Int
  BY Constant
<1>2. /\ Good(FillRect(x + SHADOW, y + SHADOW, BUTTON_W, BUTTON_H, "shadow"))
      /\ Good(FillRect(x, y, BUTTON_W, BUTTON_H, "base"))
      /\ Good(FillRect(x, y, BUTTON_W, LINE, "bright"))
      /\ Good(FillRect(x, y + LINE, BUTTON_W, LINE, "mid"))
      /\ Good(PrintAt(x + SHADOW, y + SHADOW, <<"o">>))
  BY <1>1, Constant, Texts, GraphicsGood
<1> QED
  BY <1>2, Calls5 DEF GuiButton

LEMMA ButtonsGood ==
  ScriptOK(FlattenSeq([i \in DOMAIN Buttons |-> GuiButton(Buttons[i].x, Buttons[i].y)]))
<1> DEFINE n == Len(Buttons)
           ss == [i \in DOMAIN Buttons |-> GuiButton(Buttons[i].x, Buttons[i].y)]
           T == {ss[i][k] : i \in 1 .. n, k \in 1 .. 5}
<1>1. n \in Nat /\ DOMAIN Buttons = 1 .. n
      /\ \A i \in 1 .. n : Buttons[i].x \in Int /\ Buttons[i].y \in Int
  <2>1. Buttons \in Seq([x : Int, y : Int])
    BY Constant
  <2>2. n \in Nat /\ DOMAIN Buttons = 1 .. n
    BY <2>1
  <2>3. \A i \in 1 .. n : Buttons[i] \in [x : Int, y : Int]
    BY <2>1, ElementOfSeq
  <2> QED
    BY <2>2, <2>3
<1>2. ASSUME NEW i \in 1 .. n
      PROVE  ss[i] \in Seq(T) /\ \A k \in 1 .. 5 : Good(ss[i][k])
  <2> DEFINE b == GuiButton(Buttons[i].x, Buttons[i].y)
  <2>1. ss[i] = b
    BY <1>1
  <2>2. ScriptOK(b)
    BY <1>1, ButtonGood
  <2>3. PICK S : b \in Seq(S) /\ \A call \in S : Good(call)
    BY <2>2 DEF ScriptOK
  <2>4. Len(b) = 5
    BY DEF GuiButton
  <2> HIDE DEF b, ss, n
  <2>5. DOMAIN b = 1 .. 5 /\ b = [k \in 1 .. 5 |-> b[k]] /\ \A k \in 1 .. 5 : b[k] \in S
    <3>1. b \in [1 .. Len(b) -> S]
      BY <2>3
    <3> QED
      BY <2>4, <3>1
  <2>6. b \in [1 .. 5 -> T]
    BY <2>1, <2>5
  <2>7. b \in Seq(T)
    <3> HIDE DEF T
    <3> QED
      BY <2>6, SeqOfFunction
  <2> QED
    BY <2>1, <2>3, <2>5, <2>7
<1>3. ASSUME NEW call \in T PROVE Good(call)
  <2> HIDE DEF ss, n
  <2>1. PICK i \in 1 .. n, k \in 1 .. 5 : call = ss[i][k]
    OBVIOUS
  <2> HIDE DEF T
  <2>2. \A j \in 1 .. 5 : Good(ss[i][j])
    BY <1>2, Zenon
  <2>3. Good(ss[i][k])
    BY <2>2, Zenon
  <2> QED
    BY <2>1, <2>3, Zenon
<1> HIDE DEF T
<1>4. FlattenSeq(ss) \in Seq(T)
  <2>1. ss \in [1 .. n -> Seq(T)]
    BY <1>1, <1>2
  <2> HIDE DEF ss, n
  <2>2. ss \in Seq(Seq(T)) /\ DOMAIN ss = 1 .. n
    BY <1>1, <2>1, SeqOfFunction, Zenon
  <2> QED
    BY <1>2, <2>2, FlattenTyped DEF IsSeq
<1> QED
  BY <1>3, <1>4, ScriptOver

LEMMA ScriptsGood ==
  /\ DOMAIN Script = {"kernel", "sysman", "orbit", "client"}
  /\ \A p \in DOMAIN Script : ScriptOK(Script[p])
<1>1. DOMAIN Script = {"kernel", "sysman", "orbit", "client"}
  BY DEF Script
<1>2. ScriptOK(KernelDraws)
  <2>1. /\ Box.x - 1 \in Int /\ Box.y - 1 \in Int /\ Box.w + 2 \in Int /\ Box.h + 2 \in Int
        /\ Box.x \in Int /\ Box.y \in Int /\ Box.w \in Int /\ Box.h \in Int
    BY Constant
  <2>2. /\ Good(FillRect(Box.x - 1, Box.y - 1, Box.w + 2, Box.h + 2, "bright"))
        /\ Good(FillRect(Box.x, Box.y, Box.w, Box.h, "dark"))
        /\ Good(PrintAt(Box.x, Box.y, <<"o", " ", "o">>))
        /\ Good(ClearColor("dark"))
    BY <2>1, Texts, GraphicsGood
  <2>3. Good(Create("sysman"))
    BY <1>1, GraphicsGood
  <2>4. Good(Say(<<"S", Newline>>)) /\ Good(Say(<<"I", Newline>>)) /\ Good(Say(<<"E", Newline>>))
    <3>1. IsSeq(<<"S", Newline>>) /\ IsSeq(<<"I", Newline>>)
          /\ IsSeq(<<"E", Newline>>)
      BY ShortIsSeq
    <3> QED
      BY <3>1, TextGood, Zenon
  <2> QED
    BY <2>2, <2>3, <2>4, Calls8 DEF KernelDraws
<1>3. ScriptOK(SysmanDraws)
  <2>1. /\ Box.x + 1 \in Int /\ Box.y + 1 \in Int
        /\ Box.x \in Int /\ Box.y \in Int /\ Box.w \in Int /\ Box.h \in Int
        /\ W - CHAR_W \in Int /\ H - CHAR_H \in Int /\ 0 \in Int
    BY Constant
  <2>2. /\ Good(FillRect(Box.x + 1, Box.y + 1, Box.w, Box.h, "shadow"))
        /\ Good(FillRect(Box.x, Box.y, Box.w, Box.h, "grey"))
        /\ Good(PrintAt(Box.x, Box.y, <<"o", "o">>))
        /\ Good(PrintAt(W - CHAR_W, H - CHAR_H, <<"o">>))
        /\ Good(PrintAt(0, 0, <<"o">>))
        /\ Good(ClearColor("black"))
    BY <2>1, Texts, GraphicsGood
  <2>3. Good(Create("orbit"))
    BY <1>1, GraphicsGood
  <2> QED
    BY <2>2, <2>3, Calls8 DEF SysmanDraws
<1>4. ScriptOK(OrbitDraws)
  <2> DEFINE first == <<Say(<<"o", Newline>>), Say(<<"m">>), Say(<<"i">>), Say(<<Newline>>),
                        ClearColor("desk")>>
             middle == FlattenSeq([i \in DOMAIN Buttons |->
                                     GuiButton(Buttons[i].x, Buttons[i].y)])
             last == << PrintAt(W - 2 * CHAR_W, 0, <<"o", ".", "o">>), Say(<<"s", Newline>>),
                        DrawBmp(W - 2, H - 2, Icon), Say(<<"c", Newline>>) >>
  <2>1. /\ Good(Say(<<"o", Newline>>)) /\ Good(Say(<<"m">>)) /\ Good(Say(<<"i">>))
        /\ Good(Say(<<Newline>>)) /\ Good(Say(<<"s", Newline>>)) /\ Good(Say(<<"c", Newline>>))
    BY OrbitSays
  <2>2. ScriptOK(first)
    <3>1. Good(ClearColor("desk"))
      BY GraphicsGood
    <3> QED
      BY <2>1, <3>1, Calls5
  <2>3. ScriptOK(last)
    <3>1. W - 2 * CHAR_W \in Int /\ 0 \in Int /\ W - 2 \in Int /\ H - 2 \in Int
      BY Constant
    <3>2. Good(PrintAt(W - 2 * CHAR_W, 0, <<"o", ".", "o">>)) /\ Good(DrawBmp(W - 2, H - 2, Icon))
      BY <3>1, Texts, GraphicsGood
    <3> QED
      BY <2>1, <3>2, Calls4
  <2>4. ScriptOK(middle)
    BY ButtonsGood
  <2>5. OrbitDraws = first \o middle \o last
    BY DEF OrbitDraws
  <2> HIDE DEF first, middle, last
  <2> QED
    BY <2>2, <2>3, <2>4, <2>5, ScriptConcat
<1>5. /\ Script["kernel"] = KernelDraws /\ Script["sysman"] = SysmanDraws
      /\ Script["orbit"] = OrbitDraws /\ Script["client"] = <<>>
  BY DEF Script
<1> QED
  BY <1>1, <1>2, <1>3, <1>4, <1>5, EmptyScript

LEMMA HandlersGood ==
  /\ DOMAIN Handler = {"report", "panic"}
  /\ \A p \in DOMAIN Handler : ScriptOK(Handler[p])
<1>1. ScriptOK(ReportDraws)
  <2>1. IsSeq(<<Newline, "R", Newline, "r", Newline>>)
    BY ShortIsSeq
  <2>2. Good(Say(<<Newline, "R", Newline, "r", Newline>>))
    BY <2>1, TextGood, Zenon
  <2> QED
    BY <2>2, OneCall DEF ReportDraws
<1>2. ScriptOK(PanicDraws)
  <2>1. VGA_HEIGHT - 1 \in Int
    BY Constant
  <2>2. /\ Good(SetAttr(7, 0)) /\ Good(SetAttr(12, 0)) /\ Good(SetAttr(11, 0))
        /\ Good(SetAttr(15, 0)) /\ Good(ClearText)
    BY TextGood
  <2>3. /\ Good(PrintAtCell(0, 0, Header)) /\ Good(PrintAtCell(1, 0, <<"B">>))
        /\ Good(PrintAtCell(0, VGA_HEIGHT - 1, <<"T">>))
        /\ Good(PrintAtCell(2, VGA_HEIGHT - 1, <<"v">>))
    <3>1. IsSeq(Header)
      <4> DEFINE S == {"="}
      <4>1. [i \in 1 .. VGA_WIDTH |-> "="] \in Seq(S)
        BY Constant
      <4> QED
        BY <4>1 DEF IsSeq, Header
    <3>2. /\ IsSeq(<<"B">>) /\ IsSeq(<<"T">>) /\ IsSeq(<<"v">>)
          /\ 0 \in Int /\ 1 \in Int /\ 2 \in Int
      BY ShortIsSeq
    <3> QED
      BY <2>1, <3>1, <3>2, TextGood, Zenon
  <2> DEFINE first == <<ClearText, ClearText>>
             last == << SetAttr(7, 0), PrintAtCell(0, 0, Header),
                        SetAttr(12, 0), PrintAtCell(1, 0, <<"B">>),
                        SetAttr(11, 0), PrintAtCell(0, VGA_HEIGHT - 1, <<"T">>),
                        SetAttr(15, 0), PrintAtCell(2, VGA_HEIGHT - 1, <<"v">>) >>
  <2>4. ScriptOK(last)
    BY <2>2, <2>3, Calls8
  <2>5. ScriptOK(<<ClearText>>) /\ ScriptOK(<<ClearText>> \o <<ClearText>>)
    BY <2>2, OneCall, ScriptConcat
  <2>6. PanicDraws = (<<ClearText>> \o <<ClearText>>) \o last
    BY DEF PanicDraws
  <2> HIDE DEF last
  <2> QED
    BY <2>4, <2>5, <2>6, ScriptConcat
<1> QED
  BY <1>1, <1>2 DEF Handler

-----------------------------------------------------------------------------
(***************************************************************************)
(* The invariant: of the graphics screen, of the text screen, and of the   *)
(* programs and the call that is served.                                   *)
(***************************************************************************)
GraphicsInv ==
  /\ DOMAIN fb = Words /\ DOMAIN before = Words
  /\ torn \in Nat
  /\ cursor_x \in Nat
  /\ cursor_x <= (IF pc = "wrap" THEN W ELSE W - CHAR_W) + torn * CHAR_W
  /\ \E k \in Nat : cursor_y = k * CHAR_H
  /\ cursor_y <= (IF pc = "top" THEN H ELSE H - CHAR_H) + torn * CHAR_H

Borrowed == {"to_x", "to_y", "at_char", "at_step", "back_x", "back_y"}

TextInv ==
  /\ cut \in Nat
  /\ vga_x \in 0 .. VGA_WIDTH /\ vga_y \in Nat
  /\ vga_y <= (IF pc = "vga_limit" THEN VGA_HEIGHT ELSE VGA_HEIGHT - 1) + cut
  /\ pc \in {"vga_put", "vga_step", "at_step"} => vga_x < VGA_WIDTH
  /\ pc \in {"vga_line", "vga_limit"} => vga_x = 0
  /\ pc \in {"to_x", "to_y"} => /\ job.x \in 0 .. VGA_WIDTH - 1
                                /\ job.y \in 0 .. VGA_HEIGHT - 1
  /\ pc \in Borrowed \ {"to_x", "to_y"} => job.kind = "vga_at"
  /\ pc \in Borrowed /\ job.kind = "vga_at" => /\ pos_x \in 0 .. VGA_WIDTH /\ pos_y \in Nat
                                               /\ pos_y <= VGA_HEIGHT - 1 + cut
  /\ vga_attr \in 0 .. 255
  /\ TextWords \subseteq DOMAIN vga
  /\ ShapesOnText => DOMAIN vga \subseteq 0 .. Cells + cut * VGA_WIDTH - 1

CallInv ==
  /\ prog \in DOMAIN Script \cup DOMAIN Handler \cup {"astray"}
  /\ ScriptOK(script) /\ Good(job)
  /\ ready \in Seq(DOMAIN Script)
  /\ requests \in 0 .. MAX_REQUESTS /\ faults \in 0 .. MAX_FAULTS
  /\ pos_x \in Int /\ pos_y \in Int
  /\ pc \in Labels \cup TextLabels
  /\ pc = "draw" => Inside(work, Words)
  /\ pc = "vga_draw" /\ ShapesOnText => Inside(work, TextWords)

IInv == GraphicsInv /\ TextInv /\ CallInv

LEMMA InitIInv == TextInit => IInv
<1> SUFFICES ASSUME TextInit PROVE IInv
  OBVIOUS
<1>1. GraphicsInv
  <2>1. DOMAIN fb = Words /\ DOMAIN before = Words
    BY DEF TextInit, Init, Blank
  <2>2. torn = 0 /\ cursor_x = 0 /\ cursor_y = 0 /\ pc = "ready"
    BY DEF TextInit, Init
  <2>3. W - CHAR_W >= 0 /\ H - CHAR_H >= 0
    <3>1. W >= CHAR_W /\ H >= CHAR_H
      BY Constant, ScreenAssumption, Divides
    <3> QED
      BY <3>1, Constant
  <2>4. 0 * CHAR_W = 0 /\ 0 * CHAR_H = 0 /\ 0 \in Nat
    BY Constant
  <2> QED
    BY <2>1, <2>2, <2>3, <2>4, Constant DEF GraphicsInv
<1>2. TextInv
  <2>1. DOMAIN vga = TextWords
    BY DEF TextInit, Left
  <2>2. Cells \in Nat
    BY Constant, Product DEF Cells
  <2> QED
    BY <2>1, <2>2, Constant DEF TextInit, Init, TextInv, Borrowed, TextWords
<1>3. CallInv
  <2>1. ScriptOK(Script["kernel"])
    BY ScriptsGood
  <2>2. Good(None)
    BY GraphicsGood
  <2>3. <<>> \in Seq(DOMAIN Script)
    OBVIOUS
  <2> QED
    BY <2>1, <2>2, <2>3, ScriptsGood, Constant
       DEF TextInit, Init, CallInv, Labels
<1> QED
  BY <1>1, <1>2, <1>3 DEF IInv

\* What leaves a part alone.
LEMMA GraphicsFrame ==
  ASSUME GraphicsInv, UNCHANGED <<fb, cursorVars, torn>>, before' \in {before, fb},
         pc \notin {"wrap", "top"}
  PROVE  GraphicsInv'
<1>1. UNCHANGED <<fb, cursor_x, cursor_y, torn>>
  BY DEF cursorVars
<1>2. CHAR_W \in Nat /\ CHAR_H \in Nat /\ W \in Nat /\ H \in Nat
  BY Constant
<1>3. DOMAIN fb' = Words /\ DOMAIN before' = Words
  BY <1>1 DEF GraphicsInv
<1>4. torn * CHAR_W \in Int /\ torn * CHAR_H \in Int
  BY <1>2 DEF GraphicsInv
<1>5. cursor_x <= W - CHAR_W + torn * CHAR_W /\ cursor_y <= H - CHAR_H + torn * CHAR_H
  BY DEF GraphicsInv
<1>6. \E k \in Nat : cursor_y = k * CHAR_H
  BY DEF GraphicsInv
<1>7. cursor_y \in Int
  BY <1>2, <1>6
<1>8. /\ cursor_x <= (IF pc' = "wrap" THEN W ELSE W - CHAR_W) + torn * CHAR_W
      /\ cursor_y <= (IF pc' = "top" THEN H ELSE H - CHAR_H) + torn * CHAR_H
  BY <1>2, <1>4, <1>5, <1>7 DEF GraphicsInv
<1> QED
  BY <1>1, <1>3, <1>6, <1>8 DEF GraphicsInv

LEMMA TextFrame ==
  ASSUME TextInv, UNCHANGED <<vga, vga_x, vga_y, vga_attr, cut>>,
         pc # "vga_limit", pc' \in Labels \cup {"stopped"}
  PROVE  TextInv'
BY DEF TextInv, Labels, Borrowed, TextWords, Cells, ShapesOnText, OnText

-----------------------------------------------------------------------------
(***************************************************************************)
(* The steps of a graphics call, on the graphics screen.                   *)
(***************************************************************************)
LEMMA GraphicsSizes ==
  ASSUME GraphicsInv
  PROVE  /\ cursor_x \in Int /\ cursor_y \in Nat
         /\ torn * CHAR_W \in Nat /\ torn * CHAR_H \in Nat
         /\ (torn + 1) * CHAR_W = torn * CHAR_W + CHAR_W
         /\ (torn + 1) * CHAR_H = torn * CHAR_H + CHAR_H
         /\ W >= CHAR_W /\ H >= CHAR_H
<1>1. torn \in Nat /\ CHAR_W \in Nat /\ CHAR_H \in Nat
  BY Constant DEF GraphicsInv
<1>2. torn * CHAR_W \in Nat /\ torn * CHAR_H \in Nat
  BY <1>1, Product
<1>3. cursor_y \in Nat
  <2>1. PICK k \in Nat : cursor_y = k * CHAR_H
    BY DEF GraphicsInv
  <2> QED
    BY <1>1, <2>1, Product
<1>4. W >= CHAR_W /\ H >= CHAR_H
  BY Constant, ScreenAssumption, Divides
<1>5. (torn + 1) * CHAR_W = torn * CHAR_W + CHAR_W /\ (torn + 1) * CHAR_H = torn * CHAR_H + CHAR_H
  BY <1>1
<1> QED
  BY <1>2, <1>3, <1>4, <1>5 DEF GraphicsInv

LEMMA StoreDomain ==
  ASSUME NEW memory, NEW at, NEW word
  PROVE  DOMAIN Store(memory, at, word) = DOMAIN memory \cup {at}
BY DEF Store

LEMMA PixelStaysInside == ASSUME IInv, WritePixel PROVE GraphicsInv'
<1>1. Head(work).at \in Words
  BY SeqFacts DEF IInv, CallInv, Inside, WritePixel
<1>2. DOMAIN fb' = Words
  <2>1. DOMAIN fb' = DOMAIN fb \cup {Head(work).at}
    BY StoreDomain DEF WritePixel
  <2> QED
    BY <1>1, <2>1 DEF IInv, GraphicsInv
<1>3. UNCHANGED <<cursor_x, cursor_y, before, torn, pc>>
  BY DEF WritePixel, cursorVars, callVars
<1> QED
  BY <1>2, <1>3 DEF IInv, GraphicsInv

LEMMA CursorSteps ==
  ASSUME IInv,
         HomeX \/ HomeY \/ CursorNewline \/ CursorAdvance \/ CursorWrap \/ CursorLine \/ CursorTop
  PROVE  GraphicsInv'
<1>1. GraphicsInv
  BY DEF IInv
<1>0. /\ cursor_x \in Int /\ cursor_y \in Nat
      /\ torn * CHAR_W \in Nat /\ torn * CHAR_H \in Nat
      /\ W >= CHAR_W /\ H >= CHAR_H
      /\ W \in Nat /\ H \in Nat /\ CHAR_W \in Nat \ {0} /\ CHAR_H \in Nat \ {0}
  BY <1>1, GraphicsSizes, Constant
<1>2. UNCHANGED <<fb, torn, before>>
  BY DEF HomeX, HomeY, CursorNewline, CursorAdvance, CursorWrap, CursorLine, CursorTop, callVars
<1>3. DOMAIN fb' = Words /\ DOMAIN before' = Words /\ torn' \in Nat
  BY <1>1, <1>2 DEF GraphicsInv
<1> DEFINE X == /\ cursor_x' \in Nat
                /\ cursor_x' <= (IF pc' = "wrap" THEN W ELSE W - CHAR_W) + torn * CHAR_W
           Y == /\ \E k \in Nat : cursor_y' = k * CHAR_H
                /\ cursor_y' <= (IF pc' = "top" THEN H ELSE H - CHAR_H) + torn * CHAR_H
<1>4. ASSUME cursor_y' = cursor_y, pc # "top" PROVE Y
  <2>1. cursor_y <= H - CHAR_H + torn * CHAR_H
    BY <1>0, <1>1, <1>4 DEF GraphicsInv
  <2> QED
    BY <1>0, <1>1, <1>4, <2>1 DEF GraphicsInv
<1>5. ASSUME cursor_y' = 0 PROVE Y
  <2>1. 0 \in Nat /\ 0 * CHAR_H = 0
    BY <1>0
  <2> QED
    BY <1>0, <1>5, <2>1
<1>6. ASSUME cursor_x' = cursor_x, pc # "wrap" PROVE X
  BY <1>0, <1>1, <1>6 DEF GraphicsInv
<1>7. ASSUME cursor_x' = 0 PROVE X
  BY <1>0, <1>7
<1>8. ASSUME HomeX \/ CursorNewline PROVE X /\ Y
  BY <1>4, <1>7, <1>8 DEF HomeX, CursorNewline
<1>9. ASSUME HomeY PROVE X /\ Y
  BY <1>5, <1>6, <1>9 DEF HomeY
<1>10. ASSUME CursorAdvance PROVE X /\ Y
  <2>1. X
    BY <1>0, <1>1, <1>10 DEF CursorAdvance, GraphicsInv
  <2> QED
    BY <1>4, <1>10, <2>1 DEF CursorAdvance
<1>11. ASSUME CursorWrap PROVE X /\ Y
  <2>1. CASE PastEdge(cursor_x)
    BY <1>4, <1>7, <1>11, <2>1 DEF CursorWrap
  <2>2. CASE ~PastEdge(cursor_x)
    <3>1. X
      BY <1>0, <1>1, <1>11, <2>2 DEF CursorWrap, PastEdge, GraphicsInv
    <3> QED
      BY <1>4, <1>11, <2>2, <3>1 DEF CursorWrap
  <2> QED
    BY <2>1, <2>2
<1>12. ASSUME CursorLine PROVE X /\ Y
  <2>1. cursor_y' <= H + torn * CHAR_H /\ pc' = "top"
    BY <1>0, <1>1, <1>12 DEF CursorLine, GraphicsInv
  <2>2. \E k \in Nat : cursor_y' = k * CHAR_H
    <3>1. PICK k \in Nat : cursor_y = k * CHAR_H
      BY <1>1 DEF GraphicsInv
    <3>2. (k + 1) * CHAR_H = k * CHAR_H + CHAR_H /\ k + 1 \in Nat
      BY <1>0
    <3> QED
      BY <1>0, <1>12, <3>1, <3>2 DEF CursorLine
  <2> QED
    BY <1>6, <1>12, <2>1, <2>2 DEF CursorLine
<1>13. ASSUME CursorTop PROVE X /\ Y
  <2>1. CASE cursor_y >= H
    <3>1. cursor_y' = 0
      BY <1>13, <2>1 DEF CursorTop, TopOrHere
    <3> QED
      BY <1>5, <1>6, <1>13, <3>1 DEF CursorTop
  <2>2. CASE cursor_y < H
    <3>1. cursor_y' = cursor_y /\ pc' = "char"
      BY <1>0, <1>1, <1>13, <2>2 DEF CursorTop, TopOrHere
    <3>2. PICK k \in Nat : cursor_y = k * CHAR_H
      BY <1>1 DEF GraphicsInv
    <3>3. PICK m \in Nat : H = m * CHAR_H
      BY <1>0, ScreenAssumption, Divides
    <3>4. k * CHAR_H < m * CHAR_H
      BY <2>2, <3>2, <3>3
    <3>5. cursor_y <= H - CHAR_H
      BY <1>0, <3>2, <3>3, <3>4, LineAbove
    <3>6. Y
      BY <1>0, <3>1, <3>2, <3>5
    <3> QED
      BY <1>6, <1>13, <3>6 DEF CursorTop
  <2> QED
    BY <1>0, <2>1, <2>2
<1>14. X /\ Y
  BY <1>8, <1>9, <1>10, <1>11, <1>12, <1>13
<1> QED
  BY <1>2, <1>3, <1>14 DEF GraphicsInv

LEMMA OtherGraphicsSteps ==
  ASSUME IInv,
         StartCall \/ Drawn \/ EndOfText \/ DrawChar \/ PosNewline \/ PosAdvance \/ Return \/ Request
  PROVE  GraphicsInv'
<1>1. GraphicsInv
  BY DEF IInv
<1>2. /\ UNCHANGED <<fb, cursorVars, torn>> /\ before' \in {before, fb}
      /\ pc \notin {"wrap", "top"}
  BY DEF StartCall, Drawn, EndOfText, DrawChar, PosNewline, PosAdvance, Return, Request, callVars
<1> QED
  BY <1>1, <1>2, GraphicsFrame

\* A print that a tick cuts short with the cursor off its grid counts one more.
LEMMA TickOnGraphics == ASSUME IInv, TickStarts PROVE GraphicsInv'
<1>1. GraphicsInv
  BY DEF IInv
<1>2. UNCHANGED <<fb, cursor_x, cursor_y, before>> /\ pc' = "ready"
  BY DEF TickStarts, cursorVars
<1> DEFINE In(n) == /\ n \in Nat
                    /\ cursor_x <= W - CHAR_W + n * CHAR_W
                    /\ cursor_y <= H - CHAR_H + n * CHAR_H
<1>3. In(torn')
  <2>1. CASE pc \in {"wrap", "top"}
    <3>1. torn' = torn + 1
      BY <2>1 DEF TickStarts
    <3>2. In(torn + 1)
      BY <1>1, <2>1, Constant, GraphicsSizes DEF GraphicsInv
    <3> QED
      BY <3>1, <3>2
  <2>2. CASE pc \notin {"wrap", "top"}
    <3>1. torn' = torn
      BY <2>2 DEF TickStarts
    <3>2. In(torn)
      BY <1>1, <2>2 DEF GraphicsInv
    <3> QED
      BY <3>1, <3>2
  <2> QED
    BY <2>1, <2>2
<1>4. DOMAIN fb' = Words /\ DOMAIN before' = Words /\ cursor_x' \in Nat
      /\ \E k \in Nat : cursor_y' = k * CHAR_H
  BY <1>1, <1>2, Zenon DEF GraphicsInv
<1>5. /\ torn' \in Nat
      /\ cursor_x' <= W - CHAR_W + torn' * CHAR_W
      /\ cursor_y' <= H - CHAR_H + torn' * CHAR_H
  BY <1>2, <1>3, Zenon
<1>6. pc' # "wrap" /\ pc' # "top"
  BY <1>2
<1> HIDE DEF In
<1> QED
  BY <1>4, <1>5, <1>6, Zenon DEF GraphicsInv

-----------------------------------------------------------------------------
(***************************************************************************)
(* The steps of a graphics call, on the call.                              *)
(***************************************************************************)
LEMMA ServedGood ==
  ASSUME NEW c, Good(c), NEW call \in Served(c)
  PROVE  Good(call) /\ call.kind = c.kind /\ (call.kind = "rect" => call.h \in Int)
<1>1. CASE c.kind = "rect"
  <2>1. PICK h \in Heights, color \in Colors :
          call = [kind |-> "rect", x |-> c.x, y |-> c.y, w |-> c.w, h |-> h, color |-> color]
    BY <1>1 DEF Served
  <2>2. h \in Int /\ c.x \in Int /\ c.y \in Int /\ c.w \in Int
    BY <1>1, Constant DEF Good, Typed
  <2> QED
    BY <1>1, <2>1, <2>2 DEF Good, Typed, TextTyped, OnText, Kinds, TextKinds, Showable
<1>2. CASE c.kind # "rect"
  BY <1>2 DEF Served
<1> QED
  BY <1>1, <1>2

LEMMA WordsInside ==
  ASSUME NEW call, Good(call), call.kind = "rect" => call.h \in Int,
         call.kind \in {"clear_color", "gfx_clear", "fill", "rect", "bmp"}
  PROVE  Inside(WordsOf(call), Words)
<1>1. CASE call.kind = "clear_color"
  BY <1>1, ClearInside DEF WordsOf
<1>2. CASE call.kind = "gfx_clear"
  BY <1>2, ClearInside DEF WordsOf
<1>3. CASE call.kind = "fill"
  <2>1. /\ call.x \in Int /\ call.y \in Int /\ call.w \in Int /\ call.h \in Int
    BY <1>3 DEF Good, Typed
  <2>2. ASSUME NEW n \in Int PROVE n % HALF \in Int
    BY Constant
  <2>3. call.w % HALF \in Int /\ call.h % HALF \in Int
    BY <2>1, <2>2
  <2>4. WordsOf(call) = FillWrites(call.x, call.y, call.w % HALF, call.h % HALF, call.color)
    BY <1>3 DEF WordsOf
  <2> QED
    BY <2>1, <2>3, <2>4, FillInside
<1>4. CASE call.kind = "rect"
  <2>1. /\ call.x \in Int /\ call.y \in Int /\ call.w \in Int /\ call.h \in Int
    BY <1>4 DEF Good, Typed
  <2>2. WordsOf(call) = RectWrites(call.x, call.y, call.w, call.h, call.color)
    BY <1>4 DEF WordsOf
  <2> QED
    BY <2>1, <2>2, RectInside
<1>5. CASE call.kind = "bmp"
  <2>1. /\ call.x \in Int /\ call.y \in Int
        /\ call.image = Null \/ (call.image.w \in Nat /\ call.image.h \in Nat)
    BY <1>5 DEF Good, Typed
  <2>2. WordsOf(call) = BmpWrites(call.x, call.y, call.image)
    BY <1>5 DEF WordsOf
  <2>3. CASE call.image = Null
    <3>1. WordsOf(call) = <<>>
      BY <2>2, <2>3 DEF BmpWrites
    <3> QED
      BY <3>1 DEF Inside, IsSeq
  <2>4. CASE call.image # Null
    BY <2>1, <2>2, <2>4, BmpInside
  <2> QED
    BY <2>3, <2>4
<1> QED
  BY <1>1, <1>2, <1>3, <1>4, <1>5

\* What most steps keep of the call.
LEMMA CallFrame ==
  ASSUME CallInv, UNCHANGED <<progVars, faults, job, work>>,
         pos_x' \in Int, pos_y' \in Int, pc' \in (Labels \cup TextLabels) \ {"draw", "vga_draw"}
  PROVE  CallInv'
BY DEF CallInv, progVars

LEMMA CallStarts == ASSUME IInv, StartCall, UNCHANGED vgaVars PROVE CallInv'
<1>1. CallInv
  BY DEF IInv
<1>2. Good(Head(script)) /\ ScriptOK(script')
  BY <1>1, ScriptSteps DEF CallInv, StartCall
<1>3. PICK call \in Served(Head(script)) :
        /\ job' = call
        /\ \/ /\ call.kind \in {"print_at", "puts"}
              /\ pc' = "char" /\ UNCHANGED <<work, ready>>
              /\ pos_x' = IF call.kind = "print_at" THEN call.x ELSE 0
              /\ pos_y' = IF call.kind = "print_at" THEN call.y ELSE 0
           \/ /\ call.kind \in {"clear_color", "gfx_clear", "fill", "rect", "bmp"}
              /\ work' = WordsOf(call) /\ pc' = "draw" /\ UNCHANGED <<ready, textVars>>
           \/ pc' = "done" /\ UNCHANGED <<work, ready, textVars>>
           \/ /\ call.kind = "create" /\ ready' = Append(ready, call.program)
              /\ pc' = "done" /\ UNCHANGED <<work, textVars>>
  BY DEF StartCall
<1>4. Good(call) /\ (call.kind = "rect" => call.h \in Int)
  BY <1>2, <1>3, ServedGood
<1>5. UNCHANGED <<prog, requests, faults>>
  BY DEF StartCall, vgaVars
<1>6. pos_x' \in Int /\ pos_y' \in Int
  BY <1>1, <1>3, <1>4 DEF CallInv, textVars, Good, Typed
<1>7. ready' \in Seq(DOMAIN Script)
  <2>1. CASE call.kind = "create" /\ ready' = Append(ready, call.program)
    <3>1. call.program \in DOMAIN Script
      BY <1>4, <2>1 DEF Good, Typed
    <3> QED
      BY <1>1, <2>1, <3>1 DEF CallInv
  <2> QED
    BY <1>1, <1>3, <2>1 DEF CallInv
<1>8. pc' = "draw" => Inside(work', Words)
  <2>1. CASE call.kind \in {"clear_color", "gfx_clear", "fill", "rect", "bmp"}
             /\ work' = WordsOf(call)
    BY <1>4, <2>1, WordsInside
  <2>2. CASE pc' # "draw"
    BY <2>2
  <2> QED
    BY <1>3, <2>1, <2>2
<1>9. pc' \in Labels /\ pc' # "vga_draw"
  BY <1>3 DEF Labels
<1>10. CallInv'
  BY <1>1, <1>2, <1>3, <1>4, <1>5, <1>6, <1>7, <1>8, <1>9 DEF CallInv
<1> QED
  BY <1>10

LEMMA PixelCall == ASSUME IInv, WritePixel, UNCHANGED vgaVars PROVE CallInv'
<1>1. /\ UNCHANGED <<progVars, faults, job, pos_x, pos_y, pc>>
      /\ work # <<>> /\ work' = Tail(work) /\ pc = "draw"
  BY DEF WritePixel, textVars, callVars, vgaVars
<1>2. Inside(work', Words)
  BY <1>1, TailFacts DEF IInv, CallInv, Inside
<1> QED
  BY <1>1, <1>2 DEF IInv, CallInv, progVars

LEMMA DrawCharCall == ASSUME IInv, DrawChar, UNCHANGED vgaVars PROVE CallInv'
<1>1. UNCHANGED <<progVars, faults, job, pos_x, pos_y>> /\ pc' = "draw"
  BY DEF DrawChar, textVars, callVars, vgaVars
<1>2. cursor_x \in Int /\ cursor_y \in Int /\ pos_x \in Int /\ pos_y \in Int
  BY GraphicsSizes DEF IInv, CallInv
<1>3. Inside(work', Words)
  BY <1>2, CharInside DEF DrawChar
<1> QED
  BY <1>1, <1>3 DEF IInv, CallInv, progVars, Labels

LEMMA RequestCall == ASSUME IInv, Request, UNCHANGED vgaVars PROVE CallInv'
<1>1. /\ UNCHANGED <<prog, ready, faults, job, pos_x, pos_y, work, pc>>
      /\ pc = "ready" /\ requests < MAX_REQUESTS /\ requests' = requests + 1
  BY DEF Request, textVars, callVars, vgaVars
<1>2. PICK call \in Requests : script' = <<call>>
  BY DEF Request
<1>3. ScriptOK(script')
  BY <1>2, RequestsGood, OneCall
<1>4. requests' \in 0 .. MAX_REQUESTS
  BY <1>1, Constant DEF IInv, CallInv
<1> QED
  BY <1>1, <1>3, <1>4 DEF IInv, CallInv

LEMMA TickCall == ASSUME IInv, TickStarts, faults' = faults PROVE CallInv'
<1>1. CallInv
  BY DEF IInv
<1>2. Head(ready) \in DOMAIN Script /\ ready' \in Seq(DOMAIN Script)
  BY <1>1 DEF CallInv, TickStarts
<1>3. ScriptOK(script')
  BY <1>2, ScriptsGood DEF TickStarts
<1>4. Good(None)
  BY GraphicsGood
<1> QED
  BY <1>1, <1>2, <1>3, <1>4 DEF CallInv, TickStarts, Labels

LEMMA OtherCallSteps ==
  ASSUME IInv, UNCHANGED vgaVars,
         Drawn \/ HomeX \/ HomeY \/ EndOfText \/ PosNewline \/ PosAdvance \/ CursorNewline
           \/ CursorAdvance \/ CursorWrap \/ CursorLine \/ CursorTop
  PROVE  CallInv'
<1>1. UNCHANGED <<progVars, faults, job, work>>
  BY DEF Drawn, HomeX, HomeY, EndOfText, PosNewline, PosAdvance, CursorNewline,
         CursorAdvance, CursorWrap, CursorLine, CursorTop, callVars, vgaVars
<1>2. pc' \in Labels \ {"draw"}
  BY DEF Drawn, HomeX, HomeY, EndOfText, PosNewline, PosAdvance, CursorNewline,
         CursorAdvance, CursorWrap, CursorLine, CursorTop, AfterDraw, Labels
<1>3. pos_x' \in Int /\ pos_y' \in Int
  <2>1. pos_x \in Int /\ pos_y \in Int /\ CHAR_W \in Int /\ CHAR_H \in Int
    BY Constant DEF IInv, CallInv
  <2>2. job.kind = "print_at" => job.x \in Int
    BY DEF IInv, CallInv, Good, Typed
  <2>3. CASE PosNewline \/ PosAdvance
    BY <2>1, <2>2, <2>3 DEF PosNewline, PosAdvance, PosAfterChar, NextLineAt
  <2>4. CASE Drawn \/ HomeX \/ HomeY \/ EndOfText \/ CursorNewline
               \/ CursorAdvance \/ CursorWrap \/ CursorLine \/ CursorTop
    <3>1. UNCHANGED <<pos_x, pos_y>>
      BY <2>4 DEF Drawn, HomeX, HomeY, EndOfText, CursorNewline,
                  CursorAdvance, CursorWrap, CursorLine, CursorTop, textVars
    <3> QED
      BY <2>1, <3>1
  <2> QED
    BY <2>3, <2>4
<1>4. pc' \in (Labels \cup TextLabels) \ {"draw", "vga_draw"}
  BY <1>2 DEF Labels
<1> QED
  BY <1>1, <1>3, <1>4, CallFrame DEF IInv

LEMMA ReturnCall == ASSUME IInv, Return, UNCHANGED vgaVars PROVE CallInv'
<1>1. UNCHANGED <<progVars, faults, work, pos_x, pos_y>> /\ job' = None /\ pc' = "ready"
  BY DEF Return, textVars, vgaVars
<1>2. Good(None)
  BY GraphicsGood
<1> QED
  BY <1>1, <1>2 DEF IInv, CallInv, progVars, Labels

-----------------------------------------------------------------------------
(***************************************************************************)
(* The steps of a text call, a fault and a tick, on the text screen.       *)
(***************************************************************************)
LEMMA TextSizes ==
  ASSUME TextInv
  PROVE  /\ cut * VGA_WIDTH \in Nat /\ Cells \in Nat
         /\ (cut + 1) * VGA_WIDTH = cut * VGA_WIDTH + VGA_WIDTH
<1>1. cut \in Nat /\ VGA_WIDTH \in Nat /\ VGA_HEIGHT \in Nat
  BY Constant DEF TextInv
<1> QED
  BY <1>1, Product DEF Cells

\* A character put where the cursor is.
LEMMA PutInside ==
  ASSUME TextInv, pc \in {"vga_put", "at_char"}, vga_x < VGA_WIDTH
  PROVE  CellAt(vga_x, vga_y) \in 0 .. Cells + cut * VGA_WIDTH - 1
<1>1. /\ cut \in Nat /\ vga_x \in 0 .. VGA_WIDTH - 1 /\ vga_y \in 0 .. VGA_HEIGHT + cut - 1
      /\ VGA_HEIGHT + cut \in Nat /\ VGA_WIDTH \in Nat /\ VGA_HEIGHT \in Nat
  BY Constant DEF TextInv
<1>2. vga_y * VGA_WIDTH + vga_x \in 0 .. (VGA_HEIGHT + cut) * VGA_WIDTH - 1
  BY <1>1, InRows
<1>3. (VGA_HEIGHT + cut) * VGA_WIDTH = VGA_WIDTH * VGA_HEIGHT + cut * VGA_WIDTH
  BY <1>1
<1> DEFINE all == (VGA_HEIGHT + cut) * VGA_WIDTH
<1>4. CellAt(vga_x, vga_y) \in 0 .. all - 1
  BY <1>2 DEF CellAt
<1>5. all = Cells + cut * VGA_WIDTH
  BY <1>3 DEF Cells
<1>6. Cells \in Int /\ cut * VGA_WIDTH \in Int
  BY TextSizes
<1> HIDE DEF all
<1> QED
  BY <1>4, <1>5, <1>6

LEMMA PutSteps == ASSUME IInv, PutHere \/ PutThere PROVE TextInv'
<1>1. TextInv /\ UNCHANGED <<vga_x, vga_y, vga_attr, cut, pos_x, pos_y, job>>
  BY DEF IInv, PutHere, PutThere, Step, Same, textVars, callVars
<1>2. pc \in {"vga_put", "at_char"} /\ vga_x < VGA_WIDTH
  BY <1>1 DEF TextInv, PutHere, PutThere, GoesOn, Step
<1>3. DOMAIN vga' = DOMAIN vga \cup {CellAt(vga_x, vga_y)}
  BY StoreDomain DEF PutHere, PutThere, Put
<1>4. CellAt(vga_x, vga_y) \in 0 .. Cells + cut * VGA_WIDTH - 1
  BY <1>1, <1>2, PutInside
<1>5. /\ TextWords \subseteq DOMAIN vga'
      /\ ShapesOnText => DOMAIN vga' \subseteq 0 .. Cells + cut * VGA_WIDTH - 1
  BY <1>1, <1>3, <1>4 DEF TextInv
<1>6. (pc = "vga_put" /\ pc' = "vga_step") \/ (pc = "at_char" /\ pc' = "at_step")
  BY DEF PutHere, PutThere, Step
<1>7. VGA_WIDTH \in Nat /\ VGA_HEIGHT \in Nat
  BY Constant
<1> QED
  BY <1>1, <1>2, <1>5, <1>6, <1>7 DEF TextInv, Borrowed

LEMMA CellWritten == ASSUME IInv, WriteCell PROVE TextInv'
<1>1. /\ TextInv /\ UNCHANGED <<vga_x, vga_y, vga_attr, cut, pos_x, pos_y, job, pc>>
      /\ pc = "vga_draw" /\ work # <<>>
  BY DEF IInv, WriteCell, Step, Same, textVars, callVars
<1>2. DOMAIN vga' = DOMAIN vga \cup {Head(work).at}
  BY StoreDomain DEF WriteCell
<1>3. ShapesOnText => Head(work).at \in TextWords
  BY <1>1, SeqFacts DEF IInv, CallInv, Inside
<1>4. TextWords \subseteq 0 .. Cells + cut * VGA_WIDTH - 1
  BY <1>1, TextSizes DEF TextWords
<1>5. /\ TextWords \subseteq DOMAIN vga'
      /\ ShapesOnText => DOMAIN vga' \subseteq 0 .. Cells + cut * VGA_WIDTH - 1
  BY <1>1, <1>2, <1>3, <1>4 DEF TextInv
<1> QED
  BY <1>1, <1>5 DEF TextInv, Borrowed

\* The colour: the background's four bits above those of the character.
LEMMA AttrRange == ASSUME NEW fg \in Int, NEW bg \in Int PROVE Attr(fg, bg) \in 0 .. 255
<1>1. fg % 16 \in 0 .. 15
  OBVIOUS
<1>2. (bg * 16) % 256 \in {16 * k : k \in 0 .. 15}
  <2>1. bg = 16 * (bg \div 16) + (bg % 16) /\ bg \div 16 \in Int /\ bg % 16 \in 0 .. 15
    OBVIOUS
  <2> DEFINE q == bg \div 16
             k == bg % 16
  <2>2. bg * 16 = 256 * q + 16 * k
    BY <2>1
  <2> HIDE DEF q, k
  <2>3. q \in Int /\ k \in 0 .. 15
    BY <2>1 DEF q, k
  <2>4. (bg * 16) % 256 = 16 * k
    BY <2>2, <2>3
  <2> QED
    BY <2>3, <2>4
<1> QED
  BY <1>1, <1>2 DEF Attr

LEMMA TextStarts == ASSUME IInv, StartText PROVE TextInv'
<1>1. TextInv /\ Good(Head(script)) /\ UNCHANGED <<vga, vga_x, vga_y, cut>> /\ pc = "ready"
  BY ScriptSteps DEF IInv, CallInv, StartText
<1> DEFINE call == Head(script)
<1>2. job' = call
  BY DEF StartText
<1>3. vga_attr' \in 0 .. 255
  <2>1. CASE call.kind = "vga_color"
    <3>1. call.fg \in Int /\ call.bg \in Int
      BY <1>1, <2>1 DEF Good, TextTyped
    <3>2. vga_attr' = Attr(call.fg, call.bg)
      BY <2>1 DEF StartText
    <3> QED
      BY <3>1, <3>2, AttrRange, Zenon
  <2> QED
    BY <1>1, <2>1 DEF StartText, TextInv
<1>4. pc' \in {"vga_char", "vga_draw", "done", "to_x"}
  BY DEF StartText
<1>5. pc' = "to_x" =>
        /\ call.x \in 0 .. VGA_WIDTH - 1 /\ call.y \in 0 .. VGA_HEIGHT - 1
        /\ call.kind = "vga_at" => pos_x' = vga_x /\ pos_y' = vga_y
  <2>1. ASSUME pc' = "to_x"
        PROVE  /\ call.kind \in {"vga_at", "vga_cursor"} /\ InText(call.x, call.y)
               /\ call.kind = "vga_at" => pos_x' = vga_x /\ pos_y' = vga_y
    BY <2>1 DEF StartText
  <2>2. call.kind \in {"vga_at", "vga_cursor"} => call.x \in Int /\ call.y \in Int
    BY <1>1 DEF Good, TextTyped
  <2> QED
    BY <2>1, <2>2, Constant DEF InText
<1> HIDE DEF call
<1>6. TextInv'
  BY <1>1, <1>2, <1>3, <1>4, <1>5, Constant DEF TextInv, Borrowed, TextWords, Cells
<1> QED
  BY <1>6

LEMMA TextSteps ==
  ASSUME IInv,
         TextDrawn \/ ToX \/ ToY \/ EndOfPrint \/ BreakLine \/ NextLine \/ LimitLine
           \/ FitsHere \/ StepRight \/ StepThere \/ EndThere \/ BackX \/ BackY
  PROVE  TextInv'
<1>1. TextInv /\ UNCHANGED <<vga, cut, vga_attr, job, pos_x, pos_y>>
  BY DEF IInv, TextDrawn, ToX, ToY, EndOfPrint, BreakLine, NextLine, LimitLine, FitsHere,
         StepRight, StepThere, EndThere, BackX, BackY, Step, Same, callVars, textVars
<1>2. VGA_WIDTH \in Nat /\ VGA_WIDTH > 2 /\ VGA_HEIGHT \in Nat /\ VGA_HEIGHT > 1
  BY Constant
<1> USE <1>1, <1>2 DEF TextInv, Borrowed, TextWords, Cells, Step
<1>3. CASE TextDrawn
  <2>1. job.kind = "vga_clear" => job.x = 0 /\ job.y = 0
    BY DEF IInv, CallInv, Good, TextTyped, ClearText
  <2> QED
    BY <1>3, <2>1 DEF TextDrawn
<1>4. CASE ToX
  BY <1>4 DEF ToX
<1>5. CASE ToY
  BY <1>5 DEF ToY
<1>6. CASE EndOfPrint
  BY <1>6 DEF EndOfPrint
<1>7. CASE BreakLine
  BY <1>7 DEF BreakLine
<1>8. CASE NextLine
  BY <1>8 DEF NextLine
<1>9. CASE LimitLine
  BY <1>9 DEF LimitLine, OnLastLine
<1>10. CASE FitsHere
  BY <1>10 DEF FitsHere, LineFull
<1>11. CASE StepRight
  BY <1>11 DEF StepRight
<1>12. CASE StepThere
  BY <1>12 DEF StepThere
<1>13. CASE EndThere
  BY <1>13 DEF EndThere
<1>14. CASE BackX
  BY <1>14 DEF BackX
<1>15. CASE BackY
  BY <1>15 DEF BackY
<1> QED
  BY <1>3, <1>4, <1>5, <1>6, <1>7, <1>8, <1>9, <1>10, <1>11, <1>12, <1>13, <1>14, <1>15

LEMMA TickOnText == ASSUME IInv, TextTick PROVE TextInv'
<1>1. TextInv /\ UNCHANGED <<vga, vga_x, vga_y, vga_attr>> /\ pc' = "ready"
  BY DEF IInv, TextTick, TickStarts
<1>2. VGA_WIDTH \in Nat /\ VGA_HEIGHT \in Nat
  BY Constant
<1>3. CASE pc = "vga_limit" /\ vga_y >= VGA_HEIGHT
  <2>1. cut' = cut + 1
    BY <1>3 DEF TextTick
  <2>2. ShapesOnText => DOMAIN vga \subseteq 0 .. Cells + (cut + 1) * VGA_WIDTH - 1
    BY <1>1, <1>2, TextSizes DEF TextInv
  <2> QED
    BY <1>1, <1>2, <1>3, <2>1, <2>2 DEF TextInv, Borrowed, TextWords, Cells
<1>4. CASE ~(pc = "vga_limit" /\ vga_y >= VGA_HEIGHT)
  <2>1. cut' = cut
    BY <1>4 DEF TextTick
  <2> QED
    BY <1>1, <1>2, <1>4, <2>1 DEF TextInv, Borrowed, TextWords, Cells
<1> QED
  BY <1>3, <1>4

-----------------------------------------------------------------------------
(***************************************************************************)
(* The steps of a text call, and the rest, on the call.                    *)
(***************************************************************************)
LEMMA TextWordsInside ==
  ASSUME NEW call, Good(call), ShapesOnText,
         call.kind \in {"vga_clear", "vga_rect", "vga_box"}
  PROVE  Inside(TextWordsOf(call), TextWords)
<1>1. CASE call.kind = "vga_clear"
  BY <1>1, VgaClearInside DEF TextWordsOf
<1>2. CASE call.kind = "vga_rect"
  <2>1. call.x \in Nat /\ call.y \in Nat /\ call.w \in Int /\ call.h \in Int
    BY <1>2 DEF Good, TextTyped, OnText
  <2>2. TextWordsOf(call) = VgaRectWrites(call.x, call.y, call.w, call.h, call.color)
    BY <1>2 DEF TextWordsOf
  <2> QED
    BY <2>1, <2>2, VgaRectInside
<1>3. CASE call.kind = "vga_box"
  <2>1. call.x \in Int /\ call.y \in Int /\ call.w \in Nat \ {0} /\ call.h \in Nat \ {0}
    BY <1>3 DEF Good, TextTyped, OnText
  <2>2. TextWordsOf(call) = VgaBoxWrites(call.x, call.y, call.w, call.h)
    BY <1>3 DEF TextWordsOf
  <2> QED
    BY <2>1, <2>2, VgaBoxInside
<1> QED
  BY <1>1, <1>2, <1>3

LEMMA TextCallStarts == ASSUME IInv, StartText PROVE CallInv'
<1>1. CallInv /\ TextInv
  BY DEF IInv
<1> DEFINE call == Head(script)
<1>2. Good(call) /\ ScriptOK(script') /\ job' = call
  BY <1>1, ScriptSteps DEF CallInv, StartText
<1>3. UNCHANGED <<prog, ready, requests, faults>>
  BY DEF StartText
<1>4. pos_x' \in Int /\ pos_y' \in Int
  <2>1. pos_x' \in {pos_x, vga_x} /\ pos_y' \in {pos_y, vga_y}
    BY DEF StartText, textVars
  <2> QED
    BY <1>1, <2>1 DEF CallInv, TextInv
<1>5. pc' \in {"vga_char", "vga_draw", "done", "to_x"}
  BY DEF StartText
<1>6. ASSUME pc' = "vga_draw", ShapesOnText PROVE Inside(work', TextWords)
  <2>1. call.kind \in {"vga_clear", "vga_rect", "vga_box"} /\ work' = TextWordsOf(call)
    BY <1>6 DEF StartText
  <2> QED
    BY <1>2, <1>6, <2>1, TextWordsInside
<1> HIDE DEF call
<1> QED
  BY <1>1, <1>2, <1>3, <1>4, <1>5, <1>6 DEF CallInv, Labels, TextLabels, ShapesOnText, OnText

LEMMA CellCall == ASSUME IInv, WriteCell PROVE CallInv'
<1>1. /\ UNCHANGED <<progVars, faults, job, pos_x, pos_y, pc>>
      /\ work # <<>> /\ work' = Tail(work) /\ pc = "vga_draw"
  BY DEF WriteCell, Step, Same, textVars, callVars
<1>2. ShapesOnText => Inside(work', TextWords)
  BY <1>1, TailFacts DEF IInv, CallInv, Inside
<1> QED
  BY <1>1, <1>2 DEF IInv, CallInv, progVars, ShapesOnText, OnText

LEMMA OtherTextSteps ==
  ASSUME IInv,
         TextDrawn \/ ToX \/ ToY \/ EndOfPrint \/ BreakLine \/ NextLine \/ LimitLine
           \/ FitsHere \/ PutHere \/ StepRight \/ PutThere \/ StepThere \/ EndThere
           \/ BackX \/ BackY
  PROVE  CallInv'
<1> USE DEF TextDrawn, ToX, ToY, EndOfPrint, BreakLine, NextLine, LimitLine, FitsHere,
            PutHere, StepRight, PutThere, StepThere, EndThere, BackX, BackY, Step
<1>1. UNCHANGED <<progVars, faults, job, work, pos_x, pos_y>>
  BY DEF Same, callVars, textVars
<1>2. pc' \in (Labels \cup TextLabels) \ {"draw", "vga_draw"}
  BY DEF Labels, TextLabels
<1>3. pos_x' \in Int /\ pos_y' \in Int
  BY <1>1 DEF IInv, CallInv
<1> QED
  BY <1>1, <1>2, <1>3, CallFrame DEF IInv

LEMMA FaultCall == ASSUME IInv, Fault PROVE CallInv'
<1>1. /\ UNCHANGED <<ready, requests>> /\ job' = None /\ pc' = "ready"
      /\ pos_x' = 0 /\ pos_y' = 0 /\ faults < MAX_FAULTS /\ faults' = faults + 1
  BY DEF Fault
<1>2. PICK handler \in DOMAIN Handler : prog' = handler /\ script' = Handler[handler]
  BY DEF Fault
<1>3. ScriptOK(script') /\ Good(None)
  BY <1>2, HandlersGood, GraphicsGood
<1>4. faults' \in 0 .. MAX_FAULTS
  BY <1>1, Constant DEF IInv, CallInv
<1> QED
  BY <1>1, <1>2, <1>3, <1>4 DEF IInv, CallInv, Labels

LEMMA EndsOfPrograms ==
  ASSUME IInv, GoAstray \/ Halt
  PROVE  CallInv'
<1>1. UNCHANGED <<script, ready, requests, faults, job, work, pos_x, pos_y>>
  BY DEF GoAstray, Halt, progVars, vgaVars, callVars, textVars
<1>2. prog' \in DOMAIN Script \cup DOMAIN Handler \cup {"astray"}
  BY DEF GoAstray, Halt, progVars, IInv, CallInv
<1>3. pc' \in {"ready", "stopped"}
  BY DEF GoAstray, Halt
<1> QED
  BY <1>1, <1>2, <1>3 DEF IInv, CallInv, Labels, TextLabels

-----------------------------------------------------------------------------
LEMMA TextStepIInv == ASSUME IInv, TextStep PROVE IInv'
<1> USE DEF StartText, WriteCell, TextDrawn, ToX, ToY, EndOfPrint, BreakLine, NextLine,
            LimitLine, FitsHere, PutHere, StepRight, PutThere, StepThere, EndThere, BackX,
            BackY, Step
<1>1. GraphicsInv'
  <2>1. /\ UNCHANGED <<fb, cursorVars, torn>> /\ before' \in {before, fb}
        /\ pc \notin {"wrap", "top"}
    BY DEF TextStep, Same, graphicsVars, callVars
  <2> QED
    BY <2>1, GraphicsFrame DEF IInv
<1>2. TextInv' /\ CallInv'
  BY TextStarts, CellWritten, PutSteps, TextSteps, TextCallStarts, CellCall, OtherTextSteps,
     Zenon DEF TextStep
<1> QED
  BY <1>1, <1>2 DEF IInv

LEMMA CallStepIInv == ASSUME IInv, CallStep \/ Request, UNCHANGED vgaVars PROVE IInv'
<1>1. GraphicsInv'
  BY PixelStaysInside, CursorSteps, OtherGraphicsSteps, Zenon DEF CallStep
<1>2. CallInv'
  BY CallStarts, PixelCall, DrawCharCall, RequestCall, OtherCallSteps, ReturnCall,
     Zenon DEF CallStep
<1>3. TextInv'
  <2>1. UNCHANGED <<vga, vga_x, vga_y, vga_attr, cut>>
    BY DEF vgaVars
  <2>2. pc # "vga_limit" /\ pc' \in Labels
    BY DEF CallStep, StartCall, WritePixel, Drawn, HomeX, HomeY, EndOfText, DrawChar,
           PosNewline, PosAdvance, CursorNewline, CursorAdvance, CursorWrap, CursorLine,
           CursorTop, Return, Request, AfterDraw, Labels
  <2> QED
    BY <2>1, <2>2, TextFrame DEF IInv
<1> QED
  BY <1>1, <1>2, <1>3 DEF IInv

LEMMA OtherIInv ==
  ASSUME IInv, Fault \/ GoAstray \/ Halt \/ TextTick
  PROVE  IInv'
<1>1. CASE Fault \/ GoAstray \/ Halt
  <2>1. /\ UNCHANGED <<fb, cursorVars, torn, before, vga, vga_x, vga_y, vga_attr, cut>>
        /\ pc \notin {"wrap", "top", "vga_limit"} /\ pc' \in Labels \cup {"stopped"}
    BY <1>1 DEF Fault, GoAstray, Halt, graphicsVars, callVars, vgaVars, Labels
  <2>2. GraphicsInv' /\ TextInv'
    BY <2>1, GraphicsFrame, TextFrame DEF IInv
  <2>3. CallInv'
    BY <1>1, FaultCall, EndsOfPrograms, Zenon
  <2> QED
    BY <2>2, <2>3 DEF IInv
<1>2. CASE TextTick
  <2>1. GraphicsInv' /\ CallInv'
    BY <1>2, TickOnGraphics, TickCall DEF TextTick
  <2>2. TextInv'
    BY <1>2, TickOnText
  <2> QED
    BY <2>1, <2>2 DEF IInv
<1> QED
  BY <1>1, <1>2

LEMMA NextIInv == IInv /\ [TextNext]_textScreenVars => IInv'
<1>1. ASSUME IInv, TextNext PROVE IInv'
  BY <1>1, TextStepIInv, CallStepIInv, OtherIInv, Zenon DEF TextNext
<1>2. ASSUME IInv, UNCHANGED textScreenVars PROVE IInv'
  <2>1. /\ UNCHANGED <<fb, before, torn, cursor_x, cursor_y, pc, cut, vga_x, vga_y, vga_attr>>
        /\ UNCHANGED <<job, pos_x, pos_y, vga, prog, script, ready, requests, faults, work>>
    BY <1>2 DEF textScreenVars, vars, vgaVars, cursorVars, progVars, textVars, callVars
  <2>2. GraphicsInv'
    BY <1>2, <2>1 DEF IInv, GraphicsInv
  <2>3. TextInv'
    BY <1>2, <2>1 DEF IInv, TextInv
  <2>4. CallInv'
    BY <1>2, <2>1 DEF IInv, CallInv
  <2> QED
    BY <2>2, <2>3, <2>4 DEF IInv
<1> QED
  BY <1>1, <1>2

\* On whatever a tick leaves of the calls before, and at every word and every
\* statement of a call.
THEOREM ScreensKnown == TextSpec => []IInv
<1> QED
  BY InitIInv, NextIInv, PTL DEF TextSpec

\* No rectangle, no text, no image and no abandoned print makes the kernel store a word
\* outside the framebuffer (bga.c:333-557).
THEOREM FramebufferKept == TextSpec => []TypeOK
<1>1. IInv => TypeOK
  <2> SUFFICES ASSUME IInv PROVE TypeOK
    OBVIOUS
  <2>1. GraphicsInv /\ CallInv
    BY DEF IInv
  <2>2. cursor_x <= W + torn * CHAR_W /\ cursor_y <= H + torn * CHAR_H
    BY <2>1, GraphicsSizes, Constant DEF GraphicsInv
  <2>3. cursor_x \in 0 .. W + torn * CHAR_W /\ cursor_y \in 0 .. H + torn * CHAR_H
    BY <2>1, <2>2, GraphicsSizes, Constant DEF GraphicsInv
  <2> QED
    BY <2>1, <2>3 DEF TypeOK, GraphicsInv, CallInv
<1> QED
  BY <1>1, ScreensKnown, PTL

\* Where the shapes that vga.c does not clip begin on the screen, the kernel stores no
\* word beyond the text screen but those of the lines that prints cut short have left
\* the cursor on (vga.c:5-167).
THEOREM ScreensTypeCorrect == ShapesOnText => (TextSpec => []TextTypeOK)
<1> SUFFICES ASSUME ShapesOnText PROVE TextSpec => []TextTypeOK
  OBVIOUS
<1>1. IInv /\ TypeOK => TextTypeOK
  <2> SUFFICES ASSUME IInv, TypeOK PROVE TextTypeOK
    OBVIOUS
  <2>1. TextInv /\ CallInv
    BY DEF IInv
  <2>2. vga_y \in 0 .. VGA_HEIGHT + cut
    BY <2>1, Constant DEF TextInv
  <2>3. job.kind \in Kinds \cup TextKinds
    BY <2>1 DEF CallInv, Good, TextTyped
  <2> QED
    BY <2>1, <2>2, <2>3 DEF TextTypeOK, TextInv, CallInv
<1> QED
  BY <1>1, ScreensKnown, FramebufferKept, PTL

-----------------------------------------------------------------------------
(***************************************************************************)
(* The elements of sequences that are put together.                        *)
(***************************************************************************)
\* A number has one row and one column.
LEMMA OnePlace ==
  ASSUME NEW m \in Nat \ {0}, NEW q \in Int, NEW k \in 0 .. m - 1
  PROVE  (q * m + k) \div m = q /\ (q * m + k) % m = k
<1> DEFINE v == q * m + k
           a == v \div m
           b == v % m
<1>1. v \in Int
  OBVIOUS
<1>2. a \in Int /\ b \in 0 .. m - 1 /\ v = m * a + b
  <2> HIDE DEF v
  <2> QED
    BY <1>1, SMTT(30)
<1> HIDE DEF a, b
<1>3. ASSUME NEW c \in Int, NEW d \in Int, c < d PROVE d * m - c * m >= m
  <2>1. d - c - 1 \in Nat
    BY <1>3
  <2>2. (d - c - 1) * m >= 0
    BY <2>1, Product
  <2>3. (d - c - 1) * m = d * m - c * m - m
    OBVIOUS
  <2>4. d * m \in Int /\ c * m \in Int
    OBVIOUS
  <2> QED
    BY <2>2, <2>3, <2>4
<1>4. m * a = a * m /\ a * m \in Int /\ q * m \in Int
  BY <1>2
<1>5. a * m - q * m = k - b
  BY <1>2, <1>4
<1>6. a = q
  <2>1. CASE a < q
    BY <2>1, <1>2, <1>3, <1>4, <1>5
  <2>2. CASE q < a
    BY <2>2, <1>2, <1>3, <1>4, <1>5
  <2> QED
    BY <1>2, <2>1, <2>2
<1>7. b = k
  BY <1>2, <1>4, <1>5, <1>6
<1> QED
  BY <1>6, <1>7 DEF a, b

\* Two sequences, one after the other, have the elements of both.
LEMMA ConcatRange ==
  ASSUME NEW T, NEW s \in Seq(T), NEW t \in Seq(T)
  PROVE  Range(s \o t) = Range(s) \cup Range(t)
<1>1. /\ Len(s \o t) = Len(s) + Len(t) /\ DOMAIN (s \o t) = 1 .. Len(s) + Len(t)
      /\ DOMAIN s = 1 .. Len(s) /\ DOMAIN t = 1 .. Len(t)
      /\ Len(s) \in Nat /\ Len(t) \in Nat
      /\ \A i \in 1 .. Len(s) + Len(t) : (s \o t)[i] = IF i <= Len(s) THEN s[i] ELSE t[i - Len(s)]
  OBVIOUS
<1>2. ASSUME NEW e \in Range(s \o t) PROVE e \in Range(s) \cup Range(t)
  <2>1. PICK i \in 1 .. Len(s) + Len(t) : e = (s \o t)[i]
    BY <1>1 DEF Range
  <2> QED
    BY <1>1, <2>1 DEF Range
<1>3. ASSUME NEW e \in Range(s) PROVE e \in Range(s \o t)
  <2>1. PICK i \in 1 .. Len(s) : e = s[i]
    BY <1>1 DEF Range
  <2>2. i \in 1 .. Len(s) + Len(t) /\ (s \o t)[i] = s[i]
    BY <1>1
  <2> QED
    BY <1>1, <2>1, <2>2 DEF Range
<1>4. ASSUME NEW e \in Range(t) PROVE e \in Range(s \o t)
  <2>1. PICK i \in 1 .. Len(t) : e = t[i]
    BY <1>1 DEF Range
  <2>2. Len(s) + i \in 1 .. Len(s) + Len(t) /\ (s \o t)[Len(s) + i] = t[i]
    BY <1>1
  <2> QED
    BY <1>1, <2>1, <2>2 DEF Range
<1> QED
  BY <1>2, <1>3, <1>4

\* Sequences put one after the other have the elements of all of them.
LEMMA FlattenRange ==
  ASSUME NEW T, NEW ss, IsSeq(ss), \A i \in DOMAIN ss : ss[i] \in Seq(T)
  PROVE  Range(FlattenSeq(ss)) = UNION {Range(ss[i]) : i \in DOMAIN ss}
<1> DEFINE N == Len(ss)
           flat == CHOOSE f : Joins(f, ss, N)
<1>1. N \in Nat /\ DOMAIN ss = 1 .. N
  BY SeqFacts
<1>2. CASE N = 0
  <2>1. FlattenSeq(ss) = ss
    BY <1>2 DEF FlattenSeq
  <2>2. DOMAIN ss = {}
    BY <1>1, <1>2
  <2>3. Range(ss) = {}
    BY <2>2 DEF Range
  <2> QED
    BY <2>1, <2>2, <2>3
<1>3. CASE N # 0
  <2>1. FlattenSeq(ss) = flat[N]
    BY <1>3 DEF FlattenSeq, Joins
  <2>2. Joins(flat, ss, N)
    BY <1>1, <1>3, JoinsExist
  <2> DEFINE First(m) == UNION {Range(ss[i]) : i \in 1 .. m}
             U == {m \in 0 .. N - 1 : flat[m + 1] \in Seq(T) /\ Range(flat[m + 1]) = First(m + 1)}
  <2> HIDE DEF flat
  <2>3. \A n \in 1 .. N : flat[n] = IF n = 1 THEN ss[n] ELSE flat[n - 1] \o ss[n]
    BY <2>2, JoinsValue
  <2>4. 0 \in U
    <3>1. flat[1] = ss[1] /\ ss[1] \in Seq(T)
      BY <1>1, <1>3, <2>3
    <3>2. First(1) = Range(ss[1])
      OBVIOUS
    <3> HIDE DEF First
    <3> QED
      BY <1>1, <1>3, <3>1, <3>2
  <2>5. ASSUME NEW m \in 0 .. (N - 1) - 1, m \in U PROVE m + 1 \in U
    <3>1. /\ flat[m + 1] \in Seq(T) /\ Range(flat[m + 1]) = First(m + 1)
          /\ m + 2 \in 1 .. N /\ (m + 2) - 1 = m + 1 /\ m + 2 # 1
      BY <1>1, <2>5
    <3>2. flat[m + 2] = flat[m + 1] \o ss[m + 2]
      BY <2>3, <3>1
    <3>3. ss[m + 2] \in Seq(T)
      BY <1>1, <3>1
    <3>4. flat[m + 2] \in Seq(T)
      BY <3>1, <3>2, <3>3
    <3>5. Range(flat[m + 2]) = First(m + 1) \cup Range(ss[m + 2])
      BY <3>1, <3>2, <3>3, ConcatRange
    <3>6. First(m + 2) = First(m + 1) \cup Range(ss[m + 2])
      <4>1. 1 .. m + 2 = 1 .. m + 1 \cup {m + 2}
        BY <3>1
      <4> QED
        BY <4>1
    <3>7. (m + 1) + 1 = m + 2 /\ m + 1 \in 0 .. N - 1
      BY <1>1
    <3> HIDE DEF First
    <3> QED
      BY <3>4, <3>5, <3>6, <3>7
  <2>6. N - 1 \in U
    <3> HIDE DEF U, N
    <3>1. N - 1 \in Nat
      BY <1>1, <1>3
    <3> QED
      BY <2>4, <2>5, <3>1, Induction
  <2>7. (N - 1) + 1 = N
    BY <1>1
  <2>8. Range(flat[N]) = First(N)
    <3> HIDE DEF First, N
    <3> QED
      BY <2>6, <2>7
  <2> QED
    BY <1>1, <2>1, <2>8
<1> QED
  BY <1>2, <1>3

\* What a clip keeps is what it is asked to keep (bga.c:347, 460).
LEMMA KeptRange ==
  ASSUME NEW T, NEW S, NEW points \in Seq(T)
  PROVE  Range(Kept(points, S)) = Range(points) \cap S
<1> DEFINE ss == [i \in DOMAIN points |-> IF points[i] \in S THEN <<points[i]>> ELSE <<>>]
<1>1. DOMAIN points = 1 .. Len(points) /\ Len(points) \in Nat
      /\ \A i \in 1 .. Len(points) : points[i] \in T
  BY ElementOfSeq
<1>2. ASSUME NEW i \in 1 .. Len(points) PROVE ss[i] \in Seq(T)
  <2>1. <<points[i]>> \in Seq(T) /\ <<>> \in Seq(T)
    BY <1>1
  <2> QED
    BY <1>1, <2>1
<1>3. ss \in [1 .. Len(points) -> Seq(T)]
  BY <1>1, <1>2
<1>4. \A i \in 1 .. Len(points) : Range(ss[i]) = {points[i]} \cap S
  <2> TAKE i \in 1 .. Len(points)
  <2>1. CASE points[i] \in S
    <3>1. ss[i] = <<points[i]>>
      BY <1>1, <2>1
    <3>2. Range(<<points[i]>>) = {points[i]}
      BY DEF Range
    <3> QED
      BY <2>1, <3>1, <3>2
  <2>2. CASE points[i] \notin S
    <3>1. ss[i] = <<>> /\ Range(<<>>) = {}
      BY <1>1, <2>2 DEF Range
    <3> QED
      BY <2>2, <3>1
  <2> QED
    BY <2>1, <2>2
<1>5. ss \in Seq(Seq(T)) /\ DOMAIN ss = 1 .. Len(points)
  BY <1>1, <1>3, SeqOfFunction, Zenon
<1> HIDE DEF ss
<1>6. IsSeq(ss) /\ \A i \in DOMAIN ss : ss[i] \in Seq(T)
  BY <1>2, <1>5 DEF IsSeq
<1>7. Range(FlattenSeq(ss)) = UNION {Range(ss[i]) : i \in DOMAIN ss}
  BY <1>6, FlattenRange
<1>8. Range(points) = {points[i] : i \in 1 .. Len(points)}
  BY <1>1 DEF Range
<1>9. UNION {Range(ss[i]) : i \in DOMAIN ss} = Range(points) \cap S
  BY <1>4, <1>5, <1>8
<1> QED
  BY <1>7, <1>9 DEF Kept, ss

\* The loops over rows and columns reach every point of the rectangle (bga.c:458-464).
LEMMA RasterRange ==
  ASSUME NEW r \in Int, NEW rowEnd \in Int, NEW c \in Int, NEW colEnd \in Int
  PROVE  Range(Raster(r, rowEnd, c, colEnd)) = (r .. rowEnd - 1) \X (c .. colEnd - 1)
<1> DEFINE S == (r .. rowEnd - 1) \X (c .. colEnd - 1)
           f == Raster(r, rowEnd, c, colEnd)
<1>1. f \in Seq(S)
  BY RasterTyped
<1>2. Range(f) \subseteq S
  <2> HIDE DEF f, S
  <2>1. \A i \in DOMAIN f : f[i] \in S
    BY <1>1
  <2> QED
    BY <2>1 DEF Range
<1>3. ASSUME NEW p \in S PROVE p \in Range(f)
  <2> DEFINE n == rowEnd - r
             m == colEnd - c
             q == p[1] - r
             k == p[2] - c
             i == q * m + k + 1
  <2>1. p = <<p[1], p[2]>> /\ p[1] \in r .. rowEnd - 1 /\ p[2] \in c .. colEnd - 1
    BY <1>3
  <2>2. n \in Nat \ {0} /\ m \in Nat \ {0} /\ q \in 0 .. n - 1 /\ k \in 0 .. m - 1
    BY <2>1
  <2>3. rowEnd > r /\ colEnd > c /\ p[1] = r + q /\ p[2] = c + k
    BY <2>1
  <2>4. f = [j \in 1 .. n * m |-> <<r + ((j - 1) \div m), c + ((j - 1) % m)>>]
    BY <2>3 DEF Raster
  <2> HIDE DEF f, n, m, q, k
  <2>5. q * m + k \in 0 .. n * m - 1 /\ n * m \in Nat
    BY <2>2, InRows, Product
  <2>6. i \in 1 .. n * m /\ i - 1 = q * m + k
    BY <2>5
  <2>7. (i - 1) \div m = q /\ (i - 1) % m = k
    <3>1. q \in Int
      BY <2>2
    <3>2. (q * m + k) \div m = q /\ (q * m + k) % m = k
      BY <2>2, <3>1, OnePlace
    <3> QED
      BY <2>6, <3>2, Zenon
  <2> HIDE DEF i
  <2>8. f[i] = <<r + q, c + k>> /\ i \in DOMAIN f
    BY <2>4, <2>6, <2>7
  <2>9. f[i] = p
    BY <2>1, <2>3, <2>8
  <2> QED
    BY <2>8, <2>9 DEF Range
<1> QED
  BY <1>2, <1>3

\* A loop that counts reaches every number of its range.
LEMMA CountingRange ==
  ASSUME NEW a \in Int, NEW b \in Int
  PROVE  Range(Counting(a, b)) = a .. b - 1
<1>1. CASE b <= a
  <2>1. Counting(a, b) = <<>> /\ a .. b - 1 = {}
    BY <1>1 DEF Counting
  <2> QED
    BY <2>1 DEF Range
<1>2. CASE b > a
  <2> DEFINE f == [i \in 1 .. b - a |-> a + i - 1]
  <2>1. Counting(a, b) = f /\ DOMAIN f = 1 .. b - a
    BY <1>2 DEF Counting
  <2>2. \A i \in 1 .. b - a : f[i] = (a + i) - 1
    OBVIOUS
  <2>3. \A k \in a .. b - 1 : (k - a) + 1 \in 1 .. b - a /\ f[(k - a) + 1] = k
    OBVIOUS
  <2>4. \A i \in 1 .. b - a : f[i] \in a .. b - 1
    OBVIOUS
  <2> HIDE DEF f
  <2> QED
    BY <2>1, <2>3, <2>4 DEF Range
<1> QED
  BY <1>1, <1>2

-----------------------------------------------------------------------------
(***************************************************************************)
(* What the words of a shape paint: every word of it, in its colour, and   *)
(* no other.                                                               *)
(***************************************************************************)
\* The words paint the points of P, all of them and no other, in their colours.
Paints(writes, P, col) ==
  /\ IsSeq(writes)
  /\ \A i \in DOMAIN writes : /\ writes[i].at \in Words /\ Point(writes[i].at) \in P
                              /\ writes[i].color = col[writes[i].at]
  /\ \A k \in Words : Point(k) \in P => \E i \in DOMAIN writes : writes[i].at = k

\* The word of a point of the screen is a word of the framebuffer (bga.c:349).
LEMMA PointOfWord ==
  ASSUME NEW x \in 0 .. W - 1, NEW y \in 0 .. H - 1
  PROVE  Word(x, y) \in Words /\ Point(Word(x, y)) = <<x, y>>
<1>1. W \in Nat \ {0} /\ H \in Nat \ {0} /\ y \in Int
  BY Constant
<1>2. (y * W + x) \div W = y /\ (y * W + x) % W = x
  BY <1>1, OnePlace
<1>3. y * W + x \in 0 .. H * W - 1 /\ H * W = W * H
  BY <1>1, InRows
<1> QED
  BY <1>2, <1>3 DEF Word, Point, Words

\* Every word of the framebuffer is the word of one point of the screen.
LEMMA WordOfPoint ==
  ASSUME NEW k \in Words
  PROVE  /\ k % W \in 0 .. W - 1 /\ k \div W \in 0 .. H - 1
         /\ Point(k) = <<k % W, k \div W>> /\ Point(k) \in Plane
         /\ Word(k % W, k \div W) = k
<1>1. W \in Nat \ {0} /\ H \in Nat \ {0} /\ k \in 0 .. H * W - 1
  <2>1. H * W = W * H
    BY Constant
  <2> QED
    BY <2>1, Constant DEF Words
<1>2. k \div W \in 0 .. H - 1 /\ k % W \in 0 .. W - 1
  BY <1>1, RowAndColumn
<1>3. k = (k \div W) * W + (k % W)
  <2> DEFINE q == k \div W
  <2>1. k = W * q + (k % W) /\ q \in Int
    BY <1>1, SMTT(30)
  <2>2. W * q = q * W
    <3> HIDE DEF q
    <3> QED
      BY <2>1, <1>1
  <2> QED
    BY <2>1, <2>2, <1>2
<1> QED
  BY <1>2, <1>3 DEF Point, Plane, Word

\* Stores to the points of a shape, all of them on the screen, paint the shape.
LEMMA WritesPaint ==
  ASSUME NEW points, points \in Seq(OnScreen), NEW c, NEW P, NEW col,
         \A x \in 0 .. W - 1, y \in 0 .. H - 1 : <<y, x>> \in Range(points) <=> <<x, y>> \in P,
         \A k \in Words : Point(k) \in P => col[k] = c
  PROVE  Paints(Writes(points, c), P, col)
<1> DEFINE f == Writes(points, c)
<1>1. IsSeq(f)
  BY WritesInside DEF Inside
<1>2. DOMAIN f = DOMAIN points
      /\ \A i \in DOMAIN points : f[i] = [at |-> Word(points[i][2], points[i][1]), color |-> c]
  BY DEF Writes
<1>3. \A i \in DOMAIN points : points[i] \in OnScreen
  OBVIOUS
<1> HIDE DEF f
<1>4. ASSUME NEW i \in DOMAIN points
      PROVE  f[i].at \in Words /\ Point(f[i].at) \in P /\ f[i].color = col[f[i].at]
  <2> DEFINE y == points[i][1]
             x == points[i][2]
  <2>1. x \in 0 .. W - 1 /\ y \in 0 .. H - 1 /\ points[i] = <<y, x>>
    BY <1>3 DEF OnScreen
  <2> HIDE DEF x, y
  <2>2. f[i].at = Word(x, y) /\ f[i].color = c
    BY <1>2 DEF x, y
  <2>3. Word(x, y) \in Words /\ Point(Word(x, y)) = <<x, y>>
    BY <2>1, PointOfWord
  <2>4. <<y, x>> \in Range(points)
    BY <2>1 DEF Range
  <2>5. <<x, y>> \in P
    BY <2>1, <2>4
  <2> QED
    BY <2>2, <2>3, <2>5
<1>5. ASSUME NEW k \in Words, Point(k) \in P
      PROVE  \E i \in DOMAIN points : f[i].at = k
  <2> DEFINE x == k % W
             y == k \div W
  <2>1. x \in 0 .. W - 1 /\ y \in 0 .. H - 1 /\ Point(k) = <<x, y>> /\ Word(x, y) = k
    BY WordOfPoint
  <2> HIDE DEF x, y
  <2>2. <<y, x>> \in Range(points)
    BY <1>5, <2>1
  <2>3. PICK i \in DOMAIN points : points[i] = <<y, x>>
    BY <2>2 DEF Range
  <2>4. f[i].at = Word(x, y)
    BY <1>2, <2>3
  <2> QED
    BY <2>1, <2>4
<1>6. Paints(f, P, col)
  BY <1>1, <1>2, <1>4, <1>5 DEF Paints
<1> QED
  BY <1>6 DEF f

\* bga_putpixel drops the points beside the screen and paints the others (bga.c:345-350).
LEMMA PutpixelsPaint ==
  ASSUME NEW points, points \in Seq(Int \X Int), NEW c, NEW P, NEW col,
         \A x \in 0 .. W - 1, y \in 0 .. H - 1 : <<y, x>> \in Range(points) <=> <<x, y>> \in P,
         \A k \in Words : Point(k) \in P => col[k] = c
  PROVE  Paints(Putpixels(points, c), P, col)
<1> DEFINE kept == Kept(points, OnScreen)
<1>1. kept \in Seq((Int \X Int) \cap OnScreen)
  BY KeptTyped
<1>2. (Int \X Int) \cap OnScreen = OnScreen
  BY Constant DEF OnScreen
<1>3. kept \in Seq(OnScreen)
  BY <1>1, <1>2
<1>4. Range(kept) = Range(points) \cap OnScreen
  BY KeptRange
<1> HIDE DEF kept
<1>5. \A x \in 0 .. W - 1, y \in 0 .. H - 1 : <<y, x>> \in Range(kept) <=> <<x, y>> \in P
  BY <1>4 DEF OnScreen
<1>6. Paints(Writes(kept, c), P, col)
  BY <1>3, <1>5, WritesPaint
<1> QED
  BY <1>6 DEF Putpixels, kept

\* bga_clear paints the whole screen (bga.c:333-340).
LEMMA ClearPaints ==
  ASSUME NEW c, NEW col, \A k \in Words : col[k] = c
  PROVE  Paints(ClearWrites(c), Plane, col)
<1> DEFINE f == ClearWrites(c)
<1>1. IsSeq(f) /\ \A i \in DOMAIN f : f[i].at \in Words
  BY ClearInside DEF Inside
<1>2. f = [i \in 1 .. Pixels |-> [at |-> i - 1, color |-> c]]
  BY DEF ClearWrites
<1>3. Pixels \in Nat /\ Words = 0 .. Pixels - 1
  BY Constant, Product DEF Pixels, Words
<1> HIDE DEF f
<1>4. \A i \in DOMAIN f : f[i].color = col[f[i].at] /\ Point(f[i].at) \in Plane
  <2>1. \A i \in DOMAIN f : f[i].color = c
    BY <1>2
  <2> QED
    BY <1>1, <2>1, WordOfPoint
<1>5. \A k \in Words : k + 1 \in DOMAIN f /\ f[k + 1].at = k
  BY <1>2, <1>3
<1>6. Paints(f, Plane, col)
  BY <1>1, <1>4, <1>5 DEF Paints
<1> QED
  BY <1>6 DEF f

\* bga_fill_rect, clipped, paints the part of the rectangle that is on the screen
\* (bga.c:452-465).
LEMMA FillPaints ==
  ASSUME NEW x \in Int, NEW y \in Int, NEW w \in Int, NEW h \in Int, NEW c, NEW col, NEW P,
         P = {p \in Plane : InBox(p, x, y, w, h)},
         \A k \in Words : Point(k) \in P => col[k] = c
  PROVE  Paints(FillWrites(x, y, w, h, c), P, col)
<1> DEFINE left == FirstFrom(x)
           top == FirstFrom(y)
           right == Lesser(x + w, W)
           bottom == Lesser(y + h, H)
           points == Raster(top, bottom, left, right)
<1>1. W \in Int /\ H \in Int /\ x + w \in Int /\ y + h \in Int
  BY Constant
<1>2. left \in Nat /\ top \in Nat /\ right \in Int /\ right <= W /\ bottom \in Int /\ bottom <= H
  BY <1>1, LesserTyped DEF FirstFrom
<1>3. /\ \A a \in 0 .. W - 1 : a \in left .. right - 1 <=> x <= a /\ a < x + w
      /\ \A b \in 0 .. H - 1 : b \in top .. bottom - 1 <=> y <= b /\ b < y + h
  BY <1>1 DEF FirstFrom, Lesser
<1> HIDE DEF left, top, right, bottom
<1>4. points \in Seq(OnScreen)
  BY <1>2, Constant, RasterWithin DEF OnScreen
<1>5. Range(points) = (top .. bottom - 1) \X (left .. right - 1)
  BY <1>2, RasterRange
<1> HIDE DEF points
<1>6. ASSUME NEW a \in 0 .. W - 1, NEW b \in 0 .. H - 1
      PROVE  <<b, a>> \in Range(points) <=> <<a, b>> \in P
  <2>1. <<a, b>> \in P <=> x <= a /\ a < x + w /\ y <= b /\ b < y + h
    BY DEF Plane, InBox
  <2>2. <<b, a>> \in Range(points) <=> a \in left .. right - 1 /\ b \in top .. bottom - 1
    BY <1>5
  <2> QED
    BY <1>3, <2>1, <2>2
<1>7. Paints(Writes(points, c), P, col)
  BY <1>4, <1>6, WritesPaint
<1> QED
  BY <1>7 DEF FillWrites, points, left, top, right, bottom

\* Pairs of points, put together.
LEMMA PairsRange ==
  ASSUME NEW s, s \in Seq(Int), NEW ss, DOMAIN ss = DOMAIN s,
         ss = [i \in DOMAIN s |-> ss[i]],
         \A i \in DOMAIN s : ss[i] \in Seq(Int \X Int)
  PROVE  Range(FlattenSeq(ss)) = UNION {Range(ss[i]) : i \in DOMAIN s}
<1>1. Len(s) \in Nat /\ DOMAIN s = 1 .. Len(s)
  OBVIOUS
<1>2. ss \in [1 .. Len(s) -> Seq(Int \X Int)]
  BY <1>1
<1>3. ss \in Seq(Seq(Int \X Int)) /\ DOMAIN ss = 1 .. Len(s)
  BY <1>1, <1>2, SeqOfFunction, Zenon
<1>4. IsSeq(ss)
  BY <1>3 DEF IsSeq
<1>5. Range(FlattenSeq(ss)) = UNION {Range(ss[i]) : i \in DOMAIN ss}
  BY <1>1, <1>3, <1>4, FlattenRange
<1> QED
  BY <1>5

\* A pair has two elements.
LEMMA TwoRange == ASSUME NEW a, NEW b PROVE Range(<<a, b>>) = {a, b}
BY DEF Range

\* The four lines of bga_draw_rect paint the frame of the rectangle (bga.c:470-490).
LEMMA RectPaints ==
  ASSUME NEW x \in Int, NEW y \in Int, NEW w \in Int, NEW h \in Int, NEW c, NEW col, NEW P,
         w >= 1, h >= 1,
         P = {p \in Plane : InBox(p, x, y, w, h) /\ ~InBox(p, x + 1, y + 1, w - 2, h - 2)},
         \A k \in Words : Point(k) \in P => col[k] = c
  PROVE  Paints(RectWrites(x, y, w, h, c), P, col)
<1> DEFINE right  == Lesser(x + w, W)
           bottom == Lesser(y + h, H)
           across == Counting(x, right)
           down   == Counting(y, bottom)
           rows == [i \in DOMAIN across |-> << <<y, across[i]>>, <<y + h - 1, across[i]>> >>]
           cols == [i \in DOMAIN down |-> << <<down[i], x>>, <<down[i], x + w - 1>> >>]
           points == FlattenSeq(rows) \o FlattenSeq(cols)
<1>1. W \in Int /\ H \in Int /\ x + w \in Int /\ y + h \in Int
  BY Constant
<1>2. right \in Int /\ bottom \in Int
  BY <1>1, LesserTyped
<1>3. /\ \A a \in 0 .. W - 1 : a \in x .. right - 1 <=> x <= a /\ a < x + w
      /\ \A b \in 0 .. H - 1 : b \in y .. bottom - 1 <=> y <= b /\ b < y + h
  BY <1>1 DEF Lesser
<1> HIDE DEF right, bottom
<1>4. /\ across \in Seq(x .. right - 1) /\ Range(across) = x .. right - 1
      /\ down \in Seq(y .. bottom - 1) /\ Range(down) = y .. bottom - 1
  BY <1>2, CountingTyped, CountingRange
<1>5. RectWrites(x, y, w, h, c) = Putpixels(points, c)
  BY DEF RectWrites, right, bottom
<1> HIDE DEF across, down
<1>6. across \in Seq(Int) /\ down \in Seq(Int)
  <2>1. x .. right - 1 \subseteq Int /\ y .. bottom - 1 \subseteq Int
    BY <1>2
  <2> QED
    BY <1>4, <2>1, SubSeqType
<1>7. ASSUME NEW i \in DOMAIN across
      PROVE  /\ rows[i] \in Seq(Int \X Int)
             /\ Range(rows[i]) = {<<y, across[i]>>, <<y + h - 1, across[i]>>}
  <2>1. across[i] \in Int
    BY <1>6
  <2>2. <<y, across[i]>> \in Int \X Int /\ <<y + h - 1, across[i]>> \in Int \X Int
    BY <2>1
  <2> QED
    BY <2>2, TwoRange
<1>8. ASSUME NEW i \in DOMAIN down
      PROVE  /\ cols[i] \in Seq(Int \X Int)
             /\ Range(cols[i]) = {<<down[i], x>>, <<down[i], x + w - 1>>}
  <2>1. down[i] \in Int
    BY <1>6
  <2>2. <<down[i], x>> \in Int \X Int /\ <<down[i], x + w - 1>> \in Int \X Int
    BY <2>1
  <2> QED
    BY <2>2, TwoRange
<1>9. /\ FlattenSeq(rows) \in Seq(Int \X Int)
      /\ Range(FlattenSeq(rows)) = UNION {Range(rows[i]) : i \in DOMAIN across}
  <2>1. DOMAIN rows = DOMAIN across /\ rows = [i \in DOMAIN across |-> rows[i]]
    OBVIOUS
  <2> HIDE DEF rows
  <2> QED
    BY <1>6, <1>7, <2>1, PairsTyped, PairsRange
<1>10. /\ FlattenSeq(cols) \in Seq(Int \X Int)
       /\ Range(FlattenSeq(cols)) = UNION {Range(cols[i]) : i \in DOMAIN down}
  <2>1. DOMAIN cols = DOMAIN down /\ cols = [i \in DOMAIN down |-> cols[i]]
    OBVIOUS
  <2> HIDE DEF cols
  <2> QED
    BY <1>6, <1>8, <2>1, PairsTyped, PairsRange
<1>11. points \in Seq(Int \X Int)
       /\ Range(points) = Range(FlattenSeq(rows)) \cup Range(FlattenSeq(cols))
  <2> DEFINE s == FlattenSeq(rows)
             u == FlattenSeq(cols)
             T == Int \X Int
  <2>1. s \in Seq(T) /\ u \in Seq(T)
    BY <1>9, <1>10
  <2>2. points = s \o u
    OBVIOUS
  <2> HIDE DEF rows, cols, s, u, T, points
  <2>3. s \o u \in Seq(T) /\ Range(s \o u) = Range(s) \cup Range(u)
    BY <2>1, ConcatRange
  <2> QED
    BY <2>2, <2>3 DEF s, u, T
<1> HIDE DEF rows, cols, points
<1>12. ASSUME NEW a \in 0 .. W - 1, NEW b \in 0 .. H - 1
       PROVE  <<b, a>> \in Range(points) <=> <<a, b>> \in P
  <2>1. <<b, a>> \in Range(FlattenSeq(rows)) <=> (b = y \/ b = y + h - 1) /\ a \in x .. right - 1
    <3>1. <<b, a>> \in Range(FlattenSeq(rows))
            <=> \E i \in DOMAIN across : <<b, a>> \in {<<y, across[i]>>, <<y + h - 1, across[i]>>}
      BY <1>7, <1>9
    <3>2. a \in x .. right - 1 <=> \E i \in DOMAIN across : a = across[i]
      BY <1>4 DEF Range
    <3> QED
      BY <3>1, <3>2
  <2>2. <<b, a>> \in Range(FlattenSeq(cols)) <=> (a = x \/ a = x + w - 1) /\ b \in y .. bottom - 1
    <3>1. <<b, a>> \in Range(FlattenSeq(cols))
            <=> \E i \in DOMAIN down : <<b, a>> \in {<<down[i], x>>, <<down[i], x + w - 1>>}
      BY <1>8, <1>10
    <3>2. b \in y .. bottom - 1 <=> \E i \in DOMAIN down : b = down[i]
      BY <1>4 DEF Range
    <3> QED
      BY <3>1, <3>2
  <2>3. <<a, b>> \in P <=> /\ x <= a /\ a < x + w /\ y <= b /\ b < y + h
                           /\ ~(/\ x + 1 <= a /\ a < (x + 1) + (w - 2)
                                /\ y + 1 <= b /\ b < (y + 1) + (h - 2))
    BY DEF Plane, InBox
  <2>4. a \in Int /\ b \in Int
    OBVIOUS
  <2> QED
    BY <1>3, <1>11, <2>1, <2>2, <2>3, <2>4
<1>13. Paints(Putpixels(points, c), P, col)
  BY <1>11, <1>12, PutpixelsPaint
<1> QED
  BY <1>5, <1>13

\* A character paints the points of its glyph (bga.c:355-370).
LEMMA CharPaints ==
  ASSUME NEW x \in Int, NEW y \in Int, NEW char \in DOMAIN Glyph, NEW c, NEW col, NEW P,
         \A a \in 0 .. W - 1, b \in 0 .. H - 1 :
           <<a, b>> \in P <=> <<b - y, a - x>> \in Glyph[char],
         \A k \in Words : Point(k) \in P => col[k] = c
  PROVE  Paints(CharWrites(x, y, char, c), P, col)
<1> DEFINE cell == (0 .. CHAR_H - 1) \X (0 .. CHAR_W - 1)
           raster == Raster(0, CHAR_H, 0, CHAR_W)
           set == Kept(raster, Glyph[char])
           points == [i \in DOMAIN set |-> <<y + set[i][1], x + set[i][2]>>]
<1>1. CHAR_H \in Int /\ CHAR_W \in Int
  BY Constant
<1>2. raster \in Seq(cell) /\ Range(raster) = cell
  BY <1>1, RasterTyped, RasterRange
<1>3. Glyph[char] \subseteq cell
  BY ScreenAssumption
<1>4. CharWrites(x, y, char, c) = Putpixels(points, c)
  BY DEF CharWrites
<1>5. set \in Seq(cell) /\ Range(set) = Glyph[char]
  <2> HIDE DEF raster, cell
  <2>1. set \in Seq(cell \cap Glyph[char]) /\ Range(set) = Range(raster) \cap Glyph[char]
    BY <1>2, KeptTyped, KeptRange
  <2>2. cell \cap Glyph[char] = Glyph[char]
    BY <1>3
  <2> QED
    BY <1>2, <1>3, <2>1, <2>2, SubSeqType
<1> HIDE DEF set
<1>6. Len(set) \in Nat /\ DOMAIN set = 1 .. Len(set) /\ \A i \in 1 .. Len(set) : set[i] \in cell
  <2> HIDE DEF cell
  <2> QED
    BY <1>5, ElementOfSeq
<1>7. \A g \in cell : g[1] \in Int /\ g[2] \in Int /\ g = <<g[1], g[2]>>
  BY <1>1
<1>8. ASSUME NEW i \in 1 .. Len(set) PROVE <<y + set[i][1], x + set[i][2]>> \in Int \X Int
  <2>1. set[i][1] \in Int /\ set[i][2] \in Int
    BY <1>6, <1>7
  <2> QED
    BY <2>1
<1>9. points \in [1 .. Len(set) -> Int \X Int] /\ DOMAIN points = 1 .. Len(set)
  BY <1>6, <1>8
<1>10. \A i \in 1 .. Len(set) : points[i] = <<y + set[i][1], x + set[i][2]>>
  BY <1>6
<1> HIDE DEF points, cell
<1>11. points \in Seq(Int \X Int)
  BY <1>6, <1>9, SeqOfFunction, Zenon
<1>12. ASSUME NEW a \in 0 .. W - 1, NEW b \in 0 .. H - 1
       PROVE  <<b, a>> \in Range(points) <=> <<a, b>> \in P
  <2>1. ASSUME <<b, a>> \in Range(points) PROVE <<b - y, a - x>> \in Glyph[char]
    <3>1. PICK i \in 1 .. Len(set) : <<b, a>> = <<y + set[i][1], x + set[i][2]>>
      BY <1>9, <1>10, <2>1 DEF Range
    <3> DEFINE g == set[i]
    <3>2. g \in Glyph[char] /\ g[1] \in Int /\ g[2] \in Int /\ g = <<g[1], g[2]>>
      BY <1>5, <1>6, <1>7 DEF Range
    <3>3. b = y + g[1] /\ a = x + g[2]
      BY <3>1
    <3> HIDE DEF g
    <3>4. b - y = g[1] /\ a - x = g[2]
      BY <3>2, <3>3
    <3> QED
      BY <3>2, <3>4
  <2>2. ASSUME <<b - y, a - x>> \in Glyph[char] PROVE <<b, a>> \in Range(points)
    <3>1. PICK i \in 1 .. Len(set) : <<b - y, a - x>> = set[i]
      BY <1>5, <1>6, <2>2 DEF Range
    <3>2. set[i][1] = b - y /\ set[i][2] = a - x
      BY <3>1
    <3>3. points[i] = <<y + (b - y), x + (a - x)>>
      BY <1>10, <3>2
    <3>4. y + (b - y) = b /\ x + (a - x) = a
      OBVIOUS
    <3> QED
      BY <1>9, <3>3, <3>4 DEF Range
  <2> QED
    BY <2>1, <2>2
<1>13. Paints(Putpixels(points, c), P, col)
  BY <1>11, <1>12, PutpixelsPaint
<1> QED
  BY <1>4, <1>13

\* An image that is drawn has a size, and not one that is too large (bga.c:528).
LEMMA DrawnHasSize ==
  ASSUME NEW image, IsDrawnBmp(image)
  PROVE  image.signature /\ image.w > 0 /\ image.h > 0 /\ ~BadSize(image)
<1>1. MAX_BMP \in Nat
  BY ScreenAssumption
<1>2. image.signature /\ image.w \in 1 .. MAX_BMP /\ image.h \in 1 .. MAX_BMP
  BY DEF IsDrawnBmp
<1>3. \A n \in 1 .. MAX_BMP : n > 0 /\ n # 0 /\ ~(n > MAX_BMP)
  BY <1>1
<1> QED
  BY <1>2, <1>3 DEF BadSize

LEMMA NotDrawnHasBadSize ==
  ASSUME NEW image, image.w \in Nat, image.h \in Nat, image.signature, ~IsDrawnBmp(image)
  PROVE  BadSize(image)
<1>1. MAX_BMP \in Nat
  BY ScreenAssumption
<1>2. image.w \notin 1 .. MAX_BMP \/ image.h \notin 1 .. MAX_BMP
  BY DEF IsDrawnBmp
<1>3. \A n \in Nat : n \notin 1 .. MAX_BMP => n = 0 \/ n > MAX_BMP
  BY <1>1
<1> QED
  BY <1>2, <1>3 DEF BadSize

\* An image paints its rows, the last one first, but for the points that are clear
\* (bga.c:496-557).
LEMMA ImagePaints ==
  ASSUME NEW x \in Int, NEW y \in Int, NEW image, image # Null,
         image.w \in Nat, image.h \in Nat, IsDrawnBmp(image), NEW col, NEW P,
         P = {p \in Plane : /\ InBox(p, x, y, image.w, image.h)
                            /\ image.rows[image.h - (p[2] - y)][p[1] - x + 1] # "clear"},
         \A k \in Words : Point(k) \in P =>
           col[k] = image.rows[image.h - (Point(k)[2] - y)][Point(k)[1] - x + 1]
  PROVE  Paints(BmpWrites(x, y, image), P, col)
<1> DEFINE color(p) == image.rows[BmpRow(image, p[1])][p[2] + 1]
           cell == (0 .. image.h - 1) \X (0 .. image.w - 1)
           S == {p \in cell : color(p) # "clear" /\ <<y + p[1], x + p[2]>> \in OnScreen}
           raster == Raster(0, image.h, 0, image.w)
           drawn == Kept(raster, S)
           f == [i \in DOMAIN drawn |-> [at |-> Word(x + drawn[i][2], y + drawn[i][1]),
                                         color |-> color(drawn[i])]]
<1>1. image.signature /\ image.w > 0 /\ image.h > 0 /\ ~BadSize(image)
  BY DrawnHasSize
<1>2. BmpWrites(x, y, image) = f
  <2>1. BmpWrites(x, y, image)
          = IF image = Null THEN <<>>
            ELSE IF ~image.signature THEN FillWrites(x, y, ErrorSize, ErrorSize, "red")
            ELSE IF BadSize(image)
                 THEN FillWrites(x, y, ErrorSize, ErrorSize, "yellow") ELSE f
    BY DEF BmpWrites
  <2> HIDE DEF f
  <2> QED
    BY <1>1, <2>1, Zenon
<1>3. IsSeq(BmpWrites(x, y, image))
  BY BmpInside DEF Inside
<1>4. raster \in Seq(cell) /\ Range(raster) = cell
  <2>1. image.h \in Int /\ image.w \in Int /\ 0 \in Int
    OBVIOUS
  <2>2. raster \in Seq(cell)
    BY <2>1, RasterTyped, Zenon
  <2>3. Range(raster) = cell
    <3> DEFINE h == image.h
               w == image.w
    <3> HIDE DEF h, w
    <3>1. h \in Int /\ w \in Int /\ 0 \in Int
      BY <2>1 DEF h, w
    <3>2. Range(Raster(0, h, 0, w)) = (0 .. h - 1) \X (0 .. w - 1)
      BY <3>1, RasterRange
    <3> QED
      BY <3>2 DEF h, w
  <2> QED
    BY <2>2, <2>3
<1>5. Range(drawn) = S
  <2>1. S \subseteq cell
    OBVIOUS
  <2> HIDE DEF raster, S, cell
  <2>2. Range(drawn) = Range(raster) \cap S
    BY <1>4, KeptRange
  <2> QED
    BY <1>4, <2>1, <2>2
<1>6. \A r, a, b \in Int : r = b - y => image.h - r = image.h - (b - y)
  OBVIOUS
<1>7. ASSUME NEW a \in 0 .. W - 1, NEW b \in 0 .. H - 1
      PROVE  /\ <<b - y, a - x>> \in S <=> <<a, b>> \in P
             /\ color(<<b - y, a - x>>) = image.rows[image.h - (b - y)][a - x + 1]
  <2> DEFINE r == b - y
             q == a - x
  <2>1. r \in Int /\ q \in Int /\ y + r = b /\ x + q = a
    OBVIOUS
  <2>2. color(<<r, q>>) = image.rows[image.h - r][q + 1]
    BY DEF BmpRow
  <2>3. <<r, q>> \in cell <=> InBox(<<a, b>>, x, y, image.w, image.h)
    BY <2>1 DEF InBox
  <2>4. <<y + r, x + q>> \in OnScreen
    BY <2>1 DEF OnScreen
  <2>5. <<a, b>> \in Plane
    BY DEF Plane
  <2>6. <<r, q>> \in S <=> <<r, q>> \in cell /\ color(<<r, q>>) # "clear"
    <3> HIDE DEF color, cell, r, q
    <3>1. <<y + <<r, q>>[1], x + <<r, q>>[2]>> \in OnScreen
      BY <2>4
    <3> QED
      BY <3>1
  <2>7. <<a, b>> \in P <=> /\ InBox(<<a, b>>, x, y, image.w, image.h)
                           /\ image.rows[image.h - r][q + 1] # "clear"
    BY <2>5
  <2> HIDE DEF color, cell, S
  <2> QED
    BY <2>2, <2>3, <2>6, <2>7
<1>8. ASSUME NEW i \in DOMAIN drawn
      PROVE  /\ f[i].at = Word(x + drawn[i][2], y + drawn[i][1])
             /\ f[i].color = color(drawn[i])
  <2> DEFINE word(j) == Word(x + drawn[j][2], y + drawn[j][1])
  <2> HIDE DEF drawn, color, word
  <2>1. f = [j \in DOMAIN drawn |-> [at |-> word(j), color |-> color(drawn[j])]]
    BY DEF word
  <2> HIDE DEF f
  <2>2. f[i].at = word(i) /\ f[i].color = color(drawn[i])
    BY <2>1
  <2> QED
    BY <2>2 DEF word
<1>9. DOMAIN f = DOMAIN drawn
  OBVIOUS
<1>10. \A g \in S : /\ g = <<g[1], g[2]>> /\ g[1] \in Int /\ g[2] \in Int
                    /\ <<y + g[1], x + g[2]>> \in OnScreen
  OBVIOUS
<1> HIDE DEF raster, drawn, S, f, cell
<1>11. ASSUME NEW i \in DOMAIN drawn
       PROVE  f[i].at \in Words /\ Point(f[i].at) \in P /\ f[i].color = col[f[i].at]
  <2> DEFINE g == drawn[i]
             a == x + g[2]
             b == y + g[1]
  <2>1. g \in S
    BY <1>5 DEF Range
  <2>2. g = <<g[1], g[2]>> /\ g[1] \in Int /\ g[2] \in Int /\ <<b, a>> \in OnScreen
    BY <1>10, <2>1
  <2>3. f[i].at = Word(a, b) /\ f[i].color = color(g)
    BY <1>8
  <2> HIDE DEF g, color
  <2>4. a \in 0 .. W - 1 /\ b \in 0 .. H - 1
    BY <2>2 DEF OnScreen
  <2>5. g = <<b - y, a - x>>
    BY <2>2
  <2> HIDE DEF a, b
  <2>6. Word(a, b) \in Words /\ Point(Word(a, b)) = <<a, b>>
    BY <2>4, PointOfWord
  <2>7. <<a, b>> \in P /\ color(g) = image.rows[image.h - (b - y)][a - x + 1]
    BY <1>7, <2>1, <2>4, <2>5
  <2> QED
    BY <2>3, <2>6, <2>7
<1>12. ASSUME NEW k \in Words, Point(k) \in P
       PROVE  \E i \in DOMAIN drawn : f[i].at = k
  <2> DEFINE a == k % W
             b == k \div W
             g == <<b - y, a - x>>
  <2>1. a \in 0 .. W - 1 /\ b \in 0 .. H - 1 /\ Point(k) = <<a, b>> /\ Word(a, b) = k
    BY WordOfPoint
  <2> HIDE DEF a, b
  <2>2. g \in S
    BY <1>7, <1>12, <2>1
  <2>3. PICK i \in DOMAIN drawn : drawn[i] = g
    BY <1>5, <2>2 DEF Range
  <2>4. x + drawn[i][2] = a /\ y + drawn[i][1] = b
    BY <2>1, <2>3
  <2>5. f[i].at = Word(a, b)
    BY <1>8, <2>4
  <2> QED
    BY <2>1, <2>5
<1> QED
  BY <1>2, <1>3, <1>9, <1>11, <1>12 DEF Paints

\* The calls that only draw, as far as their arguments describe a shape.
Shapes == {"clear_color", "gfx_clear", "fill", "rect", "bmp"}
Strokes == {"print_at", "puts"}

\* The words that a call of one shape stores paint that shape in its colours.
LEMMA ShapePaints ==
  ASSUME NEW call, call.kind \in Shapes, Typed(call), Meant(call),
         call.kind = "rect" => call.h \in Int,
         NEW col, \A k \in Words : col[k] = ColorOf(call, Point(k))
  PROVE  Paints(WordsOf(call), ShapeOf(call), col)
<1>1. CASE call.kind \in {"clear_color", "gfx_clear"}
  <2>1. CASE call.kind = "clear_color"
    <3>1. ShapeOf(call) = Plane /\ WordsOf(call) = ClearWrites(call.color)
      BY <2>1 DEF ShapeOf, WordsOf
    <3>2. \A k \in Words : col[k] = call.color
      BY <2>1 DEF ColorOf
    <3> QED
      BY <3>1, <3>2, ClearPaints
  <2>2. CASE call.kind = "gfx_clear"
    <3>1. ShapeOf(call) = Plane /\ WordsOf(call) = ClearWrites(current_bg)
      BY <2>2 DEF ShapeOf, WordsOf
    <3>2. \A k \in Words : col[k] = current_bg
      BY <2>2 DEF ColorOf
    <3> QED
      BY <3>1, <3>2, ClearPaints
  <2> QED
    BY <1>1, <2>1, <2>2
<1>2. CASE call.kind = "fill"
  <2>1. call.x \in Int /\ call.y \in Int /\ call.w \in 0 .. HALF - 1 /\ call.h \in 0 .. HALF - 1
    BY <1>2 DEF Typed, Meant
  <2>2. call.w % HALF = call.w /\ call.h % HALF = call.h
    <3>1. HALF \in Nat \ {0} /\ 0 * HALF = 0 /\ 0 \in Int
      BY Constant
    <3>2. (0 * HALF + call.w) % HALF = call.w /\ (0 * HALF + call.h) % HALF = call.h
      BY <2>1, <3>1, OnePlace
    <3> QED
      BY <2>1, <3>1, <3>2
  <2>3. /\ ShapeOf(call) = {p \in Plane : InBox(p, call.x, call.y, call.w, call.h)}
        /\ WordsOf(call) = FillWrites(call.x, call.y, call.w % HALF, call.h % HALF, call.color)
    BY <1>2 DEF ShapeOf, WordsOf
  <2>4. \A k \in Words : col[k] = call.color
    BY <1>2 DEF ColorOf
  <2>5. call.w \in Int /\ call.h \in Int
    BY <2>1
  <2> QED
    BY <2>1, <2>2, <2>3, <2>4, <2>5, FillPaints
<1>3. CASE call.kind = "rect"
  <2>1. /\ call.x \in Int /\ call.y \in Int /\ call.w \in Int /\ call.h \in Int
        /\ call.w >= 1 /\ call.h >= 1
    BY <1>3 DEF Typed, Meant
  <2>2. /\ ShapeOf(call) = {p \in Plane : /\ InBox(p, call.x, call.y, call.w, call.h)
                                          /\ ~InBox(p, call.x + 1, call.y + 1, call.w - 2,
                                                    call.h - 2)}
        /\ WordsOf(call) = RectWrites(call.x, call.y, call.w, call.h, call.color)
    BY <1>3 DEF ShapeOf, WordsOf
  <2>3. \A k \in Words : col[k] = call.color
    BY <1>3 DEF ColorOf
  <2> QED
    BY <2>1, <2>2, <2>3, RectPaints
<1>4. CASE call.kind = "bmp"
  <2> DEFINE image == call.image
  <2>2. WordsOf(call) = BmpWrites(call.x, call.y, image)
    BY <1>4 DEF WordsOf
  <2>5. CASE image = Null
    <3>1. WordsOf(call) = <<>> /\ ShapeOf(call) = {}
      BY <1>4, <2>2, <2>5 DEF BmpWrites, ShapeOf
    <3> QED
      BY <3>1 DEF Paints, IsSeq
  <2> SUFFICES ASSUME image # Null PROVE Paints(WordsOf(call), ShapeOf(call), col)
    BY <2>5
  <2>1. call.x \in Int /\ call.y \in Int /\ image.w \in Nat /\ image.h \in Nat
    BY <1>4 DEF Typed
  <2>3. CASE IsDrawnBmp(image)
    <3>1. ShapeOf(call) = {p \in Plane :
             /\ InBox(p, call.x, call.y, image.w, image.h)
             /\ image.rows[image.h - (p[2] - call.y)][p[1] - call.x + 1] # "clear"}
      BY <1>4, <2>3 DEF ShapeOf, BmpPoints
    <3>2. \A k \in Words :
            col[k] = image.rows[image.h - (Point(k)[2] - call.y)][Point(k)[1] - call.x + 1]
      BY <1>4, <2>3 DEF ColorOf, IsDrawnBmp
    <3> QED
      BY <2>1, <2>2, <2>3, <3>1, <3>2, ImagePaints
  <2>4. CASE ~IsDrawnBmp(image)
    <3> DEFINE P == {p \in Plane : InBox(p, call.x, call.y, ErrorSize, ErrorSize)}
    <3>1. ShapeOf(call) = P /\ ErrorSize \in Int
      BY <1>4, <2>4 DEF ShapeOf, ErrorSize
    <3>2. CASE ~image.signature
      <4>1. BmpWrites(call.x, call.y, image)
              = FillWrites(call.x, call.y, ErrorSize, ErrorSize, "red")
        BY <3>2 DEF BmpWrites
      <4>2. \A k \in Words : col[k] = "red"
        BY <1>4, <3>2 DEF ColorOf
      <4> QED
        BY <2>1, <2>2, <3>1, <4>1, <4>2, FillPaints
    <3>3. CASE image.signature
      <4>1. BadSize(image)
        BY <2>1, <2>4, <3>3, NotDrawnHasBadSize
      <4>2. BmpWrites(call.x, call.y, image)
              = FillWrites(call.x, call.y, ErrorSize, ErrorSize, "yellow")
        BY <3>3, <4>1 DEF BmpWrites
      <4>3. \A k \in Words : col[k] = "yellow"
        BY <1>4, <2>4, <3>3 DEF ColorOf
      <4> QED
        BY <2>1, <2>2, <3>1, <4>2, <4>3, FillPaints
    <3> QED
      BY <3>2, <3>3
  <2> QED
    BY <2>3, <2>4
<1> QED
  BY <1>1, <1>2, <1>3, <1>4 DEF Shapes

-----------------------------------------------------------------------------
(***************************************************************************)
(* Where the characters of a string stand.                                 *)
(***************************************************************************)
\* The cell behind one with a character in it, and the one behind a newline.
Behind(c, cell, n) == IF c = Newline THEN (cell \div n + 1) * n ELSE cell + 1

\* The cells of the characters, counted from the first.
Counts(f, s, first, n, N) ==
  f = [k \in 1 .. N |-> IF k = 1 THEN first ELSE Behind(s[k - 1], f[k - 1], n)]

\* A count of cells, one character after the other.
LEMMA CountsValue ==
  ASSUME NEW f, NEW s, NEW first, NEW n, NEW N, Counts(f, s, first, n, N)
  PROVE  \A k \in 1 .. N : f[k] = IF k = 1 THEN first ELSE Behind(s[k - 1], f[k - 1], n)
BY Zenon DEF Counts

\* There is such a count for every string (by hand: recursion over its length).
LEMMA CountsExist ==
  ASSUME NEW s, NEW first, NEW n, NEW N \in Nat \ {0}
  PROVE  \E f : Counts(f, s, first, n, N)
<1> DEFINE T == {m \in 0 .. N - 1 : \E f : Counts(f, s, first, n, m + 1)}
<1>1. 0 \in T
  <2> DEFINE f == [k \in 1 .. 1 |-> first]
  <2>1. f = [k \in 1 .. 1 |-> IF k = 1 THEN first ELSE Behind(s[k - 1], f[k - 1], n)]
    OBVIOUS
  <2>2. Counts(f, s, first, n, 1)
    BY <2>1 DEF Counts
  <2>3. Counts(f, s, first, n, 0 + 1)
    BY <2>2
  <2> QED
    BY <2>3
<1>2. ASSUME NEW m \in 0 .. (N - 1) - 1, m \in T PROVE m + 1 \in T
  <2>1. PICK f : Counts(f, s, first, n, m + 1)
    BY <1>2
  <2> DEFINE M == m + 2
             g == [k \in 1 .. M |-> IF k = M THEN Behind(s[m + 1], f[m + 1], n) ELSE f[k]]
  <2>2. ASSUME NEW k \in 1 .. M
        PROVE  g[k] = IF k = 1 THEN first ELSE Behind(s[k - 1], g[k - 1], n)
    <3>1. CASE k = M
      <4>1. k # 1 /\ k - 1 = m + 1 /\ m + 1 \in 1 .. M /\ m + 1 # M
        BY <3>1
      <4>2. g[k] = Behind(s[m + 1], f[m + 1], n)
        BY <3>1
      <4>3. g[k - 1] = f[m + 1]
        BY <4>1
      <4> QED
        BY <4>1, <4>2, <4>3, Zenon
    <3>2. CASE k # M
      <4>1. k \in 1 .. m + 1 /\ g[k] = f[k] /\ (k # 1 => g[k - 1] = f[k - 1])
        BY <3>2
      <4>2. f[k] = IF k = 1 THEN first ELSE Behind(s[k - 1], f[k - 1], n)
        BY <2>1, <4>1, CountsValue
      <4> QED
        BY <4>1, <4>2, Zenon
    <3> QED
      BY <3>1, <3>2
  <2>3. g = [k \in 1 .. M |-> g[k]]
    OBVIOUS
  <2> HIDE DEF g
  <2>4. Counts(g, s, first, n, M)
    BY <2>2, <2>3, Zenon DEF Counts
  <2>5. m + 1 \in 0 .. N - 1 /\ (m + 1) + 1 = M
    OBVIOUS
  <2> QED
    BY <2>4, <2>5
<1>3. N - 1 \in T
  <2> HIDE DEF T
  <2>1. N - 1 \in Nat
    OBVIOUS
  <2> QED
    BY <1>1, <1>2, <2>1, Induction
<1>4. (N - 1) + 1 = N
  OBVIOUS
<1> QED
  BY <1>3, <1>4

\* The cells of the model are counted so.
LEMMA CellsCount ==
  ASSUME NEW s, s \in Strings, NEW first, NEW n
  PROVE  \E cell : /\ \A k \in 1 .. Len(s) + 1 :
                         cell[k] = IF k = 1 THEN first ELSE Behind(s[k - 1], cell[k - 1], n)
                   /\ \A i : CellOf(s, i, first, n) = cell[i]
<1> DEFINE N == Len(s) + 1
           cell == CHOOSE f : Counts(f, s, first, n, N)
<1>1. N \in Nat \ {0}
  BY DEF Strings
<1>2. Counts(cell, s, first, n, N)
  BY <1>1, CountsExist
<1>3. \A i : CellOf(s, i, first, n) = cell[i]
  BY DEF CellOf, Counts, Behind
<1> HIDE DEF cell
<1>4. \A k \in 1 .. N : cell[k] = IF k = 1 THEN first ELSE Behind(s[k - 1], cell[k - 1], n)
  BY <1>2, CountsValue
<1> QED
  BY <1>3, <1>4

\* The first character stands in the first cell.
LEMMA CellFirst ==
  ASSUME NEW s, s \in Strings, NEW first, NEW n
  PROVE  CellOf(s, 1, first, n) = first
<1>1. PICK cell : /\ \A k \in 1 .. Len(s) + 1 :
                         cell[k] = IF k = 1 THEN first ELSE Behind(s[k - 1], cell[k - 1], n)
                  /\ \A i : CellOf(s, i, first, n) = cell[i]
  BY CellsCount
<1>2. 1 \in 1 .. Len(s) + 1
  BY DEF Strings
<1> QED
  BY <1>1, <1>2

\* Each character stands in the cell behind the one before it.
LEMMA CellNext ==
  ASSUME NEW s, s \in Strings, NEW first, NEW n, NEW i \in 1 .. Len(s)
  PROVE  CellOf(s, i + 1, first, n) = Behind(s[i], CellOf(s, i, first, n), n)
<1>1. PICK cell : /\ \A k \in 1 .. Len(s) + 1 :
                         cell[k] = IF k = 1 THEN first ELSE Behind(s[k - 1], cell[k - 1], n)
                  /\ \A j : CellOf(s, j, first, n) = cell[j]
  BY CellsCount
<1>2. i + 1 \in 1 .. Len(s) + 1 /\ i + 1 # 1 /\ (i + 1) - 1 = i
  BY DEF Strings
<1>3. cell[i + 1] = Behind(s[i], cell[i], n)
  BY <1>1, <1>2
<1> QED
  BY <1>1, <1>3

\* The cell behind a cell is a cell.
LEMMA BehindTyped ==
  ASSUME NEW c, NEW cell \in Nat, NEW n \in Nat \ {0}
  PROVE  Behind(c, cell, n) \in Nat
<1>1. cell \div n \in Nat
  BY SMTT(30)
<1> DEFINE q == cell \div n
<1> HIDE DEF q
<1>2. (q + 1) * n \in Nat
  BY <1>1, Product DEF q
<1> QED
  BY <1>2 DEF Behind, q

\* Every character has a cell.
LEMMA CellTyped ==
  ASSUME NEW s, s \in Strings, NEW first \in Nat, NEW n \in Nat \ {0}, NEW i \in 1 .. Len(s) + 1
  PROVE  CellOf(s, i, first, n) \in Nat
<1> DEFINE T == {m \in 0 .. Len(s) : CellOf(s, m + 1, first, n) \in Nat}
<1>1. Len(s) \in Nat
  BY DEF Strings
<1>2. 0 \in T
  BY <1>1, CellFirst
<1>3. ASSUME NEW m \in 0 .. (i - 1) - 1, m \in T PROVE m + 1 \in T
  <2>1. m + 1 \in 1 .. Len(s) /\ m + 1 \in 0 .. Len(s)
    BY <1>1
  <2>2. CellOf(s, (m + 1) + 1, first, n) = Behind(s[m + 1], CellOf(s, m + 1, first, n), n)
    <3> DEFINE j == m + 1
    <3> HIDE DEF j
    <3>1. CellOf(s, j + 1, first, n) = Behind(s[j], CellOf(s, j, first, n), n)
      BY <2>1, CellNext, Zenon DEF j
    <3> QED
      BY <3>1 DEF j
  <2>3. CellOf(s, m + 1, first, n) \in Nat
    BY <1>3
  <2> QED
    BY <2>1, <2>2, <2>3, BehindTyped
<1>4. i - 1 \in Nat
  BY <1>1
<1>5. i - 1 \in T
  <2> HIDE DEF T
  <2> QED
    BY <1>2, <1>3, <1>4, Induction
<1>6. (i - 1) + 1 = i
  BY <1>1
<1> QED
  BY <1>5, <1>6

\* Line and column of the cell behind.
LEMMA BehindPlace ==
  ASSUME NEW cell \in Nat, NEW n \in Nat \ {0}, NEW c
  PROVE  LET q == cell \div n
             r == cell % n
             next == Behind(c, cell, n)
         IN  /\ q \in Nat /\ r \in 0 .. n - 1
             /\ c = Newline \/ r + 1 = n => next \div n = q + 1 /\ next % n = 0
             /\ c # Newline /\ r + 1 # n => next \div n = q /\ next % n = r + 1
<1> DEFINE q == cell \div n
           r == cell % n
           next == Behind(c, cell, n)
<1>1. q \in Nat /\ r \in 0 .. n - 1 /\ cell = n * q + r
  BY SMTT(30)
<1> HIDE DEF q, r
<1>2. cell = q * n + r /\ q * n \in Nat /\ (q + 1) * n = q * n + n
  BY <1>1, Product
<1>3. /\ ((q + 1) * n + 0) \div n = q + 1 /\ ((q + 1) * n + 0) % n = 0
  <2>1. 0 \in 0 .. n - 1 /\ q + 1 \in Int
    BY <1>1
  <2> QED
    BY <2>1, OnePlace
<1>4. CASE c = Newline \/ r + 1 = n
  <2>1. next = (q + 1) * n + 0
    BY <1>1, <1>2, <1>4 DEF Behind, q
  <2> HIDE DEF next
  <2>2. next \div n = q + 1 /\ next % n = 0
    BY <1>3, <2>1
  <2> QED
    BY <1>1, <1>4, <2>2 DEF q, r, next
<1>5. CASE c # Newline /\ r + 1 # n
  <2>1. next = q * n + (r + 1)
    BY <1>1, <1>2, <1>5 DEF Behind
  <2>2. r + 1 \in 0 .. n - 1 /\ q \in Int
    BY <1>1, <1>5
  <2>3. (q * n + (r + 1)) \div n = q /\ (q * n + (r + 1)) % n = r + 1
    BY <2>2, OnePlace
  <2> HIDE DEF next
  <2>4. next \div n = q /\ next % n = r + 1
    BY <2>1, <2>3
  <2> QED
    BY <1>1, <1>5, <2>4 DEF q, r, next
<1> QED
  BY <1>4, <1>5

\* In a text of bga_print_at a line ends where the next character would leave the screen,
\* or with a newline, and the next begins below its column.
LEMMA LineEnds ==
  ASSUME NEW x \in Int, NEW n, n = FewestOne((W - x) \div CHAR_W), NEW r \in 0 .. n - 1
  PROVE  n \in Nat \ {0} /\ (((x + r * CHAR_W) + CHAR_W) + CHAR_W > W <=> r + 1 = n)
<1> DEFINE m == (W - x) \div CHAR_W
           b == (W - x) % CHAR_W
<1>1. W \in Int /\ CHAR_W \in Nat \ {0} /\ W - x \in Int
  BY Constant
<1>2. m \in Int /\ b \in 0 .. CHAR_W - 1 /\ W - x = CHAR_W * m + b
  BY <1>1, SMTT(30)
<1>3. n = IF m < 1 THEN 1 ELSE m
  BY DEF FewestOne
<1> HIDE DEF m, b
<1>4. n \in Nat \ {0} /\ r \in Int /\ (r + 2 > m <=> r + 1 = n)
  BY <1>2, <1>3
<1> DEFINE e == (r + 2) - m
<1>5. /\ e * CHAR_W = r * CHAR_W + CHAR_W + CHAR_W - CHAR_W * m
      /\ e \in Int /\ e * CHAR_W \in Int /\ r * CHAR_W \in Int /\ CHAR_W * m \in Int
  BY <1>1, <1>2, <1>4
<1>6. e > 0 => e * CHAR_W >= CHAR_W
  <2>1. ASSUME e > 0 PROVE e * CHAR_W >= CHAR_W
    <3>1. e - 1 \in Nat
      BY <1>5, <2>1
    <3> HIDE DEF e
    <3>2. (e - 1) * CHAR_W >= 0 /\ (e - 1) * CHAR_W = e * CHAR_W - CHAR_W
      BY <1>1, <1>5, <3>1, Product
    <3> QED
      BY <1>1, <1>5, <3>2
  <2> QED
    BY <2>1
<1>7. e <= 0 => e * CHAR_W <= 0
  <2>1. ASSUME e <= 0 PROVE e * CHAR_W <= 0
    <3>1. 0 - e \in Nat
      BY <1>5, <2>1
    <3> HIDE DEF e
    <3>2. (0 - e) * CHAR_W >= 0 /\ (0 - e) * CHAR_W = 0 - e * CHAR_W
      BY <1>1, <1>5, <3>1, Product
    <3> QED
      BY <1>1, <1>5, <3>2
  <2> QED
    BY <2>1
<1>8. e > 0 <=> r + 1 = n
  BY <1>2, <1>4
<1> HIDE DEF e
<1>9. e * CHAR_W > b <=> e > 0
  BY <1>1, <1>2, <1>5, <1>6, <1>7
<1>10. (((x + r * CHAR_W) + CHAR_W) + CHAR_W > W <=> e * CHAR_W > b)
  BY <1>1, <1>2, <1>5
<1> QED
  BY <1>4, <1>8, <1>9, <1>10

\* bga_print_at: a character goes beside the last one, or at the column of the text one
\* line below (bga.c:407-431).
LEMMA PrintAtPlaces ==
  ASSUME NEW call, call.kind = "print_at", call.x \in Int, call.y \in Int, call.s \in Strings
  PROVE  /\ Corner(call, 1) = <<call.x, call.y>>
         /\ \A i \in 1 .. Len(call.s) + 1 : Corner(call, i) \in Int \X Int
         /\ \A i \in 1 .. Len(call.s) :
              LET c == Corner(call, i)
              IN  Corner(call, i + 1)
                    = IF call.s[i] = Newline \/ (c[1] + CHAR_W) + CHAR_W > W
                      THEN <<call.x, c[2] + CHAR_H>> ELSE <<c[1] + CHAR_W, c[2]>>
<1> DEFINE x == call.x
           y == call.y
           s == call.s
           n == FewestOne((W - x) \div CHAR_W)
           cell(i) == CellOf(s, i, 0, n)
           q(i) == cell(i) \div n
           r(i) == cell(i) % n
<1> HIDE DEF x, y, s
<1>1. x \in Int /\ y \in Int /\ s \in Strings /\ Len(s) \in Nat
  BY DEF x, y, s, Strings
<1>2. CHAR_W \in Int /\ CHAR_H \in Int
  BY Constant
<1>3. n \in Nat \ {0}
  <2>1. (W - x) \div CHAR_W \in Int
    BY <1>1, Constant, SMTT(30)
  <2> QED
    BY <2>1 DEF FewestOne
<1>4. \A i : Corner(call, i) = <<x + r(i) * CHAR_W, y + q(i) * CHAR_H>>
  BY DEF Corner, PrintAtCorner, x, y, s
<1> DEFINE nn == n
<1>5. \A k \in 0 .. n - 1 : ((x + k * CHAR_W) + CHAR_W) + CHAR_W > W <=> k + 1 = n
  BY <1>1, LineEnds
<1> HIDE DEF n
<1>6. \A i \in 1 .. Len(s) + 1 : cell(i) \in Nat
  BY <1>1, <1>3, CellTyped
<1>7. \A i \in 1 .. Len(s) : cell(i + 1) = Behind(s[i], cell(i), n)
  BY <1>1, CellNext, Zenon
<1>8. cell(1) = 0
  BY <1>1, CellFirst, Zenon
<1>9. \A i \in 1 .. Len(s) + 1 : q(i) \in Nat /\ r(i) \in 0 .. n - 1
  <2> TAKE i \in 1 .. Len(s) + 1
  <2>1. cell(i) \in Nat
    BY <1>6
  <2> HIDE DEF cell
  <2> QED
    BY <1>3, <2>1, BehindPlace
<1>10. q(1) = 0 /\ r(1) = 0
  <2>1. 0 \in Int /\ 0 \in 0 .. n - 1 /\ 0 * n + 0 = 0
    BY <1>3
  <2>2. (0 * n + 0) \div n = 0 /\ (0 * n + 0) % n = 0
    BY <1>3, <2>1, OnePlace
  <2> QED
    BY <1>8, <2>1, <2>2
<1>11. Corner(call, 1) = <<x, y>>
  <2>1. x + 0 * CHAR_W = x /\ y + 0 * CHAR_H = y
    BY <1>1, <1>2
  <2> QED
    BY <1>4, <1>10, <2>1
<1>12. ASSUME NEW i \in 1 .. Len(s) + 1 PROVE Corner(call, i) \in Int \X Int
  <2>1. q(i) \in Int /\ r(i) \in Int
    BY <1>9
  <2> HIDE DEF q, r
  <2>2. x + r(i) * CHAR_W \in Int /\ y + q(i) * CHAR_H \in Int
    BY <1>1, <1>2, <2>1
  <2> QED
    BY <1>4, <2>2
<1>13. ASSUME NEW i \in 1 .. Len(s)
       PROVE  LET c == Corner(call, i)
              IN  Corner(call, i + 1)
                    = IF s[i] = Newline \/ (c[1] + CHAR_W) + CHAR_W > W
                      THEN <<x, c[2] + CHAR_H>> ELSE <<c[1] + CHAR_W, c[2]>>
  <2> DEFINE a == x + r(i) * CHAR_W
             b == y + q(i) * CHAR_H
  <2>1. Corner(call, i) = <<a, b>>
    BY <1>4
  <2>2. q(i) \in Nat /\ r(i) \in 0 .. n - 1 /\ cell(i) \in Nat
    BY <1>6, <1>9
  <2>3. /\ s[i] = Newline \/ r(i) + 1 = n => q(i + 1) = q(i) + 1 /\ r(i + 1) = 0
        /\ s[i] # Newline /\ r(i) + 1 # n => q(i + 1) = q(i) /\ r(i + 1) = r(i) + 1
    <3>1. cell(i + 1) = Behind(s[i], cell(i), n)
      BY <1>7
    <3> HIDE DEF cell
    <3>2. cell(i) \in Nat
      BY <2>2
    <3>3. LET next == Behind(s[i], cell(i), n)
          IN  /\ s[i] = Newline \/ r(i) + 1 = n => next \div n = q(i) + 1 /\ next % n = 0
              /\ s[i] # Newline /\ r(i) + 1 # n => next \div n = q(i) /\ next % n = r(i) + 1
      BY <1>3, <3>2, BehindPlace, Zenon
    <3> QED
      BY <3>1, <3>3
  <2>4. r(i) + 1 = n <=> (a + CHAR_W) + CHAR_W > W
    BY <1>5, <2>2
  <2>5. Corner(call, i + 1) = <<x + r(i + 1) * CHAR_W, y + q(i + 1) * CHAR_H>>
    BY <1>4
  <2> HIDE DEF q, r
  <2>6. CASE s[i] = Newline \/ r(i) + 1 = n
    <3>1. x + 0 * CHAR_W = x /\ y + (q(i) + 1) * CHAR_H = b + CHAR_H
      BY <1>1, <1>2, <2>2
    <3>2. Corner(call, i + 1) = <<x, b + CHAR_H>>
      BY <2>3, <2>5, <2>6, <3>1
    <3> HIDE DEF a, b
    <3> QED
      BY <2>1, <2>4, <2>6, <3>2
  <2>7. CASE s[i] # Newline /\ r(i) + 1 # n
    <3>1. x + (r(i) + 1) * CHAR_W = a + CHAR_W
      BY <1>1, <1>2, <2>2
    <3>2. Corner(call, i + 1) = <<a + CHAR_W, b>>
      BY <2>3, <2>5, <2>7, <3>1
    <3> HIDE DEF a, b
    <3> QED
      BY <2>1, <2>4, <2>7, <3>2
  <2> QED
    BY <2>6, <2>7
<1> QED
  BY <1>11, <1>12, <1>13 DEF x, y, s

\* A text of bga_print goes on from line to line, and from the last line to the first.
LEMMA LastLine ==
  ASSUME NEW b \in Nat \ {0}, NEW m \in Nat \ {0}, NEW l \in 0 .. m - 1
  PROVE  l * b + b >= m * b <=> l + 1 = m
<1>1. l * b \in Int /\ m * b \in Int /\ (l + 1) * b = l * b + b
  OBVIOUS
<1>2. CASE l + 1 = m
  BY <1>1, <1>2
<1>3. CASE l + 1 # m
  <2>1. m - l - 2 \in Nat
    BY <1>3
  <2>2. (m - l - 2) * b >= 0
    BY <2>1, Product
  <2>3. (m - l - 2) * b = m * b - l * b - b - b
    OBVIOUS
  <2>4. l * b + b < m * b
    BY <1>1, <2>2, <2>3
  <2> QED
    BY <1>1, <1>3, <2>4
<1> QED
  BY <1>2, <1>3

\* Where the next line of bga_print is.
Below(y) == IF y + CHAR_H >= H THEN 0 ELSE y + CHAR_H

\* bga_print: a character goes beside the last one, or at the start of the line below, the
\* first one below the last (bga.c:375-402).
LEMMA PutsPlaces ==
  ASSUME NEW call, call.kind = "puts", call.s \in Strings,
         NEW j \in Nat, NEW l \in Nat, home = <<j * CHAR_W, l * CHAR_H>>,
         j * CHAR_W < W, l * CHAR_H < H
  PROVE  /\ Corner(call, 1) = home
         /\ \A i \in 1 .. Len(call.s) + 1 : Corner(call, i) \in Int \X Int
         /\ \A i \in 1 .. Len(call.s) :
              LET c == Corner(call, i)
              IN  Corner(call, i + 1)
                    = IF call.s[i] = Newline \/ (c[1] + CHAR_W) + CHAR_W > W
                      THEN <<0, Below(c[2])>> ELSE <<c[1] + CHAR_W, c[2]>>
<1> DEFINE n == W \div CHAR_W
           m == H \div CHAR_H
<1>1. /\ n \in Nat \ {0} /\ W = n * CHAR_W /\ m \in Nat \ {0} /\ H = m * CHAR_H
      /\ CHAR_W \in Nat \ {0} /\ CHAR_H \in Nat \ {0}
  <2>1. ASSUME NEW a \in Nat \ {0}, NEW b \in Nat \ {0}, a % b = 0
        PROVE  a \div b \in Nat \ {0} /\ a = (a \div b) * b
    <3>1. PICK k \in Nat : a = k * b
      BY <2>1, Divides
    <3>2. k # 0
      BY <2>1, <3>1
    <3>3. 0 \in 0 .. b - 1 /\ k * b + 0 = a
      BY <2>1, <3>1
    <3>4. (k * b + 0) \div b = k
      BY <2>1, <3>3, OnePlace
    <3> QED
      BY <3>1, <3>2, <3>3, <3>4
  <2> QED
    BY <2>1, Constant, ScreenAssumption
<1> DEFINE s == call.s
           first == (home[2] \div CHAR_H) * n + home[1] \div CHAR_W
           cell(i) == CellOf(s, i, first, n)
           q(i) == cell(i) \div n
           r(i) == cell(i) % n
           t(i) == q(i) % m
<1>2. \A i : Corner(call, i) = <<r(i) * CHAR_W, t(i) * CHAR_H>>
  BY DEF Corner, PutsCorner
<1> HIDE DEF s
<1>3. first = l * n + j /\ first \in Nat /\ j \in 0 .. n - 1 /\ l \in 0 .. m - 1
  <2>1. j < n
    <3>1. ASSUME j >= n PROVE FALSE
      <4>1. j - n \in Nat /\ (j - n) * CHAR_W >= 0 /\ (j - n) * CHAR_W = j * CHAR_W - n * CHAR_W
        BY <1>1, <3>1, Product
      <4> QED
        BY <1>1, <4>1
    <3> QED
      BY <1>1, <3>1
  <2>2. l < m
    <3>1. ASSUME l >= m PROVE FALSE
      <4>1. l - m \in Nat /\ (l - m) * CHAR_H >= 0 /\ (l - m) * CHAR_H = l * CHAR_H - m * CHAR_H
        BY <1>1, <3>1, Product
      <4> QED
        BY <1>1, <4>1
    <3> QED
      BY <1>1, <3>1
  <2>3. (l * CHAR_H + 0) \div CHAR_H = l /\ (j * CHAR_W + 0) \div CHAR_W = j
    <3>1. 0 \in 0 .. CHAR_H - 1 /\ 0 \in 0 .. CHAR_W - 1
      BY <1>1
    <3> QED
      BY <1>1, <3>1, OnePlace
  <2>4. l * CHAR_H + 0 = l * CHAR_H /\ j * CHAR_W + 0 = j * CHAR_W
    BY <1>1
  <2>5. home[2] \div CHAR_H = l /\ home[1] \div CHAR_W = j
    BY <2>3, <2>4
  <2>6. l * n \in Nat
    BY <1>1, Product
  <2> HIDE DEF n, m
  <2> QED
    BY <1>1, <2>1, <2>2, <2>5, <2>6
<1> HIDE DEF n, m, first
<1>4. s \in Strings /\ Len(s) \in Nat
  BY DEF s, Strings
<1>5. \A i \in 1 .. Len(s) + 1 : cell(i) \in Nat
  BY <1>1, <1>3, <1>4, CellTyped
<1>6. \A i \in 1 .. Len(s) : cell(i + 1) = Behind(s[i], cell(i), n)
  BY <1>4, CellNext, Zenon
<1>7. cell(1) = l * n + j
  BY <1>3, <1>4, CellFirst, Zenon
<1>8. \A i \in 1 .. Len(s) + 1 : q(i) \in Nat /\ r(i) \in 0 .. n - 1 /\ t(i) \in 0 .. m - 1
  <2> TAKE i \in 1 .. Len(s) + 1
  <2>1. cell(i) \in Nat
    BY <1>5
  <2> HIDE DEF cell
  <2>2. q(i) \in Nat /\ r(i) \in 0 .. n - 1
    BY <1>1, <2>1, BehindPlace
  <2> HIDE DEF q
  <2>3. t(i) \in 0 .. m - 1
    BY <1>1, <2>2, BehindPlace
  <2> QED
    BY <2>2, <2>3
<1>9. q(1) = l /\ r(1) = j /\ t(1) = l
  <2>1. (l * n + j) \div n = l /\ (l * n + j) % n = j
    BY <1>1, <1>3, OnePlace
  <2>2. (0 * m + l) % m = l /\ 0 * m + l = l
    BY <1>1, <1>3, OnePlace
  <2> QED
    BY <1>7, <2>1, <2>2
<1>10. Corner(call, 1) = home
  BY <1>2, <1>9, Zenon
<1>11. ASSUME NEW i \in 1 .. Len(s) + 1 PROVE Corner(call, i) \in Int \X Int
  <2>1. t(i) \in Int /\ r(i) \in Int
    BY <1>8
  <2>2. Corner(call, i) = <<r(i) * CHAR_W, t(i) * CHAR_H>>
    BY <1>2
  <2> HIDE DEF t, r
  <2>3. r(i) * CHAR_W \in Int /\ t(i) * CHAR_H \in Int
    BY <1>1, <2>1
  <2> QED
    BY <2>2, <2>3
<1>12. \A k \in 0 .. n - 1 : (k * CHAR_W + CHAR_W) + CHAR_W > W <=> k + 1 = n
  <2> TAKE k \in 0 .. n - 1
  <2>1. FewestOne((W - 0) \div CHAR_W) = n
    BY <1>1 DEF FewestOne, n
  <2>2. ((0 + k * CHAR_W) + CHAR_W) + CHAR_W > W <=> k + 1 = n
    BY <2>1, LineEnds
  <2>3. 0 + k * CHAR_W = k * CHAR_W
    BY <1>1
  <2> QED
    BY <2>2, <2>3
<1>13. ASSUME NEW i \in 1 .. Len(s)
       PROVE  LET c == Corner(call, i)
              IN  Corner(call, i + 1)
                    = IF s[i] = Newline \/ (c[1] + CHAR_W) + CHAR_W > W
                      THEN <<0, Below(c[2])>> ELSE <<c[1] + CHAR_W, c[2]>>
  <2> DEFINE a == r(i) * CHAR_W
             b == t(i) * CHAR_H
  <2>1. Corner(call, i) = <<a, b>>
    BY <1>2
  <2>2. q(i) \in Nat /\ r(i) \in 0 .. n - 1 /\ cell(i) \in Nat /\ t(i) \in 0 .. m - 1
    BY <1>4, <1>5, <1>8
  <2>3. /\ s[i] = Newline \/ r(i) + 1 = n => q(i + 1) = q(i) + 1 /\ r(i + 1) = 0
        /\ s[i] # Newline /\ r(i) + 1 # n => q(i + 1) = q(i) /\ r(i + 1) = r(i) + 1
    <3> DEFINE e == cell(i)
               x == cell(i + 1)
    <3>1. x = Behind(s[i], e, n) /\ e \in Nat
      BY <1>6, <2>2, Zenon
    <3>2. q(i) = e \div n /\ r(i) = e % n /\ q(i + 1) = x \div n /\ r(i + 1) = x % n
      OBVIOUS
    <3> HIDE DEF e, x, q, r
    <3>3. /\ s[i] = Newline \/ (e % n) + 1 = n => x \div n = (e \div n) + 1 /\ x % n = 0
          /\ s[i] # Newline /\ (e % n) + 1 # n => x \div n = e \div n /\ x % n = (e % n) + 1
      <4> DEFINE y == Behind(s[i], e, n)
      <4>1. n \in Nat \ {0} /\ e \in Nat
        BY <1>1, <3>1
      <4>2. /\ s[i] = Newline \/ (e % n) + 1 = n => y \div n = (e \div n) + 1 /\ y % n = 0
            /\ s[i] # Newline /\ (e % n) + 1 # n => y \div n = e \div n /\ y % n = (e % n) + 1
        BY <4>1, BehindPlace, Zenon
      <4>3. x = y
        BY <3>1
      <4> QED
        BY <4>2, <4>3, Zenon
    <3> QED
      BY <3>2, <3>3
  <2>4. r(i) + 1 = n <=> (a + CHAR_W) + CHAR_W > W
    BY <1>12, <2>2
  <2>5. Corner(call, i + 1) = <<r(i + 1) * CHAR_W, t(i + 1) * CHAR_H>>
    BY <1>2
  <2> DEFINE u == q(i)
  <2>6. (u + 1) % m = IF t(i) + 1 = m THEN 0 ELSE t(i) + 1
    <3>1. Behind("", u, m) = u + 1
      BY DEF Behind, Newline
    <3>2. u \in Nat
      BY <2>2
    <3>3. t(i) = u % m
      OBVIOUS
    <3> HIDE DEF u, t
    <3>4. "" # Newline
      BY DEF Newline
    <3>5. /\ (u % m) \in 0 .. m - 1
          /\ (u % m) + 1 = m => (u + 1) % m = 0
          /\ (u % m) + 1 # m => (u + 1) % m = (u % m) + 1
      <4> DEFINE c == ""
                 v == Behind(c, u, m)
      <4>1. v = u + 1 /\ c # Newline
        BY <3>1, <3>4
      <4> HIDE DEF c
      <4>2. /\ (u % m) \in 0 .. m - 1
            /\ (u % m) + 1 = m => v % m = 0
            /\ (u % m) + 1 # m => v % m = (u % m) + 1
        BY <1>1, <3>2, <4>1, BehindPlace
      <4> HIDE DEF v
      <4> QED
        BY <4>1, <4>2
    <3> QED
      BY <3>3, <3>5
  <2>7. b + CHAR_H >= H <=> t(i) + 1 = m
    <3> DEFINE l0 == t(i)
    <3>1. l0 \in 0 .. m - 1
      BY <2>2
    <3> HIDE DEF l0
    <3>2. l0 * CHAR_H + CHAR_H >= m * CHAR_H <=> l0 + 1 = m
      BY <1>1, <3>1, LastLine
    <3> QED
      BY <1>1, <3>2 DEF l0
  <2>8. ((t(i) + 1) * CHAR_H = b + CHAR_H) /\ (0 * CHAR_H = 0) /\ (0 * CHAR_W = 0)
    <3>1. t(i) \in Int
      BY <2>2
    <3> HIDE DEF t
    <3> QED
      BY <1>1, <3>1
  <2>9. CASE s[i] = Newline \/ r(i) + 1 = n
    <3>1. t(i + 1) = (u + 1) % m /\ r(i + 1) = 0
      BY <2>3, <2>9
    <3> HIDE DEF q, r, t, u
    <3>2. t(i + 1) * CHAR_H = Below(b)
      BY <2>6, <2>7, <2>8, <3>1 DEF Below
    <3>3. Corner(call, i + 1) = <<0, Below(b)>>
      BY <2>5, <2>8, <3>1, <3>2
    <3> HIDE DEF a, b
    <3> QED
      BY <2>1, <2>4, <2>9, <3>3
  <2>10. CASE s[i] # Newline /\ r(i) + 1 # n
    <3>1. t(i + 1) = t(i) /\ r(i + 1) = r(i) + 1
      BY <2>3, <2>10
    <3>2. r(i) \in Int
      BY <2>2
    <3> HIDE DEF q, r, t, u
    <3>3. (r(i) + 1) * CHAR_W = a + CHAR_W
      BY <1>1, <3>2
    <3>4. Corner(call, i + 1) = <<a + CHAR_W, b>>
      BY <2>5, <3>1, <3>3
    <3> HIDE DEF a, b
    <3> QED
      BY <2>1, <2>4, <2>10, <3>4
  <2> QED
    BY <2>9, <2>10
<1> QED
  BY <1>10, <1>11, <1>13 DEF s

-----------------------------------------------------------------------------
(***************************************************************************)
(* A picture that is being painted: in the points P it has its colour, or  *)
(* the word is still to be written, and elsewhere it is the old one.       *)
(***************************************************************************)
Partly(picture, old, P, ink, writes) ==
  /\ IsSeq(writes)
  /\ \A i \in DOMAIN writes : /\ writes[i].at \in Words /\ Point(writes[i].at) \in P
                              /\ writes[i].color = ink[writes[i].at]
  /\ \A k \in Words : Point(k) \in P => \/ picture[k] = ink[k]
                                        \/ \E i \in DOMAIN writes : writes[i].at = k
  /\ \A k \in Words : Point(k) \notin P => picture[k] = old[k]

\* A picture on which nothing is to be painted.
LEMMA NothingPainted == ASSUME NEW old, NEW ink PROVE Partly(old, old, {}, ink, <<>>)
BY EmptySeq DEF Partly, IsSeq

\* The words of a shape are put in line behind what is painted already.
LEMMA StartsPainting ==
  ASSUME NEW picture, NEW old, NEW P, NEW Q, NEW ink, NEW writes,
         Partly(picture, old, P, ink, <<>>), Paints(writes, Q, ink)
  PROVE  Partly(picture, old, P \cup Q, ink, writes)
<1>1. DOMAIN <<>> = {}
  OBVIOUS
<1>2. \A k \in Words : Point(k) \in P => picture[k] = ink[k]
  BY <1>1 DEF Partly
<1> QED
  BY <1>2 DEF Partly, Paints

\* One more word of the shape is stored.
LEMMA PaintsOne ==
  ASSUME NEW picture, DOMAIN picture = Words, NEW old, NEW P, NEW ink, NEW writes, writes # <<>>,
         Partly(picture, old, P, ink, writes)
  PROVE  Partly(Store(picture, Head(writes).at, Head(writes).color), old, P, ink, Tail(writes))
<1> DEFINE first == Head(writes)
           rest == Tail(writes)
           new == Store(picture, first.at, first.color)
<1>1. IsSeq(writes) /\ 1 \in DOMAIN writes /\ first = writes[1] /\ DOMAIN writes = 1 .. Len(writes)
      /\ Len(writes) \in Nat
  BY SeqFacts DEF Partly
<1>2. IsSeq(rest) /\ \A i \in DOMAIN rest : i + 1 \in DOMAIN writes /\ rest[i] = writes[i + 1]
  BY <1>1, TailFacts
<1>3. \A i \in DOMAIN writes : i # 1 => i - 1 \in DOMAIN rest /\ rest[i - 1] = writes[i]
  <2> TAKE i \in DOMAIN writes
  <2> HAVE i # 1
  <2>1. DOMAIN rest = 1 .. Len(writes) - 1
    <3>1. PICK S : writes \in Seq(S)
      BY <1>1 DEF IsSeq
    <3> QED
      BY <3>1
  <2>2. i - 1 \in DOMAIN rest /\ (i - 1) + 1 = i
    BY <1>1, <2>1
  <2> QED
    BY <1>2, <2>2
<1>4. first.at \in Words /\ Point(first.at) \in P /\ first.color = ink[first.at]
  BY <1>1 DEF Partly
<1>5. \A k \in Words : new[k] = IF k = first.at THEN first.color ELSE picture[k]
  BY <1>4 DEF Store
<1> HIDE DEF first, rest, new
<1>6. \A i \in DOMAIN rest : /\ rest[i].at \in Words /\ Point(rest[i].at) \in P
                             /\ rest[i].color = ink[rest[i].at]
  BY <1>2 DEF Partly
<1>7. ASSUME NEW k \in Words, Point(k) \in P
      PROVE  new[k] = ink[k] \/ \E i \in DOMAIN rest : rest[i].at = k
  <2>1. CASE k = first.at
    BY <1>4, <1>5, <2>1
  <2>2. CASE k # first.at /\ picture[k] = ink[k]
    BY <1>5, <2>2
  <2>3. CASE k # first.at /\ picture[k] # ink[k]
    <3>1. PICK i \in DOMAIN writes : writes[i].at = k
      BY <1>7, <2>3 DEF Partly
    <3>2. i # 1
      BY <1>1, <2>3, <3>1
    <3> QED
      BY <1>3, <3>1, <3>2
  <2> QED
    BY <2>1, <2>2, <2>3
<1>8. ASSUME NEW k \in Words, Point(k) \notin P PROVE new[k] = old[k]
  <2>1. k # first.at
    BY <1>4, <1>8
  <2> QED
    BY <1>5, <1>8, <2>1 DEF Partly
<1>9. Partly(new, old, P, ink, rest)
  BY <1>2, <1>6, <1>7, <1>8 DEF Partly
<1> QED
  BY <1>9 DEF first, rest, new

\* With no word left the shape has its colour and the rest is as it was.
LEMMA AllPainted ==
  ASSUME NEW picture, NEW old, NEW P, NEW ink, Partly(picture, old, P, ink, <<>>)
  PROVE  \A k \in Words : picture[k] = IF Point(k) \in P THEN ink[k] ELSE old[k]
<1>1. DOMAIN <<>> = {}
  OBVIOUS
<1> QED
  BY <1>1 DEF Partly

-----------------------------------------------------------------------------
(***************************************************************************)
(* The invariant: how far the call that is served has painted.             *)
(***************************************************************************)
Ink == [k \in Words |-> ColorOf(job, Point(k))]
Shape == ShapeOf(job)
Meaning == Meant(job)
Corners == [i \in 1 .. Len(job.s) + 1 |-> Corner(job, i)]

Shown(P) == Partly(fb, before, P, Ink, <<>>)
Halfway(P) == Partly(fb, before, P, Ink, work)

\* The points of a character, and those of the first d of a string.
CellPoints(c, corner) ==
  {p \in Plane : c # Newline /\ <<p[2] - corner[2], p[1] - corner[1]>> \in Glyph[c]}
Cover(s, corners, d) == UNION {CellPoints(s[i], corners[i]) : i \in 1 .. d}
Upto(d) == Cover(job.s, Corners, d)

\* Characters of the string that have been taken, and where the next one goes.
Taken == Len(job.s) - Len(text)
Here == IF job.kind = "print_at" THEN <<pos_x, pos_y>> ELSE <<cursor_x, cursor_y>>
Place == Corners[Taken + 1]
Breaks == Head(text) = Newline \/ (Place[1] + CHAR_W) + CHAR_W > W

PictureInv ==
  /\ fb = [k \in DOMAIN fb |-> fb[k]] /\ before = [k \in DOMAIN before |-> before[k]]
  /\ \E k \in Nat : cursor_x = k * CHAR_W

KindInv ==
  /\ pc = "draw" => job.kind \in Shapes \cup Strokes
  /\ pc \in {"home_x", "home_y"} => job.kind \in {"clear_color", "gfx_clear"}
  /\ pc \in {"char", "advance"} => job.kind \in Strokes
  /\ pc \in {"wrap", "line", "top"} => job.kind = "puts"
  /\ pc \in TextLabels \ {"stopped"} => job.kind \in TextKinds

ShapeInv ==
  job.kind \in Shapes /\ Meaning =>
    /\ pc = "draw" => Halfway(Shape)
    /\ pc \in {"home_x", "home_y", "done"} => Shown(Shape)

\* The text is the rest of the string, and where the next character is to go is where
\* the lines and columns put it.
RestOf(s, t) == /\ IsSeq(t) /\ Len(t) <= Len(s)
                /\ \A i \in 1 .. Len(t) : t[i] = s[(Len(s) - Len(t)) + i]

AtStart == home \in {<<j * CHAR_W, l * CHAR_H>> : j, l \in Nat} /\ home[1] < W /\ home[2] < H

StrokeInv ==
  job.kind \in Strokes /\ Meaning /\ pc \in Labels \ {"ready"} =>
    /\ RestOf(job.s, text) /\ (job.kind = "puts" => AtStart)
    /\ pc \notin {"char", "done"} => text # <<>>
    /\ pc \in {"draw", "advance", "wrap"} => Head(text) # Newline
    /\ pc = "char" => Here = Place /\ Shown(Upto(Taken))
    /\ pc = "draw" => Here = Place /\ Halfway(Upto(Taken + 1))
    /\ pc = "advance" => Here = Place
    /\ pc = "wrap" => cursor_x = Place[1] + CHAR_W /\ cursor_y = Place[2]
    /\ pc = "line" => Breaks /\ cursor_x = 0 /\ cursor_y = Place[2]
    /\ pc = "top"  => Breaks /\ cursor_x = 0 /\ cursor_y = Place[2] + CHAR_H
    /\ pc \in {"advance", "wrap", "line", "top"} => Shown(Upto(Taken + 1))
    /\ pc = "done" => Shown(Upto(Len(job.s)))

OtherInv ==
  job.kind \notin Shapes \cup Strokes /\ pc \notin {"ready", "stopped"} => fb = before

PaintInv == PictureInv /\ KindInv /\ ShapeInv /\ StrokeInv /\ OtherInv

\* At the start no call is served.
LEMMA InitPaint == TextInit => PaintInv
<1> SUFFICES ASSUME TextInit PROVE PaintInv
  OBVIOUS
<1>1. fb = Blank /\ before = Blank /\ cursor_x = 0 /\ pc = "ready" /\ job = None
  BY DEF TextInit, Init
<1>2. 0 * CHAR_W = 0 /\ 0 \in Nat
  BY Constant
<1>3. PictureInv
  BY <1>1, <1>2 DEF PictureInv, Blank
<1> QED
  BY <1>1, <1>3 DEF PaintInv, KindInv, ShapeInv, StrokeInv, OtherInv, None, Shapes, Strokes,
                    TextLabels, Labels

\* What a step that stays in the call keeps.
LEMMA SameCall ==
  ASSUME UNCHANGED <<job, home, current_fg, current_bg, torn>>
  PROVE  /\ Ink' = Ink /\ Meaning' = Meaning /\ Corners' = Corners
         /\ job.kind \in Shapes => Shape' = Shape
<1>1. Ink' = Ink
  BY DEF Ink, ColorOf
<1>2. Meaning' = Meaning
  BY DEF Meaning, Meant
<1>3. Corners' = Corners
  BY DEF Corners, Corner, PrintAtCorner, PutsCorner
<1>4. ASSUME job.kind \in Shapes PROVE Shape' = Shape
  BY <1>4 DEF Shape, ShapeOf, Shapes, BmpPoints, IsDrawnBmp
<1> QED
  BY <1>1, <1>2, <1>3, <1>4

\* What a step that takes no character keeps.
LEMMA SameText ==
  ASSUME UNCHANGED <<job, text, home, current_fg, current_bg, torn>>
  PROVE  /\ Taken' = Taken /\ Place' = Place /\ Breaks' = Breaks
         /\ (Upto(Taken))' = Upto(Taken) /\ (Upto(Taken + 1))' = Upto(Taken + 1)
         /\ (Upto(Len(job.s)))' = Upto(Len(job.s))
<1>1. Corners' = Corners
  BY SameCall
<1>2. Taken' = Taken
  BY DEF Taken
<1>3. Place' = Place
  BY <1>1, <1>2 DEF Place
<1>4. Breaks' = Breaks
  BY <1>3 DEF Breaks
<1> QED
  BY <1>1, <1>2, <1>3, <1>4 DEF Upto

\* A word of the shape is stored.
LEMMA PixelPaint == ASSUME IInv, PaintInv, WritePixel PROVE PaintInv'
<1>1. /\ pc = "draw" /\ pc' = "draw" /\ work # <<>> /\ work' = Tail(work)
      /\ fb' = Store(fb, Head(work).at, Head(work).color)
      /\ UNCHANGED <<cursor_x, cursor_y, current_fg, current_bg, text, pos_x, pos_y, job,
                     before, home, torn>>
  BY DEF WritePixel, cursorVars, colorVars, textVars, callVars
<1>2. DOMAIN fb = Words
  BY DEF IInv, GraphicsInv
<1>3. Ink' = Ink /\ Meaning' = Meaning /\ (job.kind \in Shapes => Shape' = Shape)
  BY <1>1, SameCall
<1>4. /\ Taken' = Taken /\ Place' = Place /\ (Upto(Taken + 1))' = Upto(Taken + 1)
  BY <1>1, SameText
<1>5. PictureInv'
  <2>1. fb' = [k \in DOMAIN fb' |-> fb'[k]]
    BY <1>1 DEF Store
  <2>2. before' = [k \in DOMAIN before' |-> before'[k]]
    BY <1>1 DEF PaintInv, PictureInv
  <2> QED
    BY <1>1, <2>1, <2>2 DEF PaintInv, PictureInv
<1>6. KindInv' /\ OtherInv'
  BY <1>1 DEF PaintInv, KindInv, OtherInv, TextLabels
<1>7. ASSUME NEW P, Partly(fb, before, P, Ink, work)
      PROVE  Partly(fb', before', P, Ink', work')
  BY <1>1, <1>2, <1>3, <1>7, PaintsOne
<1>8. ShapeInv'
  BY <1>1, <1>3, <1>7 DEF PaintInv, ShapeInv, Halfway
<1>9. StrokeInv'
  <2> SUFFICES ASSUME job.kind \in Strokes, Meaning PROVE StrokeInv'
    BY <1>1, <1>3 DEF StrokeInv
  <2>1. /\ RestOf(job.s, text) /\ (job.kind = "puts" => AtStart) /\ text # <<>>
        /\ Head(text) # Newline /\ Here = Place /\ Halfway(Upto(Taken + 1))
    BY <1>1 DEF PaintInv, StrokeInv, Labels
  <2>2. (Halfway(Upto(Taken + 1)))'
    BY <1>4, <1>7, <2>1 DEF Halfway
  <2>3. Here' = Here /\ (AtStart' <=> AtStart)
    BY <1>1 DEF Here, AtStart
  <2> QED
    BY <1>1, <1>4, <2>1, <2>2, <2>3 DEF StrokeInv
<1> QED
  BY <1>5, <1>6, <1>8, <1>9 DEF PaintInv

\* The other steps of a call keep the picture; what they keep of the rest.
Keeps == /\ UNCHANGED <<fb, before, job, home, current_fg, current_bg, torn>>
         /\ pc \in Labels \ {"ready"}

\* A step that stores nothing keeps the invariant where it keeps the part on the text.
LEMMA KeptPaint ==
  ASSUME PaintInv, Keeps, KindInv', StrokeInv',
         cursor_x' \in {cursor_x, 0, cursor_x + CHAR_W},
         job.kind \in Shapes /\ Meaning =>
           (pc' # "draw" /\ (pc' \in {"home_x", "home_y", "done"} => Shown(Shape)))
  PROVE  PaintInv'
<1>1. Ink' = Ink /\ Meaning' = Meaning /\ (job.kind \in Shapes => Shape' = Shape)
  BY SameCall DEF Keeps
<1>2. PictureInv'
  <2>1. PICK k \in Nat : cursor_x = k * CHAR_W
    BY DEF PaintInv, PictureInv
  <2>2. CHAR_W \in Nat
    BY Constant
  <2>3. 0 * CHAR_W = 0 /\ (k + 1) * CHAR_W = cursor_x + CHAR_W /\ k + 1 \in Nat /\ 0 \in Nat
    BY <2>1, <2>2
  <2>4. \E l \in Nat : cursor_x' = l * CHAR_W
    BY <2>1, <2>3
  <2> QED
    BY <2>4 DEF PaintInv, PictureInv, Keeps
<1>3. ShapeInv'
  BY <1>1 DEF ShapeInv, Shown, Keeps
<1>4. OtherInv'
  BY DEF PaintInv, OtherInv, Keeps, Labels
<1> QED
  BY <1>2, <1>3, <1>4 DEF PaintInv

\* The rest of a sequence, and the rest without its head.
LEMMA RestOfSeq ==
  ASSUME NEW s, IsSeq(s), NEW t, RestOf(s, t)
  PROVE  /\ Len(s) \in Nat /\ Len(t) \in Nat /\ Len(s) - Len(t) \in 0 .. Len(s)
         /\ t = <<>> => Len(s) - Len(t) = Len(s)
         /\ t # <<>> => /\ (Len(s) - Len(t)) + 1 \in 1 .. Len(s)
                        /\ Head(t) = s[(Len(s) - Len(t)) + 1]
                        /\ RestOf(s, Tail(t))
                        /\ Len(s) - Len(Tail(t)) = (Len(s) - Len(t)) + 1
<1>1. Len(s) \in Nat /\ Len(t) \in Nat /\ IsSeq(t) /\ Len(t) <= Len(s)
  BY SeqFacts DEF RestOf
<1>2. Len(s) - Len(t) \in 0 .. Len(s)
  BY <1>1
<1>3. ASSUME t = <<>> PROVE Len(s) - Len(t) = Len(s)
  <2>1. Len(t) = 0
    BY <1>3
  <2> QED
    BY <1>1, <2>1
<1>4. ASSUME t # <<>>
      PROVE  /\ (Len(s) - Len(t)) + 1 \in 1 .. Len(s)
             /\ Head(t) = s[(Len(s) - Len(t)) + 1]
             /\ RestOf(s, Tail(t))
             /\ Len(s) - Len(Tail(t)) = (Len(s) - Len(t)) + 1
  <2>1. PICK S : t \in Seq(S)
    BY <1>1 DEF IsSeq
  <2> DEFINE m == Len(t)
             n == Len(s)
             u == Tail(t)
  <2>2. /\ m \in Nat /\ m # 0 /\ m <= n /\ n \in Nat /\ Head(t) = t[1]
        /\ u \in Seq(S) /\ Len(u) = m - 1 /\ \A i \in 1 .. m - 1 : u[i] = t[i + 1]
    BY <1>1, <1>4, <2>1
  <2>3. \A i \in 1 .. m : t[i] = s[(n - m) + i]
    BY DEF RestOf
  <2> HIDE DEF m, n, u
  <2>4. ASSUME NEW i \in 1 .. Len(u) PROVE u[i] = s[(n - Len(u)) + i]
    <3>1. i \in 1 .. m - 1 /\ i + 1 \in 1 .. m
      BY <2>2
    <3>2. (n - m) + (i + 1) = (n - Len(u)) + i
      BY <2>2
    <3> QED
      BY <2>2, <2>3, <3>1, <3>2
  <2>5. RestOf(s, u)
    BY <2>2, <2>4 DEF RestOf, IsSeq, n
  <2>6. 1 \in 1 .. m /\ (n - m) + 1 \in 1 .. n /\ n - Len(u) = (n - m) + 1
    BY <2>2
  <2>7. Head(t) = s[(n - m) + 1]
    BY <2>2, <2>3, <2>6
  <2> QED
    BY <2>5, <2>6, <2>7 DEF m, n, u
<1> QED
  BY <1>1, <1>2, <1>3, <1>4

\* The same for the rest of a text.
LEMMA RestFacts ==
  ASSUME NEW s, s \in Strings, NEW t, RestOf(s, t)
  PROVE  /\ Len(s) \in Nat /\ Len(t) \in Nat /\ Len(s) - Len(t) \in 0 .. Len(s)
         /\ t = <<>> => Len(s) - Len(t) = Len(s)
         /\ t # <<>> => /\ (Len(s) - Len(t)) + 1 \in 1 .. Len(s)
                        /\ Head(t) = s[(Len(s) - Len(t)) + 1]
                        /\ RestOf(s, Tail(t))
                        /\ Len(s) - Len(Tail(t)) = (Len(s) - Len(t)) + 1
<1>1. IsSeq(s)
  BY DEF Strings, IsSeq
<1> QED
  BY <1>1, RestOfSeq, Zenon

\* One more character covers its own points and those of the ones before it.
LEMMA CoverNext ==
  ASSUME NEW s, NEW corners, NEW d \in Nat
  PROVE  /\ Cover(s, corners, d + 1)
              = Cover(s, corners, d) \cup CellPoints(s[d + 1], corners[d + 1])
         /\ s[d + 1] = Newline => Cover(s, corners, d + 1) = Cover(s, corners, d)
         /\ Cover(s, corners, 0) = {}
<1>1. 1 .. d + 1 = (1 .. d) \cup {d + 1} /\ 1 .. 0 = {}
  OBVIOUS
<1>2. Cover(s, corners, d + 1) = Cover(s, corners, d) \cup CellPoints(s[d + 1], corners[d + 1])
  BY <1>1 DEF Cover
<1>3. s[d + 1] = Newline => CellPoints(s[d + 1], corners[d + 1]) = {}
  BY DEF CellPoints
<1> QED
  BY <1>1, <1>2, <1>3 DEF Cover

\* Where the call's next character goes.
NextPlace(i) ==
  LET c == Corners[i]
  IN  IF job.s[i] = Newline \/ (c[1] + CHAR_W) + CHAR_W > W
      THEN IF job.kind = "print_at" THEN <<job.x, c[2] + CHAR_H>> ELSE <<0, Below(c[2])>>
      ELSE <<c[1] + CHAR_W, c[2]>>

\* The corners of a text, one after the other, for both of the calls that print.
LEMMA Places ==
  ASSUME Good(job), job.kind \in Strokes, job.kind = "puts" => AtStart
  PROVE  /\ job.s \in Strings
         /\ Corners[1] = IF job.kind = "print_at" THEN <<job.x, job.y>> ELSE home
         /\ \A i \in 1 .. Len(job.s) + 1 : Corners[i] \in Int \X Int
         /\ \A i \in 1 .. Len(job.s) : Corners[i + 1] = NextPlace(i)
<1>1. job.s \in Strings /\ Len(job.s) \in Nat
  BY DEF Strokes, Good, Typed, Strings
<1>2. \A i \in 1 .. Len(job.s) + 1 : Corners[i] = Corner(job, i)
  BY DEF Corners
<1>3. /\ 1 \in 1 .. Len(job.s) + 1
      /\ \A i \in 1 .. Len(job.s) : i \in 1 .. Len(job.s) + 1 /\ i + 1 \in 1 .. Len(job.s) + 1
  BY <1>1
<1>4. CASE job.kind = "print_at"
  <2>1. job.x \in Int /\ job.y \in Int
    BY <1>4 DEF Good, Typed
  <2>2. Corner(job, 1) = <<job.x, job.y>>
    BY <1>1, <1>4, <2>1, PrintAtPlaces
  <2>3. \A i \in 1 .. Len(job.s) + 1 : Corner(job, i) \in Int \X Int
    BY <1>1, <1>4, <2>1, PrintAtPlaces
  <2>4. \A i \in 1 .. Len(job.s) :
          LET c == Corner(job, i)
          IN  Corner(job, i + 1)
                = IF job.s[i] = Newline \/ (c[1] + CHAR_W) + CHAR_W > W
                  THEN <<job.x, c[2] + CHAR_H>> ELSE <<c[1] + CHAR_W, c[2]>>
    BY <1>1, <1>4, <2>1, PrintAtPlaces
  <2>5. ASSUME NEW i \in 1 .. Len(job.s) PROVE Corners[i + 1] = NextPlace(i)
    <3>1. Corners[i] = Corner(job, i) /\ Corners[i + 1] = Corner(job, i + 1)
      BY <1>2, <1>3
    <3> QED
      BY <1>4, <2>4, <3>1 DEF NextPlace
  <2> QED
    BY <1>1, <1>2, <1>3, <1>4, <2>2, <2>3, <2>5
<1>5. CASE job.kind = "puts"
  <2>1. PICK j \in Nat, l \in Nat : home = <<j * CHAR_W, l * CHAR_H>>
    BY <1>5 DEF AtStart
  <2>2. j * CHAR_W < W /\ l * CHAR_H < H
    BY <1>5, <2>1 DEF AtStart
  <2>3. Corner(job, 1) = home
    BY <1>1, <1>5, <2>1, <2>2, PutsPlaces
  <2>4. \A i \in 1 .. Len(job.s) + 1 : Corner(job, i) \in Int \X Int
    BY <1>1, <1>5, <2>1, <2>2, PutsPlaces
  <2>5. \A i \in 1 .. Len(job.s) :
          LET c == Corner(job, i)
          IN  Corner(job, i + 1)
                = IF job.s[i] = Newline \/ (c[1] + CHAR_W) + CHAR_W > W
                  THEN <<0, Below(c[2])>> ELSE <<c[1] + CHAR_W, c[2]>>
    BY <1>1, <1>5, <2>1, <2>2, PutsPlaces
  <2>6. ASSUME NEW i \in 1 .. Len(job.s) PROVE Corners[i + 1] = NextPlace(i)
    <3>1. Corners[i] = Corner(job, i) /\ Corners[i + 1] = Corner(job, i + 1)
      BY <1>2, <1>3
    <3> QED
      BY <1>5, <2>5, <3>1 DEF NextPlace
  <2> QED
    BY <1>1, <1>2, <1>3, <1>5, <2>3, <2>4, <2>6
<1> QED
  BY <1>4, <1>5 DEF Strokes

\* A text is being printed.
InStroke == job.kind \in Strokes /\ Meaning /\ pc \in Labels \ {"ready"}

\* While a text is printed, its rest begins with the next character of the string.
LEMMA StrokeFacts ==
  ASSUME IInv, PaintInv, InStroke
  PROVE  /\ job.s \in Strings /\ RestOf(job.s, text) /\ (job.kind = "puts" => AtStart)
         /\ Taken \in Nat /\ (text = <<>> => Taken = Len(job.s))
         /\ text # <<>> => Head(text) = job.s[Taken + 1]
<1>1. Good(job)
  BY DEF IInv, CallInv
<1>2. RestOf(job.s, text) /\ (job.kind = "puts" => AtStart)
  BY DEF PaintInv, StrokeInv, InStroke
<1>3. job.s \in Strings
  BY <1>1, <1>2, Places DEF InStroke
<1> DEFINE s == job.s
<1> HIDE DEF s
<1>4. s \in Strings /\ RestOf(s, text)
  BY <1>2, <1>3 DEF s
<1>5. /\ Len(s) - Len(text) \in 0 .. Len(s) /\ Len(s) \in Nat
      /\ text = <<>> => Len(s) - Len(text) = Len(s)
      /\ text # <<>> => Head(text) = s[(Len(s) - Len(text)) + 1]
  BY <1>4, RestFacts
<1> DEFINE d == Len(s) - Len(text)
<1>6. Taken = d /\ s = job.s
  BY DEF Taken, s
<1>7. d \in Nat /\ (text = <<>> => d = Len(s)) /\ (text # <<>> => Head(text) = s[d + 1])
  BY <1>5
<1> HIDE DEF d
<1> QED
  BY <1>2, <1>3, <1>6, <1>7

\* A character is taken from the string.
LEMMA TakesOne ==
  ASSUME IInv, PaintInv, InStroke, text # <<>>, text' = Tail(text),
         UNCHANGED <<job, home, current_fg, current_bg, torn>>
  PROVE  /\ (RestOf(job.s, text))' /\ Taken' = Taken + 1
         /\ (Upto(Taken))' = Upto(Taken + 1)
         /\ Place \in Int \X Int
         /\ Place' = IF Breaks
                     THEN IF job.kind = "print_at" THEN <<job.x, Place[2] + CHAR_H>>
                                                   ELSE <<0, Below(Place[2])>>
                     ELSE <<Place[1] + CHAR_W, Place[2]>>
<1>1. /\ job.s \in Strings /\ RestOf(job.s, text) /\ (job.kind = "puts" => AtStart)
      /\ Taken \in Nat /\ Head(text) = job.s[Taken + 1]
  BY StrokeFacts
<1>2. /\ Taken + 1 \in 1 .. Len(job.s) /\ RestOf(job.s, Tail(text))
      /\ Len(job.s) - Len(Tail(text)) = Taken + 1
  BY <1>1, RestFacts DEF Taken
<1>3. (RestOf(job.s, text))' /\ Taken' = Taken + 1
  BY <1>2 DEF RestOf, Taken
<1>4. Corners' = Corners
  BY SameCall
<1>5. (Upto(Taken))' = Upto(Taken + 1)
  BY <1>3, <1>4 DEF Upto
<1>6. /\ \A i \in 1 .. Len(job.s) + 1 : Corners[i] \in Int \X Int
      /\ \A i \in 1 .. Len(job.s) : Corners[i + 1] = NextPlace(i)
  BY <1>1, Places DEF IInv, CallInv, InStroke
<1>7. Place \in Int \X Int
  <2>1. Taken + 1 \in 1 .. Len(job.s) + 1
    BY <1>1, <1>2 DEF Strings
  <2> QED
    BY <1>6, <2>1 DEF Place
<1>8. Place' = NextPlace(Taken + 1)
  BY <1>2, <1>3, <1>4, <1>6 DEF Place
<1> QED
  BY <1>1, <1>3, <1>5, <1>7, <1>8 DEF NextPlace, Place, Breaks

\* The words of the shape or of the character are all stored.
LEMMA DrawnPaint == ASSUME IInv, PaintInv, Drawn PROVE PaintInv'
<1>1. /\ pc = "draw" /\ work = <<>> /\ pc' = AfterDraw(job)
      /\ UNCHANGED <<fb, cursor_x, cursor_y, current_fg, current_bg, text, pos_x, pos_y, job,
                     before, home, torn>>
  BY DEF Drawn, cursorVars, colorVars, textVars, callVars
<1>2. Keeps
  BY <1>1 DEF Keeps, Labels
<1>3. job.kind \in Shapes \cup Strokes
  BY <1>1 DEF PaintInv, KindInv
<1>4. job.kind \in Strokes => pc' = "advance"
  BY <1>1 DEF AfterDraw, Strokes
<1>5. job.kind \in Shapes =>
        /\ pc' \in {"home_x", "done"}
        /\ pc' = "home_x" => job.kind \in {"clear_color", "gfx_clear"}
  BY <1>1 DEF AfterDraw, Shapes
<1>6. KindInv'
  BY <1>1, <1>3, <1>4, <1>5 DEF KindInv, TextLabels
<1>7. job.kind \in Shapes /\ Meaning => Shown(Shape)
  BY <1>1 DEF PaintInv, ShapeInv, Halfway, Shown
<1>8. StrokeInv'
  <2> SUFFICES ASSUME job.kind \in Strokes, Meaning PROVE StrokeInv'
    BY <1>1, SameCall DEF StrokeInv
  <2>1. /\ RestOf(job.s, text) /\ (job.kind = "puts" => AtStart) /\ text # <<>>
        /\ Head(text) # Newline /\ Here = Place /\ Shown(Upto(Taken + 1))
    BY <1>1 DEF PaintInv, StrokeInv, Labels, Halfway, Shown
  <2>2. /\ Place' = Place /\ (Upto(Taken + 1))' = Upto(Taken + 1) /\ Ink' = Ink
    BY <1>1, SameCall, SameText
  <2>3. (Shown(Upto(Taken + 1)))' /\ Here' = Here /\ (AtStart' <=> AtStart)
    BY <1>1, <2>1, <2>2 DEF Shown, Here, AtStart
  <2> QED
    BY <1>1, <1>4, <2>1, <2>2, <2>3 DEF StrokeInv
<1> QED
  BY <1>1, <1>2, <1>5, <1>6, <1>7, <1>8, KeptPaint

\* The clear puts the cursor home after it has painted (bga.c:436-439).
LEMMA HomePaint == ASSUME IInv, PaintInv, HomeX \/ HomeY PROVE PaintInv'
<1>1. /\ pc \in {"home_x", "home_y"} /\ pc' \in {"home_y", "done"}
      /\ cursor_x' \in {cursor_x, 0}
      /\ UNCHANGED <<fb, current_fg, current_bg, text, pos_x, pos_y, job, before, home, torn>>
  BY DEF HomeX, HomeY, colorVars, textVars, callVars
<1>2. Keeps
  BY <1>1 DEF Keeps, Labels
<1>3. job.kind \in {"clear_color", "gfx_clear"}
  BY <1>1 DEF PaintInv, KindInv
<1>4. KindInv'
  BY <1>1, <1>3 DEF KindInv, TextLabels
<1>5. StrokeInv'
  BY <1>1, <1>3 DEF StrokeInv, Strokes
<1>6. job.kind \in Shapes /\ Meaning => Shown(Shape)
  BY <1>1 DEF PaintInv, ShapeInv
<1> QED
  BY <1>1, <1>2, <1>4, <1>5, <1>6, KeptPaint

\* The string has ended: all of its characters are painted.
LEMMA EndPaint == ASSUME IInv, PaintInv, EndOfText PROVE PaintInv'
<1>1. /\ pc = "char" /\ text = <<>> /\ pc' = "done"
      /\ UNCHANGED <<fb, cursor_x, cursor_y, current_fg, current_bg, text, pos_x, pos_y, job,
                     before, home, torn>>
  BY DEF EndOfText, cursorVars, colorVars, textVars, callVars
<1>2. Keeps
  BY <1>1 DEF Keeps, Labels
<1>3. job.kind \in Strokes
  BY <1>1 DEF PaintInv, KindInv
<1>4. KindInv'
  BY <1>1 DEF KindInv, TextLabels
<1>5. StrokeInv'
  <2> SUFFICES ASSUME Meaning PROVE StrokeInv'
    BY <1>1, SameCall DEF StrokeInv
  <2>1. /\ RestOf(job.s, text) /\ (job.kind = "puts" => AtStart) /\ Taken = Len(job.s)
        /\ Shown(Upto(Taken))
    BY <1>1, <1>3, StrokeFacts DEF InStroke, PaintInv, StrokeInv, Labels
  <2>2. Shown(Upto(Len(job.s)))
    BY <2>1
  <2>3. (Shown(Upto(Len(job.s))))' /\ (AtStart' <=> AtStart)
    BY <1>1, <2>2, SameCall, SameText DEF Shown, AtStart
  <2> QED
    BY <1>1, <2>1, <2>3 DEF StrokeInv
<1> QED
  BY <1>1, <1>2, <1>3, <1>4, <1>5, KeptPaint DEF Shapes, Strokes

\* The words of the next character are put in line where the loop has come to.
LEMMA CharPaint == ASSUME IInv, PaintInv, DrawChar PROVE PaintInv'
<1>1. /\ pc = "char" /\ text # <<>> /\ Head(text) # Newline /\ pc' = "draw"
      /\ work' = IF job.kind = "print_at"
                 THEN CharWrites(pos_x, pos_y, Head(text), "white")
                 ELSE CharWrites(cursor_x, cursor_y, Head(text), current_fg)
      /\ UNCHANGED <<fb, cursor_x, cursor_y, current_fg, current_bg, text, pos_x, pos_y, job,
                     before, home, torn>>
  BY DEF DrawChar, cursorVars, colorVars, textVars, callVars
<1>2. Keeps
  BY <1>1 DEF Keeps, Labels
<1>3. job.kind \in Strokes
  BY <1>1 DEF PaintInv, KindInv
<1>4. KindInv'
  BY <1>1, <1>3 DEF KindInv, TextLabels
<1>5. StrokeInv'
  <2> SUFFICES ASSUME Meaning PROVE StrokeInv'
    BY <1>1, SameCall DEF StrokeInv
  <2>1. InStroke
    BY <1>1, <1>3 DEF InStroke, Labels
  <2>2. /\ job.s \in Strings /\ RestOf(job.s, text) /\ (job.kind = "puts" => AtStart)
        /\ Taken \in Nat /\ Head(text) = job.s[Taken + 1]
    BY <1>1, <2>1, StrokeFacts
  <2>3. Here = Place /\ Shown(Upto(Taken))
    BY <1>1, <2>1 DEF PaintInv, StrokeInv, InStroke
  <2> DEFINE c == Head(text)
             P == CellPoints(c, Place)
             x == Here[1]
             y == Here[2]
             color == IF job.kind = "print_at" THEN "white" ELSE current_fg
  <2>4. x \in Int /\ y \in Int /\ Place = <<x, y>>
    <3>1. pos_x \in Int /\ pos_y \in Int /\ cursor_x \in Int /\ cursor_y \in Int
      BY GraphicsSizes DEF IInv, CallInv
    <3> QED
      BY <2>3, <3>1 DEF Here
  <2>5. c \in DOMAIN Glyph /\ c # Newline
    <3>1. Taken + 1 \in 1 .. Len(job.s)
      BY <1>1, <2>2, RestFacts DEF Taken
    <3>2. job.s[Taken + 1] \in DOMAIN Glyph \cup {Newline}
      BY <2>2, <3>1 DEF Strings
    <3> QED
      BY <1>1, <2>2, <3>2
  <2>6. work' = CharWrites(x, y, c, color)
    BY <1>1, <1>3 DEF Here, Strokes
  <2>7. \A k \in Words : Ink[k] = color
    BY <1>3 DEF Ink, ColorOf, Strokes
  <2>8. \A a \in 0 .. W - 1, b \in 0 .. H - 1 : <<a, b>> \in P <=> <<b - y, a - x>> \in Glyph[c]
    BY <2>4, <2>5 DEF CellPoints, Plane
  <2>9. Paints(work', P, Ink)
    <3> HIDE DEF c, P, x, y, color
    <3> QED
      BY <2>4, <2>5, <2>6, <2>7, <2>8, CharPaints
  <2>10. Upto(Taken + 1) = Upto(Taken) \cup P
    BY <2>2, CoverNext DEF Upto, Place
  <2>11. Partly(fb, before, Upto(Taken + 1), Ink, work')
    BY <2>3, <2>9, <2>10, StartsPainting DEF Shown
  <2>12. /\ Place' = Place /\ (Upto(Taken + 1))' = Upto(Taken + 1) /\ Ink' = Ink
         /\ Taken' = Taken
    BY <1>1, SameCall, SameText
  <2>13. (Halfway(Upto(Taken + 1)))' /\ Here' = Here /\ (AtStart' <=> AtStart)
    BY <1>1, <2>11, <2>12 DEF Halfway, Here, AtStart
  <2> QED
    BY <1>1, <2>2, <2>3, <2>12, <2>13 DEF StrokeInv
<1> QED
  BY <1>1, <1>2, <1>3, <1>4, <1>5, KeptPaint DEF Shapes, Strokes

\* bga_print_at takes a newline: the next character goes below the column of the text.
LEMMA PosNewlinePaint == ASSUME IInv, PaintInv, PosNewline PROVE PaintInv'
<1>1. /\ pc = "char" /\ text # <<>> /\ Head(text) = Newline /\ pc' = "char"
      /\ job.kind = "print_at" /\ text' = Tail(text) /\ pos_x' = job.x /\ pos_y' = pos_y + CHAR_H
      /\ UNCHANGED <<fb, cursor_x, cursor_y, current_fg, current_bg, job, before, home, torn>>
  BY DEF PosNewline, NextLineAt, cursorVars, colorVars, callVars
<1>2. Keeps
  BY <1>1 DEF Keeps, Labels
<1>3. KindInv'
  BY <1>1 DEF KindInv, Strokes, TextLabels
<1>4. StrokeInv'
  <2> SUFFICES ASSUME Meaning PROVE StrokeInv'
    BY <1>1, SameCall DEF StrokeInv
  <2>1. InStroke
    BY <1>1 DEF InStroke, Labels, Strokes
  <2>2. Taken \in Nat /\ job.s[Taken + 1] = Newline
    BY <1>1, <2>1, StrokeFacts
  <2>3. Here = Place /\ Shown(Upto(Taken))
    BY <1>1, <2>1 DEF PaintInv, StrokeInv, InStroke
  <2>4. /\ (RestOf(job.s, text))' /\ (Upto(Taken))' = Upto(Taken + 1)
        /\ Place' = <<job.x, Place[2] + CHAR_H>>
    BY <1>1, <2>1, TakesOne DEF Breaks
  <2>5. Upto(Taken + 1) = Upto(Taken)
    BY <2>2, CoverNext DEF Upto
  <2>6. (Shown(Upto(Taken)))'
    BY <1>1, <2>3, <2>4, <2>5, SameCall DEF Shown
  <2>7. Here' = Place'
    BY <1>1, <2>3, <2>4 DEF Here
  <2> QED
    BY <1>1, <2>4, <2>6, <2>7 DEF StrokeInv
<1> QED
  BY <1>1, <1>2, <1>3, <1>4, KeptPaint DEF Shapes

\* bga_print_at goes on after a character, to the next line where the next one would not
\* fit.
LEMMA PosAdvancePaint == ASSUME IInv, PaintInv, PosAdvance PROVE PaintInv'
<1>1. /\ pc = "advance" /\ pc' = "char" /\ job.kind = "print_at" /\ text' = Tail(text)
      /\ PosAfterChar
      /\ UNCHANGED <<fb, cursor_x, cursor_y, current_fg, current_bg, job, before, home, torn>>
  BY DEF PosAdvance, cursorVars, colorVars, callVars
<1>2. Keeps
  BY <1>1 DEF Keeps, Labels
<1>3. KindInv'
  BY <1>1 DEF KindInv, Strokes, TextLabels
<1>4. StrokeInv'
  <2> SUFFICES ASSUME Meaning PROVE StrokeInv'
    BY <1>1, SameCall DEF StrokeInv
  <2>1. InStroke
    BY <1>1 DEF InStroke, Labels, Strokes
  <2>2. /\ Here = Place /\ Shown(Upto(Taken + 1)) /\ text # <<>> /\ Head(text) # Newline
    BY <1>1, <2>1 DEF PaintInv, StrokeInv, InStroke
  <2>3. /\ (RestOf(job.s, text))' /\ (Upto(Taken))' = Upto(Taken + 1)
        /\ Place' = IF Breaks THEN <<job.x, Place[2] + CHAR_H>> ELSE <<Place[1] + CHAR_W, Place[2]>>
    BY <1>1, <2>1, <2>2, TakesOne
  <2>4. (Shown(Upto(Taken)))'
    BY <1>1, <2>2, <2>3, SameCall DEF Shown
  <2>5. Place = <<pos_x, pos_y>> /\ (Breaks <=> (pos_x + CHAR_W) + CHAR_W > W)
    BY <1>1, <2>2 DEF Here, Breaks
  <2>6. Here' = Place'
    BY <1>1, <2>3, <2>5 DEF Here, PosAfterChar, NextLineAt
  <2> QED
    BY <1>1, <2>3, <2>4, <2>6 DEF StrokeInv
<1> QED
  BY <1>1, <1>2, <1>3, <1>4, KeptPaint DEF Shapes

\* bga_print takes a newline.
LEMMA CursorNewlinePaint == ASSUME IInv, PaintInv, CursorNewline PROVE PaintInv'
<1>1. /\ pc = "char" /\ text # <<>> /\ Head(text) = Newline /\ pc' = "line"
      /\ job.kind = "puts" /\ cursor_x' = 0
      /\ UNCHANGED <<fb, cursor_y, current_fg, current_bg, text, job, before, home, torn>>
  BY DEF CursorNewline, colorVars, textVars, callVars
<1>2. Keeps
  BY <1>1 DEF Keeps, Labels
<1>3. KindInv'
  BY <1>1 DEF KindInv, TextLabels
<1>4. StrokeInv'
  <2> SUFFICES ASSUME Meaning PROVE StrokeInv'
    BY <1>1, SameCall DEF StrokeInv
  <2>1. InStroke
    BY <1>1 DEF InStroke, Labels, Strokes
  <2>2. /\ RestOf(job.s, text) /\ AtStart /\ Taken \in Nat /\ job.s[Taken + 1] = Newline
    BY <1>1, <2>1, StrokeFacts
  <2>3. Here = Place /\ Shown(Upto(Taken))
    BY <1>1, <2>1 DEF PaintInv, StrokeInv, InStroke
  <2>4. Upto(Taken + 1) = Upto(Taken)
    <3>1. Taken \in Nat
      BY <2>2
    <3>2. job.s[Taken + 1] = Newline =>
            Cover(job.s, Corners, Taken + 1) = Cover(job.s, Corners, Taken)
      BY <3>1, CoverNext
    <3> QED
      BY <2>2, <3>2, Zenon DEF Upto
  <2>5. /\ Place' = Place /\ Breaks' = Breaks /\ (Upto(Taken + 1))' = Upto(Taken + 1)
        /\ Ink' = Ink
    BY <1>1, SameCall, SameText
  <2>6. (Shown(Upto(Taken + 1)))' /\ (AtStart' <=> AtStart)
    BY <1>1, <2>3, <2>4, <2>5 DEF Shown, AtStart
  <2>7. Breaks /\ cursor_y = Place[2]
    BY <1>1, <2>3 DEF Breaks, Here
  <2> QED
    BY <1>1, <2>2, <2>5, <2>6, <2>7 DEF StrokeInv
<1> QED
  BY <1>1, <1>2, <1>3, <1>4, KeptPaint DEF Shapes

\* bga_print moves its cursor past the character it has painted.
LEMMA CursorAdvancePaint == ASSUME IInv, PaintInv, CursorAdvance PROVE PaintInv'
<1>1. /\ pc = "advance" /\ pc' = "wrap" /\ job.kind = "puts" /\ cursor_x' = cursor_x + CHAR_W
      /\ UNCHANGED <<fb, cursor_y, current_fg, current_bg, text, job, before, home, torn>>
  BY DEF CursorAdvance, colorVars, textVars, callVars
<1>2. Keeps
  BY <1>1 DEF Keeps, Labels
<1>3. KindInv'
  BY <1>1 DEF KindInv, TextLabels
<1>4. StrokeInv'
  <2> SUFFICES ASSUME Meaning PROVE StrokeInv'
    BY <1>1, SameCall DEF StrokeInv
  <2>1. InStroke
    BY <1>1 DEF InStroke, Labels, Strokes
  <2>2. /\ RestOf(job.s, text) /\ AtStart /\ text # <<>> /\ Head(text) # Newline
        /\ Here = Place /\ Shown(Upto(Taken + 1))
    BY <1>1, <2>1 DEF PaintInv, StrokeInv, InStroke
  <2>3. /\ Place' = Place /\ (Upto(Taken + 1))' = Upto(Taken + 1) /\ Ink' = Ink
    BY <1>1, SameCall, SameText
  <2>4. (Shown(Upto(Taken + 1)))' /\ (AtStart' <=> AtStart)
    BY <1>1, <2>2, <2>3 DEF Shown, AtStart
  <2>5. cursor_x = Place[1] /\ cursor_y = Place[2]
    BY <1>1, <2>2 DEF Here
  <2> QED
    BY <1>1, <2>2, <2>3, <2>4, <2>5 DEF StrokeInv
<1> QED
  BY <1>1, <1>2, <1>3, <1>4, KeptPaint DEF Shapes

\* bga_print sees whether one more character fits into the line.
LEMMA CursorWrapPaint == ASSUME IInv, PaintInv, CursorWrap PROVE PaintInv'
<1>1. /\ pc = "wrap"
      /\ IF PastEdge(cursor_x)
         THEN cursor_x' = 0 /\ pc' = "line" /\ UNCHANGED text
         ELSE pc' = "char" /\ text' = Tail(text) /\ UNCHANGED cursor_x
      /\ UNCHANGED <<fb, cursor_y, current_fg, current_bg, pos_x, pos_y, job, before, home, torn>>
  BY DEF CursorWrap, colorVars, callVars
<1>2. Keeps
  BY <1>1 DEF Keeps, Labels
<1>3. job.kind = "puts"
  BY <1>1 DEF PaintInv, KindInv
<1>4. KindInv'
  BY <1>1, <1>3 DEF KindInv, TextLabels, Strokes
<1>5. StrokeInv'
  <2> SUFFICES ASSUME Meaning PROVE StrokeInv'
    BY <1>1, SameCall DEF StrokeInv
  <2>1. InStroke
    BY <1>1, <1>3 DEF InStroke, Labels, Strokes
  <2>2. /\ RestOf(job.s, text) /\ AtStart /\ text # <<>> /\ Head(text) # Newline
        /\ cursor_x = Place[1] + CHAR_W /\ cursor_y = Place[2] /\ Shown(Upto(Taken + 1))
    BY <1>1, <1>3, <2>1 DEF PaintInv, StrokeInv, InStroke
  <2>3. Breaks <=> PastEdge(cursor_x)
    BY <2>2 DEF Breaks, PastEdge
  <2>4. Ink' = Ink /\ (AtStart' <=> AtStart)
    BY <1>1, SameCall DEF AtStart
  <2>5. CASE PastEdge(cursor_x)
    <3>1. /\ Place' = Place /\ Breaks' = Breaks /\ (Upto(Taken + 1))' = Upto(Taken + 1)
      BY <1>1, <2>5, SameText
    <3>2. (Shown(Upto(Taken + 1)))'
      BY <1>1, <2>2, <2>4, <3>1 DEF Shown
    <3> QED
      BY <1>1, <2>2, <2>3, <2>4, <2>5, <3>1, <3>2 DEF StrokeInv
  <2>6. CASE ~PastEdge(cursor_x)
    <3>1. /\ (RestOf(job.s, text))' /\ (Upto(Taken))' = Upto(Taken + 1)
          /\ Place' = <<Place[1] + CHAR_W, Place[2]>>
      BY <1>1, <2>1, <2>2, <2>3, <2>6, TakesOne
    <3>2. (Shown(Upto(Taken)))'
      BY <1>1, <2>2, <2>4, <3>1 DEF Shown
    <3>3. Here' = Place'
      BY <1>1, <1>3, <2>2, <2>6, <3>1 DEF Here
    <3> QED
      BY <1>1, <2>2, <2>4, <2>6, <3>1, <3>2, <3>3 DEF StrokeInv
  <2> QED
    BY <2>5, <2>6
<1> QED
  BY <1>1, <1>2, <1>3, <1>4, <1>5, KeptPaint DEF Shapes

\* bga_print moves its cursor one line down.
LEMMA CursorLinePaint == ASSUME IInv, PaintInv, CursorLine PROVE PaintInv'
<1>1. /\ pc = "line" /\ pc' = "top" /\ cursor_y' = cursor_y + CHAR_H
      /\ UNCHANGED <<fb, cursor_x, current_fg, current_bg, text, job, before, home, torn>>
  BY DEF CursorLine, colorVars, textVars, callVars
<1>2. Keeps
  BY <1>1 DEF Keeps, Labels
<1>3. job.kind = "puts"
  BY <1>1 DEF PaintInv, KindInv
<1>4. KindInv'
  BY <1>1, <1>3 DEF KindInv, TextLabels
<1>5. StrokeInv'
  <2> SUFFICES ASSUME Meaning PROVE StrokeInv'
    BY <1>1, SameCall DEF StrokeInv
  <2>1. InStroke
    BY <1>1, <1>3 DEF InStroke, Labels, Strokes
  <2>2. /\ RestOf(job.s, text) /\ AtStart /\ text # <<>> /\ Breaks
        /\ cursor_x = 0 /\ cursor_y = Place[2] /\ Shown(Upto(Taken + 1))
    BY <1>1, <1>3, <2>1 DEF PaintInv, StrokeInv, InStroke
  <2>3. /\ Place' = Place /\ Breaks' = Breaks /\ (Upto(Taken + 1))' = Upto(Taken + 1)
        /\ Ink' = Ink
    BY <1>1, SameCall, SameText
  <2>4. (Shown(Upto(Taken + 1)))' /\ (AtStart' <=> AtStart)
    BY <1>1, <2>2, <2>3 DEF Shown, AtStart
  <2> QED
    BY <1>1, <2>2, <2>3, <2>4 DEF StrokeInv
<1> QED
  BY <1>1, <1>2, <1>3, <1>4, <1>5, KeptPaint DEF Shapes

\* bga_print goes on at the top where that line is below the screen.
LEMMA CursorTopPaint == ASSUME IInv, PaintInv, CursorTop PROVE PaintInv'
<1>1. /\ pc = "top" /\ pc' = "char" /\ cursor_y' = TopOrHere /\ text' = Tail(text)
      /\ UNCHANGED <<fb, cursor_x, current_fg, current_bg, pos_x, pos_y, job, before, home, torn>>
  BY DEF CursorTop, colorVars, callVars
<1>2. Keeps
  BY <1>1 DEF Keeps, Labels
<1>3. job.kind = "puts"
  BY <1>1 DEF PaintInv, KindInv
<1>4. KindInv'
  BY <1>1, <1>3 DEF KindInv, TextLabels, Strokes
<1>5. StrokeInv'
  <2> SUFFICES ASSUME Meaning PROVE StrokeInv'
    BY <1>1, SameCall DEF StrokeInv
  <2>1. InStroke
    BY <1>1, <1>3 DEF InStroke, Labels, Strokes
  <2>2. /\ AtStart /\ text # <<>> /\ Breaks
        /\ cursor_x = 0 /\ cursor_y = Place[2] + CHAR_H /\ Shown(Upto(Taken + 1))
    BY <1>1, <1>3, <2>1 DEF PaintInv, StrokeInv, InStroke
  <2>3. /\ (RestOf(job.s, text))' /\ (Upto(Taken))' = Upto(Taken + 1)
        /\ Place' = <<0, Below(Place[2])>>
    BY <1>1, <1>3, <2>1, <2>2, TakesOne
  <2>4. (Shown(Upto(Taken)))' /\ (AtStart' <=> AtStart)
    BY <1>1, <2>2, <2>3, SameCall DEF Shown, AtStart
  <2>5. Here' = Place'
    BY <1>1, <1>3, <2>2, <2>3 DEF Here, TopOrHere, Below
  <2> QED
    BY <1>1, <2>2, <2>3, <2>4, <2>5 DEF StrokeInv
<1> QED
  BY <1>1, <1>2, <1>3, <1>4, <1>5, KeptPaint DEF Shapes

\* Between two calls, and where the machine stops, nothing is being painted.
LEMMA IdlePaint ==
  ASSUME PaintInv, UNCHANGED <<fb, cursor_x, before>>, pc' \in {"ready", "stopped"}
  PROVE  PaintInv'
BY DEF PaintInv, PictureInv, KindInv, ShapeInv, StrokeInv, OtherInv, Labels, TextLabels

\* The steps between calls, and the faults.
LEMMA OtherPaint ==
  ASSUME PaintInv, Return \/ Request \/ Fault \/ GoAstray \/ Halt \/ TextTick
  PROVE  PaintInv'
<1>1. UNCHANGED <<fb, cursor_x, before>> /\ pc' \in {"ready", "stopped"}
  BY DEF Return, Request, Fault, GoAstray, Halt, TextTick, TickStarts, graphicsVars,
         cursorVars, callVars
<1> QED
  BY <1>1, IdlePaint

\* The calls of the text screen paint nothing on the other one (vga.c:5-167).
LEMMA TextStepPaint == ASSUME IInv, PaintInv, TextStep PROVE PaintInv'
<1>1. /\ UNCHANGED <<fb, cursor_x>> /\ before' \in {before, fb}
      /\ job'.kind \in TextKinds /\ pc' \in TextLabels \cup {"done"}
      /\ fb' = before'
  <2>1. CASE StartText
    <3>1. UNCHANGED <<fb, cursor_x>> /\ before' = fb
      BY <2>1 DEF StartText, graphicsVars, cursorVars
    <3>2. job'.kind \in TextKinds /\ pc' \in TextLabels \cup {"done"}
      BY <2>1 DEF StartText, TextKinds, TextLabels
    <3> QED
      BY <3>1, <3>2
  <2>2. CASE ~StartText
    <3>1. /\ UNCHANGED <<fb, cursor_x, before, job>> /\ pc \in TextLabels \ {"stopped"}
          /\ pc' \in TextLabels \cup {"done"}
      BY <2>2 DEF TextStep, WriteCell, TextDrawn, ToX, ToY, EndOfPrint, BreakLine, NextLine,
                  LimitLine, FitsHere, PutHere, StepRight, PutThere, StepThere, EndThere,
                  BackX, BackY, Step, Same, graphicsVars, cursorVars, callVars, TextLabels
    <3>2. job.kind \in TextKinds
      BY <3>1 DEF PaintInv, KindInv
    <3>3. fb = before
      BY <3>1, <3>2 DEF PaintInv, OtherInv, TextKinds, TextLabels, Shapes, Strokes
    <3> QED
      BY <3>1, <3>2, <3>3
  <2> QED
    BY <2>1, <2>2
<1>2. PictureInv'
  BY <1>1 DEF PaintInv, PictureInv
<1>3. job'.kind \notin Shapes \cup Strokes
  BY <1>1 DEF TextKinds, Shapes, Strokes
<1> QED
  BY <1>1, <1>2, <1>3 DEF PaintInv, KindInv, ShapeInv, StrokeInv, OtherInv, TextLabels

\* Where a text's first character goes.
FirstPlace ==
  Good(job) /\ job.kind \in Strokes /\ (job.kind = "puts" => AtStart)
    => /\ job.s \in Strings
       /\ Corners[1] = IF job.kind = "print_at" THEN <<job.x, job.y>> ELSE home

\* The first character goes where the text begins.
LEMMA FirstPlaceHere == FirstPlace
BY Places DEF FirstPlace

\* And so in the state in which the call begins.
LEMMA FirstPlaceNext == FirstPlace'
BY FirstPlaceHere, PTL

\* A call begins: nothing of it is painted, and all its words, or its text, are ahead.
LEMMA StartPaint == ASSUME IInv, PaintInv, StartCall PROVE PaintInv'
<1>1. /\ pc = "ready" /\ script # <<>> /\ before' = fb /\ home' = <<cursor_x, cursor_y>>
      /\ UNCHANGED <<fb, cursor_x, cursor_y, torn>>
  BY DEF StartCall, cursorVars
<1>2. PICK call \in Served(Head(script)) :
        /\ job' = call
        /\ \/ /\ call.kind \in Strokes /\ text' = call.s /\ pc' = "char"
              /\ pos_x' = IF call.kind = "print_at" THEN call.x ELSE 0
              /\ pos_y' = IF call.kind = "print_at" THEN call.y ELSE 0
           \/ /\ call.kind \in Shapes /\ work' = WordsOf(call) /\ pc' = "draw"
              /\ UNCHANGED <<current_fg, current_bg>>
           \/ call.kind \in {"set_color", "create"} /\ pc' = "done"
  BY DEF StartCall, Strokes, Shapes, colorVars
<1>3. Good(call) /\ (call.kind = "rect" => call.h \in Int)
  BY <1>1, ScriptSteps, ServedGood DEF IInv, CallInv
<1>4. PictureInv'
  BY <1>1 DEF PaintInv, PictureInv
<1>5. CASE call.kind \in Strokes
  <2>1. /\ text' = call.s /\ pc' = "char" /\ job'.kind \in Strokes
        /\ pos_x' = (IF call.kind = "print_at" THEN call.x ELSE 0)
        /\ pos_y' = (IF call.kind = "print_at" THEN call.y ELSE 0)
    BY <1>2, <1>5 DEF Strokes, Shapes
  <2>2. KindInv' /\ ShapeInv' /\ OtherInv'
    BY <2>1 DEF KindInv, ShapeInv, OtherInv, Strokes, Shapes, TextLabels
  <2>3. StrokeInv'
    <3> SUFFICES ASSUME Meaning' PROVE StrokeInv'
      BY DEF StrokeInv
    <3>1. call.kind = "puts" => AtStart'
      <4> SUFFICES ASSUME call.kind = "puts" PROVE AtStart'
        OBVIOUS
      <4>1. torn = 0
        BY <1>1, <1>2 DEF Meaning, Meant
      <4>2. 0 * CHAR_W = 0 /\ 0 * CHAR_H = 0 /\ CHAR_W \in Nat \ {0} /\ CHAR_H \in Nat \ {0}
            /\ W \in Nat /\ H \in Nat
        BY Constant
      <4>3. cursor_x \in Int /\ cursor_y \in Int
        BY GraphicsSizes DEF IInv
      <4>4. cursor_x <= W - CHAR_W /\ cursor_y <= H - CHAR_H
        BY <1>1, <4>1, <4>2, <4>3 DEF IInv, GraphicsInv
      <4>5. cursor_x < W /\ cursor_y < H
        BY <4>2, <4>3, <4>4
      <4>6. PICK j \in Nat : cursor_x = j * CHAR_W
        BY DEF PaintInv, PictureInv
      <4>7. PICK l \in Nat : cursor_y = l * CHAR_H
        BY DEF IInv, GraphicsInv
      <4>8. home' \in {<<i * CHAR_W, k * CHAR_H>> : i, k \in Nat}
        BY <1>1, <4>6, <4>7
      <4> QED
        BY <1>1, <4>5, <4>8 DEF AtStart
    <3>2. (Good(job))'
      BY <1>2, <1>3 DEF Good, Typed, TextTyped, OnText, ShapesOnText
    <3>3. /\ job'.s \in Strings
          /\ Corners'[1] = IF job'.kind = "print_at" THEN <<job'.x, job'.y>> ELSE home'
      BY <1>2, <1>5, <3>1, <3>2, FirstPlaceNext DEF FirstPlace
    <3>4. Len(job'.s) \in Nat /\ IsSeq(job'.s)
      BY <3>3 DEF Strings, IsSeq
    <3>5. Taken' = 0 /\ (RestOf(job.s, text))'
      BY <1>2, <2>1, <3>4 DEF Taken, RestOf
    <3>6. Place' = Corners'[1]
      BY <3>5 DEF Place
    <3>7. Here' = Place'
      BY <1>1, <1>2, <1>5, <2>1, <3>3, <3>6 DEF Here
    <3>8. (Upto(Taken))' = {}
      BY <3>5, CoverNext DEF Upto
    <3>9. (Shown(Upto(Taken)))'
      BY <1>1, <3>8, NothingPainted DEF Shown
    <3> QED
      BY <1>2, <2>1, <3>1, <3>5, <3>7, <3>9 DEF StrokeInv
  <2> QED
    BY <1>4, <2>2, <2>3 DEF PaintInv
<1>6. CASE call.kind \in Shapes
  <2>1. work' = WordsOf(call) /\ pc' = "draw" /\ UNCHANGED <<current_fg, current_bg>>
        /\ job'.kind \in Shapes
    BY <1>2, <1>6 DEF Strokes, Shapes
  <2>2. KindInv' /\ StrokeInv' /\ OtherInv'
    BY <2>1 DEF KindInv, StrokeInv, OtherInv, Strokes, Shapes, TextLabels
  <2>3. ShapeInv'
    <3> SUFFICES ASSUME Meaning' PROVE (Halfway(Shape))'
      BY <2>1 DEF ShapeInv
    <3>1. Meant(call)
      BY <1>1, <1>2 DEF Meaning, Meant
    <3>2. Shape' = ShapeOf(call)
      BY <1>2, <1>6 DEF Shape, ShapeOf, Shapes, BmpPoints, IsDrawnBmp
    <3>3. \A k \in Words : Ink'[k] = ColorOf(call, Point(k))
      BY <1>2, <2>1 DEF Ink, ColorOf
    <3>4. Paints(work', Shape', Ink')
      <4> DEFINE col == Ink'
      <4>1. \A k \in Words : col[k] = ColorOf(call, Point(k))
        BY <3>3
      <4>2. Typed(call)
        BY <1>3 DEF Good
      <4> HIDE DEF col
      <4>3. Paints(WordsOf(call), ShapeOf(call), col)
        BY <1>3, <1>6, <3>1, <4>1, <4>2, ShapePaints
      <4> QED
        BY <2>1, <3>2, <4>3 DEF col
    <3>5. Partly(fb', before', {}, Ink', <<>>)
      BY <1>1, NothingPainted
    <3>6. Partly(fb', before', {} \cup Shape', Ink', work')
      BY <3>4, <3>5, StartsPainting
    <3>7. {} \cup Shape' = Shape'
      OBVIOUS
    <3> QED
      BY <3>6, <3>7 DEF Halfway
  <2> QED
    BY <1>4, <2>2, <2>3 DEF PaintInv
<1>7. CASE call.kind \notin Shapes \cup Strokes
  <2>1. pc' = "done" /\ job' = call /\ fb' = before'
    BY <1>1, <1>2, <1>7
  <2> QED
    BY <1>4, <1>7, <2>1 DEF PaintInv, KindInv, ShapeInv, StrokeInv, OtherInv, TextLabels
<1> QED
  BY <1>5, <1>6, <1>7

\* Every step keeps the invariant.
LEMMA NextPaint == IInv /\ PaintInv /\ [TextNext]_textScreenVars => PaintInv'
<1>1. ASSUME IInv, PaintInv, TextNext PROVE PaintInv'
  BY <1>1, StartPaint, PixelPaint, DrawnPaint, HomePaint, EndPaint, CharPaint, PosNewlinePaint,
     PosAdvancePaint, CursorNewlinePaint, CursorAdvancePaint, CursorWrapPaint, CursorLinePaint,
     CursorTopPaint, OtherPaint, TextStepPaint, Zenon DEF TextNext, CallStep
<1>2. ASSUME PaintInv, UNCHANGED textScreenVars PROVE PaintInv'
  <2>1. /\ UNCHANGED <<fb, before, cursor_x, cursor_y, current_fg, current_bg, pc, job, work,
                       text, pos_x, pos_y, home, torn>>
    BY <1>2 DEF textScreenVars, vars, cursorVars, colorVars, textVars, callVars
  <2>2. /\ Ink' = Ink /\ Meaning' = Meaning /\ (job.kind \in Shapes => Shape' = Shape)
        /\ Taken' = Taken /\ Place' = Place /\ Breaks' = Breaks
        /\ (Upto(Taken))' = Upto(Taken) /\ (Upto(Taken + 1))' = Upto(Taken + 1)
        /\ (Upto(Len(job.s)))' = Upto(Len(job.s))
    BY <2>1, SameCall, SameText
  <2>3. PictureInv' /\ KindInv' /\ OtherInv'
    BY <1>2, <2>1 DEF PaintInv, PictureInv, KindInv, OtherInv
  <2>4. ShapeInv'
    BY <1>2, <2>1, <2>2 DEF PaintInv, ShapeInv, Halfway, Shown
  <2>5. /\ (Shown(Upto(Taken)))' <=> Shown(Upto(Taken))
        /\ (Shown(Upto(Taken + 1)))' <=> Shown(Upto(Taken + 1))
        /\ (Halfway(Upto(Taken + 1)))' <=> Halfway(Upto(Taken + 1))
        /\ (Shown(Upto(Len(job.s))))' <=> Shown(Upto(Len(job.s)))
        /\ Here' = Here /\ (AtStart' <=> AtStart)
    BY <2>1, <2>2 DEF Shown, Halfway, Here, AtStart
  <2>6. StrokeInv'
    BY <1>2, <2>1, <2>2, <2>5 DEF PaintInv, StrokeInv
  <2> QED
    BY <2>3, <2>4, <2>6 DEF PaintInv
<1> QED
  BY <1>1, <1>2

\* The invariant holds in every state.
LEMMA PaintKnown == TextSpec => []PaintInv
<1> QED
  BY InitPaint, NextPaint, ScreensKnown, PTL DEF TextSpec

\* A text of bga_print_at or bga_print covers the points that its lines and columns say.
LEMMA WholeText ==
  ASSUME job.kind \in Strokes, job.s \in Strings
  PROVE  ShapeOf(job) = Upto(Len(job.s))
<1>1. DOMAIN job.s = 1 .. Len(job.s) /\ Len(job.s) \in Nat
  BY DEF Strings
<1>2. ASSUME NEW i \in 1 .. Len(job.s) PROVE CharPoints(job, i) = CellPoints(job.s[i], Corners[i])
  <2>1. Corners[i] = Corner(job, i)
    BY <1>1 DEF Corners
  <2> QED
    BY <2>1 DEF CharPoints, CellPoints
<1>3. ShapeOf(job) = TextPoints(job)
  BY DEF ShapeOf, Strokes
<1> QED
  BY <1>1, <1>2, <1>3 DEF TextPoints, Upto, Cover

\* A call that is done has painted its shape.
LEMMA PaintedHere == IInv /\ PaintInv => Painted
<1> SUFFICES ASSUME IInv, PaintInv, pc = "done", Meant(job)
             PROVE  fb = Over(before, job)
  BY DEF Painted
<1>1. DOMAIN fb = Words /\ DOMAIN before = Words /\ fb = [k \in Words |-> fb[k]]
      /\ before = [k \in Words |-> before[k]]
  BY DEF IInv, GraphicsInv, PaintInv, PictureInv
<1>2. CASE job.kind \in Shapes \cup Strokes
  <2>1. Shown(ShapeOf(job))
    <3>1. CASE job.kind \in Shapes
      BY <3>1 DEF PaintInv, ShapeInv, Meaning, Shape
    <3>2. CASE job.kind \in Strokes
      <4>1. Shown(Upto(Len(job.s)))
        BY <3>2 DEF PaintInv, StrokeInv, Meaning, Labels
      <4>2. job.s \in Strings
        BY <3>2, StrokeFacts DEF InStroke, Meaning, Labels
      <4> QED
        BY <3>2, <4>1, <4>2, WholeText
    <3> QED
      BY <1>2, <3>1, <3>2
  <2>2. \A k \in Words : fb[k] = IF Point(k) \in ShapeOf(job) THEN Ink[k] ELSE before[k]
    BY <2>1, AllPainted DEF Shown
  <2>3. \A k \in Words : Ink[k] = ColorOf(job, Point(k))
    BY DEF Ink
  <2> QED
    BY <1>1, <2>2, <2>3 DEF Over
<1>3. CASE job.kind \notin Shapes \cup Strokes
  <2>1. fb = before
    BY <1>3 DEF PaintInv, OtherInv
  <2>2. ShapeOf(job) = {}
    BY <1>3 DEF ShapeOf, Shapes, Strokes
  <2> QED
    BY <1>1, <2>1, <2>2 DEF Over
<1> QED
  BY <1>2, <1>3

\* Every call leaves on the screen the shape it was asked for over what was there, and
\* changes no other word: for any rectangle, image and text, whatever the calls before
\* it have drawn, and wherever they were cut short (bga.c:333-557).
THEOREM AlwaysPainted == TextSpec => []Painted
<1> QED
  BY PaintedHere, PaintKnown, ScreensKnown, PTL

-----------------------------------------------------------------------------
(***************************************************************************)
(* The desktop: orbit's calls, one over the other.                         *)
(***************************************************************************)
\* The calls that orbit makes.
OrbitCalls ==
  {Say(<<"o", Newline>>), Say(<<"m">>), Say(<<"i">>), Say(<<Newline>>), Say(<<"s", Newline>>),
   Say(<<"c", Newline>>), ClearColor("desk")}
  \cup {FillRect(x, y, w, h, c) : x, y \in Int, w, h \in 0 .. HALF - 1,
                                  c \in {"shadow", "base", "bright", "mid"}}
  \cup {PrintAt(x, y, s) : x, y \in Int, s \in Strings}
  \cup {DrawBmp(x, y, Icon) : x, y \in Int}

\* Such a call paints the same wherever the cursor is and whatever the colours are.
Plain(call) ==
  /\ call.kind \in {"vga_print", "clear_color", "fill", "print_at", "bmp"}
  /\ call.kind = "fill" => {call.w, call.h} \subseteq 0 .. HALF - 1

\* The calls orbit makes are served as they are and mean a shape.
LEMMA OrbitCallsPlain == \A call \in OrbitCalls : Good(call) /\ Plain(call)
<1>1. \A s : Plain(Say(s))
  BY DEF Say, Plain
<1>2. Good(ClearColor("desk")) /\ Plain(ClearColor("desk"))
  BY GraphicsGood DEF ClearColor, Plain
<1>3. ASSUME NEW x \in Int, NEW y \in Int, NEW w \in 0 .. HALF - 1, NEW h \in 0 .. HALF - 1, NEW c
      PROVE  Good(FillRect(x, y, w, h, c)) /\ Plain(FillRect(x, y, w, h, c))
  BY GraphicsGood DEF FillRect, Plain
<1>4. ASSUME NEW x \in Int, NEW y \in Int, NEW s \in Strings
      PROVE  Good(PrintAt(x, y, s)) /\ Plain(PrintAt(x, y, s))
  BY GraphicsGood DEF PrintAt, Plain
<1>5. ASSUME NEW x \in Int, NEW y \in Int
      PROVE  Good(DrawBmp(x, y, Icon)) /\ Plain(DrawBmp(x, y, Icon))
  BY GraphicsGood DEF DrawBmp, Plain
<1> QED
  BY <1>1, <1>2, <1>3, <1>4, <1>5, OrbitSays DEF OrbitCalls

\* Sequences of four calls.
LEMMA InSeq4 ==
  ASSUME NEW S, NEW a \in S, NEW b \in S, NEW c \in S, NEW d \in S
  PROVE  <<a, b, c, d>> \in Seq(S)
OBVIOUS

\* Sequences of five calls.
LEMMA InSeq5 ==
  ASSUME NEW S, NEW a \in S, NEW b \in S, NEW c \in S, NEW d \in S, NEW e \in S
  PROVE  <<a, b, c, d, e>> \in Seq(S) /\ Len(<<a, b, c, d, e>>) = 5 /\ <<a, b, c, d, e>>[5] = e
OBVIOUS

\* Calls that are added keep the fifth where it is.
LEMMA FifthStays ==
  ASSUME NEW S, NEW a \in Seq(S), NEW b \in Seq(S), Len(a) >= 5
  PROVE  a \o b \in Seq(S) /\ Len(a \o b) >= 5 /\ (a \o b)[5] = a[5]
<1>1. Len(a) \in Nat /\ Len(b) \in Nat /\ Len(a \o b) = Len(a) + Len(b) /\ a \o b \in Seq(S)
  OBVIOUS
<1>2. 5 \in 1 .. Len(a) + Len(b) /\ 5 <= Len(a)
  BY <1>1
<1>3. \A i \in 1 .. Len(a) + Len(b) : (a \o b)[i] = IF i <= Len(a) THEN a[i] ELSE b[i - Len(a)]
  OBVIOUS
<1> QED
  BY <1>1, <1>2, <1>3

\* The texts and the icon are such calls.
LEMMA OrbitMembers ==
  /\ \A x, y \in Int : \A s \in Strings : PrintAt(x, y, s) \in OrbitCalls
  /\ \A x, y \in Int : DrawBmp(x, y, Icon) \in OrbitCalls
  /\ Say(<<"s", Newline>>) \in OrbitCalls /\ Say(<<"c", Newline>>) \in OrbitCalls
BY DEF OrbitCalls

\* A button is made of such calls (gui.c).
LEMMA ButtonTyped ==
  ASSUME NEW x \in Int, NEW y \in Int
  PROVE  GuiButton(x, y) \in Seq(OrbitCalls)
<1>1. x + SHADOW \in Int /\ y + SHADOW \in Int /\ y + LINE \in Int
  BY Constant
<1>2. BUTTON_W \in 0 .. HALF - 1 /\ BUTTON_H \in 0 .. HALF - 1 /\ LINE \in 0 .. HALF - 1
  BY ScreenAssumption, Zenon
<1>3. \A a, b \in Int : \A w, h \in 0 .. HALF - 1 : \A c \in {"shadow", "base", "bright", "mid"} :
        FillRect(a, b, w, h, c) \in OrbitCalls
  BY DEF OrbitCalls
<1>4. PrintAt(x + SHADOW, y + SHADOW, <<"o">>) \in OrbitCalls
  BY <1>1, Texts, OrbitMembers, Zenon
<1>5. /\ FillRect(x + SHADOW, y + SHADOW, BUTTON_W, BUTTON_H, "shadow") \in OrbitCalls
      /\ FillRect(x, y, BUTTON_W, BUTTON_H, "base") \in OrbitCalls
      /\ FillRect(x, y, BUTTON_W, LINE, "bright") \in OrbitCalls
      /\ FillRect(x, y + LINE, BUTTON_W, LINE, "mid") \in OrbitCalls
  BY <1>1, <1>2, <1>3
<1> QED
  BY <1>4, <1>5, InSeq5, Zenon DEF GuiButton

\* All of orbit's calls are such calls, and the fifth clears the screen (orbit.c:14-98).
LEMMA OrbitTyped ==
  /\ OrbitDraws \in Seq(OrbitCalls)
  /\ Len(OrbitDraws) >= 5 /\ OrbitDraws[5] = ClearColor("desk")
<1> DEFINE first == <<Say(<<"o", Newline>>), Say(<<"m">>), Say(<<"i">>), Say(<<Newline>>),
                      ClearColor("desk")>>
           ss == [i \in DOMAIN Buttons |-> GuiButton(Buttons[i].x, Buttons[i].y)]
           middle == FlattenSeq(ss)
           last == << PrintAt(W - 2 * CHAR_W, 0, <<"o", ".", "o">>), Say(<<"s", Newline>>),
                      DrawBmp(W - 2, H - 2, Icon), Say(<<"c", Newline>>) >>
<1>1. first \in Seq(OrbitCalls) /\ Len(first) = 5 /\ first[5] = ClearColor("desk")
  <2>1. {Say(<<"o", Newline>>), Say(<<"m">>), Say(<<"i">>), Say(<<Newline>>), ClearColor("desk")}
          \subseteq OrbitCalls
    BY DEF OrbitCalls
  <2> QED
    BY <2>1, InSeq5
<1>2. last \in Seq(OrbitCalls)
  <2>1. W - 2 * CHAR_W \in Int /\ 0 \in Int /\ W - 2 \in Int /\ H - 2 \in Int
    BY Constant
  <2>2. /\ PrintAt(W - 2 * CHAR_W, 0, <<"o", ".", "o">>) \in OrbitCalls
        /\ DrawBmp(W - 2, H - 2, Icon) \in OrbitCalls
        /\ Say(<<"s", Newline>>) \in OrbitCalls /\ Say(<<"c", Newline>>) \in OrbitCalls
    BY <2>1, Texts, OrbitMembers, Zenon
  <2> QED
    BY <2>2, InSeq4, Zenon
<1>3. middle \in Seq(OrbitCalls)
  <2> DEFINE n == Len(Buttons)
  <2>1. Buttons \in Seq([x : Int, y : Int])
    BY Constant
  <2>2. n \in Nat /\ DOMAIN Buttons = 1 .. n
    BY <2>1
  <2>3. \A i \in 1 .. n : Buttons[i] \in [x : Int, y : Int]
    BY <2>1, ElementOfSeq
  <2>4. ss \in [1 .. n -> Seq(OrbitCalls)]
    BY <2>2, <2>3, ButtonTyped
  <2> HIDE DEF ss, n
  <2>5. ss \in Seq(Seq(OrbitCalls)) /\ DOMAIN ss = 1 .. n
    BY <2>2, <2>4, SeqOfFunction, Zenon
  <2>6. IsSeq(ss) /\ \A i \in DOMAIN ss : ss[i] \in Seq(OrbitCalls)
    BY <2>4, <2>5 DEF IsSeq
  <2> QED
    BY <2>6, FlattenTyped
<1>4. OrbitDraws = first \o middle \o last
  BY DEF OrbitDraws
<1> HIDE DEF first, middle, last
<1> DEFINE most == first \o middle
<1>5. most \in Seq(OrbitCalls) /\ Len(most) >= 5 /\ most[5] = first[5]
  <2>1. Len(first) >= 5
    BY <1>1
  <2> QED
    BY <1>1, <1>3, <2>1, FifthStays, Zenon
<1> HIDE DEF most
<1>6. most \o last \in Seq(OrbitCalls) /\ Len(most \o last) >= 5 /\ (most \o last)[5] = most[5]
  BY <1>2, <1>5, FifthStays
<1> QED
  BY <1>1, <1>4, <1>5, <1>6 DEF most

\* What such a call lays over a picture.
PlainShape(call) ==
  CASE call.kind = "clear_color" -> Plane
    [] call.kind = "fill" -> {p \in Plane : InBox(p, call.x, call.y, call.w, call.h)}
    [] call.kind = "bmp" ->
         IF call.image = Null THEN {}
         ELSE IF IsDrawnBmp(call.image) THEN BmpPoints(call)
         ELSE {p \in Plane : InBox(p, call.x, call.y, ErrorSize, ErrorSize)}
    [] call.kind = "print_at" ->
         UNION {CellPoints(call.s[i], PrintAtCorner(call, i)) : i \in DOMAIN call.s}
    [] OTHER -> {}
\* And its colour there.
PlainColor(call, p) ==
  CASE call.kind = "print_at" -> "white"
    [] call.kind = "bmp" -> IF ~call.image.signature THEN "red"
                            ELSE IF ~IsDrawnBmp(call.image) THEN "yellow"
                            ELSE call.image.rows[call.image.h - (p[2] - call.y)]
                                                [p[1] - call.x + 1]
    [] OTHER -> call.color
\* The picture with the shape over it.
PlainOver(picture, call) ==
  [k \in Words |-> IF Point(k) \in PlainShape(call) THEN PlainColor(call, Point(k))
                   ELSE picture[k]]

\* What such a call leaves on the screen does not depend on cursor or colours.
LEMMA OverPlain ==
  ASSUME NEW picture, NEW call, Plain(call)
  PROVE  Over(picture, call) = PlainOver(picture, call)
<1>1. ShapeOf(call) = PlainShape(call)
  <2>1. CASE call.kind = "print_at"
    <3>1. \A i : CharPoints(call, i) = CellPoints(call.s[i], PrintAtCorner(call, i))
      BY <2>1 DEF CharPoints, CellPoints, Corner
    <3>2. TextPoints(call) = UNION {CellPoints(call.s[i], PrintAtCorner(call, i)) : i \in DOMAIN call.s}
      BY <3>1 DEF TextPoints
    <3> QED
      BY <2>1, <3>2 DEF ShapeOf, PlainShape
  <2>2. CASE call.kind # "print_at"
    BY <2>2 DEF Plain, ShapeOf, PlainShape
  <2> QED
    BY <2>1, <2>2
<1>2. \A k \in Words : ColorOf(call, Point(k)) = PlainColor(call, Point(k))
  BY DEF Plain, ColorOf, PlainColor
<1> QED
  BY <1>1, <1>2 DEF Over, PlainOver

\* The picture after each of orbit's first N calls.
Sheets(f, N) == f = [n \in 0 .. N |-> IF n = 0 THEN Blank ELSE PlainOver(f[n - 1], OrbitDraws[n])]
Sheet == CHOOSE f : Sheets(f, Len(OrbitDraws))

\* Pictures that are laid one over the other.
LEMMA SheetsValue ==
  ASSUME NEW f, NEW N, Sheets(f, N)
  PROVE  \A n \in 0 .. N : f[n] = IF n = 0 THEN Blank ELSE PlainOver(f[n - 1], OrbitDraws[n])
BY Zenon DEF Sheets

\* There are such pictures for any number of calls (by hand: recursion over it).
LEMMA SheetsExist == ASSUME NEW N \in Nat PROVE \E f : Sheets(f, N)
<1> DEFINE T == {m \in 0 .. N : \E f : Sheets(f, m)}
<1>1. 0 \in T
  <2> DEFINE f == [n \in 0 .. 0 |-> Blank]
  <2>1. f = [n \in 0 .. 0 |-> IF n = 0 THEN Blank ELSE PlainOver(f[n - 1], OrbitDraws[n])]
    OBVIOUS
  <2>2. Sheets(f, 0)
    BY <2>1, Zenon DEF Sheets
  <2> QED
    BY <2>2
<1>2. ASSUME NEW m \in 0 .. N - 1, m \in T PROVE m + 1 \in T
  <2>1. PICK f : Sheets(f, m)
    BY <1>2
  <2> DEFINE M == m + 1
             g == [n \in 0 .. M |-> IF n = M THEN PlainOver(f[m], OrbitDraws[M]) ELSE f[n]]
  <2>2. ASSUME NEW n \in 0 .. M
        PROVE  g[n] = IF n = 0 THEN Blank ELSE PlainOver(g[n - 1], OrbitDraws[n])
    <3>1. CASE n = M
      <4>1. n # 0 /\ n - 1 = m /\ m \in 0 .. M /\ m # M
        BY <3>1
      <4>2. g[n] = PlainOver(f[m], OrbitDraws[n])
        BY <3>1
      <4>3. g[n - 1] = f[m]
        BY <4>1
      <4> QED
        BY <4>1, <4>2, <4>3, Zenon
    <3>2. CASE n # M
      <4>1. n \in 0 .. m /\ g[n] = f[n] /\ (n # 0 => g[n - 1] = f[n - 1])
        BY <3>2
      <4>2. f[n] = IF n = 0 THEN Blank ELSE PlainOver(f[n - 1], OrbitDraws[n])
        BY <2>1, <4>1, SheetsValue
      <4> QED
        BY <4>1, <4>2, Zenon
    <3> QED
      BY <3>1, <3>2
  <2>3. g = [n \in 0 .. M |-> g[n]]
    OBVIOUS
  <2> HIDE DEF g
  <2>4. Sheets(g, M)
    BY <2>2, <2>3, Zenon DEF Sheets
  <2> QED
    BY <2>4
<1> HIDE DEF T
<1>3. N \in T
  BY <1>1, <1>2, Induction
<1> QED
  BY <1>3 DEF T

\* The pictures after orbit's calls are laid so.
LEMMA SheetSteps ==
  \A n \in 0 .. Len(OrbitDraws) :
    Sheet[n] = IF n = 0 THEN Blank ELSE PlainOver(Sheet[n - 1], OrbitDraws[n])
<1>1. Len(OrbitDraws) \in Nat
  BY OrbitTyped
<1>2. Sheets(Sheet, Len(OrbitDraws))
  BY <1>1, SheetsExist, Zenon DEF Sheet
<1> QED
  BY <1>2, SheetsValue

\* Each of orbit's calls is one of those.
LEMMA OrbitPlain == \A n \in 1 .. Len(OrbitDraws) : Good(OrbitDraws[n]) /\ Plain(OrbitDraws[n])
<1>1. \A n \in 1 .. Len(OrbitDraws) : OrbitDraws[n] \in OrbitCalls
  BY OrbitTyped, ElementOfSeq
<1> QED
  BY <1>1, OrbitCallsPlain

\* The same, with what the model says that a call leaves.
StateSheets(f) ==
  f = [n \in 0 .. Len(OrbitDraws) |-> IF n = 0 THEN Blank ELSE Over(f[n - 1], OrbitDraws[n])]

\* The picture after the last of them is what DesktopShown speaks of.
LEMMA SheetIsDrawing == Sheet[Len(OrbitDraws)] = Drawing[Len(OrbitDraws)]
<1> DEFINE N == Len(OrbitDraws)
           f == CHOOSE g : StateSheets(g)
<1>1. N \in Nat
  BY OrbitTyped
<1>2. Drawing = f
  BY DEF Drawing, StateSheets
<1>3. StateSheets(Sheet)
  <2>1. Sheets(Sheet, N)
    BY <1>1, SheetsExist, Zenon DEF Sheet
  <2>2. Sheet = [n \in 0 .. N |-> IF n = 0 THEN Blank ELSE PlainOver(Sheet[n - 1], OrbitDraws[n])]
    BY <2>1, Zenon DEF Sheets
  <2>3. \A n \in 0 .. N : (IF n = 0 THEN Blank ELSE PlainOver(Sheet[n - 1], OrbitDraws[n]))
                          = (IF n = 0 THEN Blank ELSE Over(Sheet[n - 1], OrbitDraws[n]))
    <3> TAKE n \in 0 .. N
    <3>1. CASE n = 0
      BY <3>1
    <3>2. CASE n # 0
      <4>1. Plain(OrbitDraws[n])
        BY <1>1, <3>2, OrbitPlain
      <4> QED
        BY <3>2, <4>1, OverPlain
    <3> QED
      BY <3>1, <3>2
  <2> QED
    BY <2>2, <2>3, Zenon DEF StateSheets
<1>4. StateSheets(f)
  BY <1>3, Zenon
<1> HIDE DEF f
<1>5. \A n \in 0 .. N : f[n] = IF n = 0 THEN Blank ELSE Over(f[n - 1], OrbitDraws[n])
  BY <1>4, Zenon DEF StateSheets
<1> DEFINE T == {n \in 0 .. N : Sheet[n] = f[n]}
<1>6. 0 \in T
  BY <1>1, <1>5, SheetSteps
<1>7. ASSUME NEW n \in 0 .. N - 1, n \in T PROVE n + 1 \in T
  <2>1. n + 1 \in 0 .. N /\ n + 1 # 0 /\ (n + 1) - 1 = n /\ n + 1 \in 1 .. N
    BY <1>1
  <2>2. f[n + 1] = Over(f[n], OrbitDraws[n + 1])
    BY <1>5, <2>1
  <2>3. Sheet[n + 1] = PlainOver(Sheet[n], OrbitDraws[n + 1])
    BY <2>1, SheetSteps
  <2>4. Over(f[n], OrbitDraws[n + 1]) = PlainOver(f[n], OrbitDraws[n + 1])
    BY <2>1, OrbitPlain, OverPlain
  <2>5. Sheet[n] = f[n]
    BY <1>7
  <2> QED
    BY <2>1, <2>2, <2>3, <2>4, <2>5
<1>8. N \in T
  <2> HIDE DEF T, N
  <2> QED
    BY <1>1, <1>6, <1>7, Induction
<1> QED
  BY <1>2, <1>8

\* How far orbit is with its desktop: of its calls so many have been made, and after the
\* fifth, the clear, the screen shows nothing but orbit's.
Made == Len(OrbitDraws) - Len(script)

DeskInv ==
  prog = "orbit" /\ requests = 0 =>
    /\ RestOf(OrbitDraws, script)
    /\ pc # "ready" => Made >= 1 /\ job = OrbitDraws[Made]
    /\ pc # "ready" /\ Made >= 6 => before = Sheet[Made - 1]
    /\ pc = "ready" /\ Made >= 5 => fb = Sheet[Made]

\* At the start orbit does not run.
LEMMA InitDesk == TextInit => DeskInv
BY DEF TextInit, Init, DeskInv

\* What the steps inside a call, and those that leave orbit, do.
LEMMA InCallDesk ==
  ASSUME DeskInv, UNCHANGED <<prog, script, requests, job, before>>, pc # "ready", pc' # "ready"
  PROVE  DeskInv'
BY DEF DeskInv, Made

\* Of other programs, and of requests from outside, the invariant says nothing.
LEMMA NotOrbitDesk == ASSUME prog' # "orbit" \/ requests' # 0 PROVE DeskInv'
BY DEF DeskInv

\* Orbit begins with all of its calls before it.
LEMMA TickDesk == ASSUME IInv, TextTick PROVE DeskInv'
<1>1. prog' = Head(ready) /\ script' = Script[Head(ready)] /\ pc' = "ready"
  BY DEF TextTick, TickStarts
<1> SUFFICES ASSUME prog' = "orbit" PROVE DeskInv'
  BY DEF DeskInv
<1>2. script' = OrbitDraws
  BY <1>1 DEF Script
<1>3. IsSeq(OrbitDraws) /\ Len(OrbitDraws) \in Nat
  BY OrbitTyped DEF IsSeq
<1>4. (RestOf(OrbitDraws, script))' /\ Made' = 0
  <2> DEFINE s == OrbitDraws
  <2> HIDE DEF s
  <2>1. RestOf(s, s)
    BY <1>3 DEF RestOf, s
  <2>2. (RestOf(s, script))'
    BY <1>2, <2>1 DEF s
  <2> QED
    BY <1>2, <1>3, <2>2 DEF s, Made
<1> QED
  BY <1>1, <1>4 DEF DeskInv


\* What is left of orbit's calls begins with the next one.
LEMMA OrbitRest ==
  ASSUME NEW t, RestOf(OrbitDraws, t), t # <<>>
  PROVE  /\ Len(OrbitDraws) - Len(t) \in Nat
         /\ (Len(OrbitDraws) - Len(t)) + 1 \in 1 .. Len(OrbitDraws)
         /\ Head(t) = OrbitDraws[(Len(OrbitDraws) - Len(t)) + 1]
         /\ RestOf(OrbitDraws, Tail(t))
         /\ Len(OrbitDraws) - Len(Tail(t)) = (Len(OrbitDraws) - Len(t)) + 1
<1> DEFINE s == OrbitDraws
<1>1. IsSeq(s)
  BY OrbitTyped DEF IsSeq
<1>2. RestOf(s, t)
  OBVIOUS
<1> HIDE DEF s
<1>3. /\ Len(s) \in Nat /\ Len(t) \in Nat /\ Len(s) - Len(t) \in 0 .. Len(s)
      /\ t = <<>> => Len(s) - Len(t) = Len(s)
      /\ t # <<>> => /\ (Len(s) - Len(t)) + 1 \in 1 .. Len(s)
                     /\ Head(t) = s[(Len(s) - Len(t)) + 1]
                     /\ RestOf(s, Tail(t))
                     /\ Len(s) - Len(Tail(t)) = (Len(s) - Len(t)) + 1
  BY <1>1, <1>2, RestOfSeq, Zenon
<1>4. Len(s) - Len(t) \in Nat
  BY <1>3
<1> QED
  BY <1>3, <1>4 DEF s

\* The next of its calls begins.
LEMMA StartsDesk == ASSUME IInv, DeskInv, StartCall \/ StartText PROVE DeskInv'
<1>1. /\ pc = "ready" /\ script # <<>> /\ script' = Tail(script) /\ before' = fb
      /\ job' \in Served(Head(script)) \cup {Head(script)}
      /\ UNCHANGED <<prog, requests, fb>> /\ pc' # "ready"
  <2>1. CASE StartCall
    BY <2>1 DEF StartCall
  <2>2. CASE StartText
    BY <2>2 DEF StartText, graphicsVars
  <2> QED
    BY <2>1, <2>2
<1> SUFFICES ASSUME prog = "orbit", requests = 0 PROVE DeskInv'
  BY <1>1 DEF DeskInv
<1>2. RestOf(OrbitDraws, script)
  BY DEF DeskInv
<1>3. /\ Made \in Nat /\ Made + 1 \in 1 .. Len(OrbitDraws)
      /\ Head(script) = OrbitDraws[Made + 1] /\ RestOf(OrbitDraws, Tail(script))
      /\ Len(OrbitDraws) - Len(Tail(script)) = Made + 1
  BY <1>1, <1>2, OrbitRest DEF Made
<1>4. Made' = Made + 1 /\ (RestOf(OrbitDraws, script))'
  <2> DEFINE s == OrbitDraws
  <2> HIDE DEF s
  <2>1. RestOf(s, Tail(script))
    BY <1>3 DEF s
  <2>2. (RestOf(s, script))'
    BY <1>1, <2>1
  <2> QED
    BY <1>1, <1>3, <2>2 DEF s, Made
<1>5. job' = OrbitDraws[Made']
  <2>1. Plain(Head(script))
    BY <1>3, OrbitPlain
  <2>2. Served(Head(script)) = {Head(script)}
    BY <2>1 DEF Served, Plain
  <2> QED
    BY <1>1, <1>3, <1>4, <2>2
<1>6. Made >= 5 => before' = Sheet[Made]
  BY <1>1 DEF DeskInv
<1>7. Made' >= 1 /\ (Made' >= 6 => before' = Sheet[Made' - 1])
  <2>1. Made' - 1 = Made
    BY <1>3, <1>4
  <2>2. Made' >= 6 => Made >= 5
    BY <1>3, <1>4
  <2> QED
    BY <1>3, <1>4, <1>6, <2>1, <2>2
<1> QED
  BY <1>1, <1>4, <1>5, <1>7 DEF DeskInv

\* A call is done: it has painted the next sheet.
LEMMA ReturnsDesk == ASSUME IInv, PaintInv, DeskInv, Return PROVE DeskInv'
<1>1. /\ pc = "done" /\ pc' = "ready" /\ UNCHANGED <<prog, script, requests, fb>>
  BY DEF Return, progVars
<1> SUFFICES ASSUME prog = "orbit", requests = 0 PROVE DeskInv'
  BY <1>1 DEF DeskInv
<1>2. /\ RestOf(OrbitDraws, script) /\ Made >= 1 /\ job = OrbitDraws[Made]
      /\ Made >= 6 => before = Sheet[Made - 1]
  BY <1>1 DEF DeskInv
<1>3. Made \in 1 .. Len(OrbitDraws) /\ Len(OrbitDraws) \in Nat
  <2>1. Len(script) \in Nat /\ Len(OrbitDraws) \in Nat
    BY <1>2, SeqFacts, OrbitTyped DEF RestOf
  <2> QED
    BY <1>2, <2>1 DEF Made
<1>4. Plain(job)
  BY <1>2, <1>3, OrbitPlain
<1>5. fb = PlainOver(before, job)
  <2>1. Meant(job)
    BY <1>4 DEF Plain, Meant
  <2>2. fb = Over(before, job)
    BY <1>1, <2>1, PaintedHere DEF Painted
  <2> QED
    BY <1>4, <2>2, OverPlain
<1>6. Made \in 0 .. Len(OrbitDraws) /\ Made # 0
  BY <1>3
<1>7. Sheet[Made] = PlainOver(Sheet[Made - 1], OrbitDraws[Made])
  BY <1>6, SheetSteps
<1>8. ASSUME Made >= 5 PROVE fb = Sheet[Made]
  <2>1. CASE Made >= 6
    BY <1>2, <1>5, <1>7, <2>1
  <2>2. CASE Made < 6
    <3>1. Made = 5
      BY <1>3, <1>8, <2>2
    <3>2. job.kind = "clear_color"
      BY <1>2, <3>1, OrbitTyped DEF ClearColor
    <3>3. PlainShape(job) = Plane
      BY <3>2 DEF PlainShape
    <3>4. \A k \in Words : Point(k) \in Plane
      BY WordOfPoint
    <3>5. PlainOver(before, job) = PlainOver(Sheet[Made - 1], job)
      BY <3>3, <3>4 DEF PlainOver
    <3> QED
      BY <1>2, <1>5, <1>7, <3>5
  <2> QED
    BY <1>3, <2>1, <2>2
<1>9. Made' = Made /\ (RestOf(OrbitDraws, script))'
  BY <1>1, <1>2 DEF Made, RestOf
<1> QED
  BY <1>1, <1>8, <1>9 DEF DeskInv

\* Every step keeps how far orbit's desktop is.
LEMMA NextDesk == IInv /\ PaintInv /\ DeskInv /\ [TextNext]_textScreenVars => DeskInv'
<1> SUFFICES ASSUME IInv, PaintInv, DeskInv, [TextNext]_textScreenVars PROVE DeskInv'
  OBVIOUS
<1>1. CASE UNCHANGED textScreenVars
  <2>1. UNCHANGED <<prog, script, requests, job, before, fb, pc>>
    BY <1>1 DEF textScreenVars, vars, progVars, callVars
  <2> QED
    BY <2>1 DEF DeskInv, Made
<1>2. CASE StartCall \/ StartText
  BY <1>2, StartsDesk
<1>3. CASE Return
  BY <1>3, ReturnsDesk
<1>4. CASE TextTick
  BY <1>4, TickDesk
<1>5. CASE Request \/ Fault \/ GoAstray \/ Halt
  <2>1. prog' # "orbit" \/ requests' # 0
    <3>1. CASE Request
      BY <3>1 DEF Request, IInv, CallInv
    <3>2. CASE Fault
      BY <3>2 DEF Fault, Handler
    <3>3. CASE GoAstray \/ Halt
      BY <3>3 DEF GoAstray, Halt, progVars
    <3> QED
      BY <1>5, <3>1, <3>2, <3>3
  <2> QED
    BY <2>1, NotOrbitDesk
<1>6. CASE WritePixel \/ Drawn \/ HomeX \/ HomeY \/ EndOfText \/ DrawChar \/ PosNewline
             \/ PosAdvance \/ CursorNewline \/ CursorAdvance \/ CursorWrap \/ CursorLine
             \/ CursorTop
  <2>1. UNCHANGED <<prog, script, requests, job, before>> /\ pc # "ready" /\ pc' # "ready"
    BY <1>6 DEF WritePixel, Drawn, HomeX, HomeY, EndOfText, DrawChar, PosNewline, PosAdvance,
                CursorNewline, CursorAdvance, CursorWrap, CursorLine, CursorTop, AfterDraw,
                progVars, callVars
  <2> QED
    BY <2>1, InCallDesk
<1>7. CASE TextStep /\ ~StartText
  <2>1. UNCHANGED <<prog, script, requests, job, before>> /\ pc # "ready" /\ pc' # "ready"
    BY <1>7 DEF TextStep, WriteCell, TextDrawn, ToX, ToY, EndOfPrint, BreakLine, NextLine,
                LimitLine, FitsHere, PutHere, StepRight, PutThere, StepThere, EndThere,
                BackX, BackY, Step, Same, progVars, callVars
  <2> QED
    BY <2>1, InCallDesk
<1> QED
  BY <1>1, <1>2, <1>3, <1>4, <1>5, <1>6, <1>7, Zenon DEF TextNext, CallStep

\* The desktop is the clear, the buttons, the text and the icon and nothing else, wherever
\* the tick that starts orbit has cut sysman's drawing (orbit.c:14-98, sysman.c).
THEOREM DesktopAlwaysShown == TextSpec => []DesktopShown
<1>1. DeskInv => DesktopShown
  <2> SUFFICES ASSUME DeskInv, prog = "orbit", pc = "ready", script = <<>>, requests = 0
               PROVE  fb = Drawing[Len(OrbitDraws)]
    BY DEF DesktopShown
  <2>1. Len(script) = 0 /\ Len(OrbitDraws) \in Nat /\ Len(OrbitDraws) >= 5
    BY OrbitTyped
  <2>2. Made = Len(OrbitDraws) /\ Made >= 5
    BY <2>1 DEF Made
  <2>3. fb = Sheet[Made]
    BY <2>2 DEF DeskInv
  <2> QED
    BY <2>2, <2>3, SheetIsDrawing
<1> QED
  BY <1>1, InitDesk, NextDesk, PaintKnown, ScreensKnown, PTL DEF TextSpec

-----------------------------------------------------------------------------
(***************************************************************************)
(* Columns and lines of a text, from one character to the next.            *)
(***************************************************************************)
\* The largest element of a set that has one.
LEMMA MaxIs ==
  ASSUME NEW S, NEW m \in S, S \subseteq Int, \A x \in S : m >= x
  PROVE  Max(S) = m
<1> DEFINE n == CHOOSE x \in S : \A y \in S : x >= y
<1>1. n \in S /\ \A y \in S : n >= y
  OBVIOUS
<1>2. n \in Int /\ m \in Int /\ n >= m /\ m >= n
  BY <1>1
<1> HIDE DEF n
<1>3. n = m
  BY <1>2
<1> QED
  BY <1>3 DEF Max, n

\* The line of the first character begins with it.
LEMMA FirstLine == ASSUME NEW s PROVE FirstOfLine(s, 1) = 1
<1> DEFINE S == {0} \cup {j \in 1 .. 1 - 1 : s[j] = Newline}
<1>1. S = {0}
  OBVIOUS
<1> HIDE DEF S
<1>2. Max(S) = 0
  BY <1>1, MaxIs
<1> QED
  BY <1>2 DEF FirstOfLine, S

\* A newline begins a line behind it, another character does not.
LEMMA LineBegins ==
  ASSUME NEW s, NEW i \in Nat \ {0}
  PROVE  FirstOfLine(s, i + 1) = IF s[i] = Newline THEN i + 1 ELSE FirstOfLine(s, i)
<1> DEFINE S == {0} \cup {j \in 1 .. i - 1 : s[j] = Newline}
           T == {0} \cup {j \in 1 .. (i + 1) - 1 : s[j] = Newline}
<1>1. (i + 1) - 1 = i /\ 1 .. i = (1 .. i - 1) \cup {i}
  OBVIOUS
<1>2. CASE s[i] = Newline
  <2>1. T \subseteq Int /\ i \in T /\ \A x \in T : i >= x
    BY <1>1, <1>2
  <2> HIDE DEF T
  <2>2. Max(T) = i
    BY <2>1, MaxIs
  <2> QED
    BY <1>2, <2>2 DEF FirstOfLine, T
<1>3. CASE s[i] # Newline
  <2>1. S = T
    BY <1>1, <1>3
  <2> HIDE DEF S, T
  <2>2. Max(S) + 1 = Max(T) + 1
    BY <2>1
  <2> QED
    BY <1>3, <2>2 DEF FirstOfLine, S, T
<1> QED
  BY <1>2, <1>3

\* The column of the next character.
LEMMA NextColumn ==
  ASSUME NEW s, NEW i \in Nat \ {0}, FirstOfLine(s, i) \in Int, shown.x \in Int
  PROVE  /\ FirstOfLine(s, i + 1) \in Int
         /\ Column(s, i + 1) = IF s[i] = Newline THEN 0 ELSE Column(s, i) + 1
<1>1. CASE s[i] = Newline
  <2>1. FirstOfLine(s, i + 1) = i + 1 /\ i + 1 # 1
    BY <1>1, LineBegins
  <2> QED
    BY <1>1, <2>1 DEF Column
<1>2. CASE s[i] # Newline
  <2>1. FirstOfLine(s, i + 1) = FirstOfLine(s, i)
    BY <1>2, LineBegins
  <2> DEFINE a == FirstOfLine(s, i)
             c == IF a = 1 THEN shown.x ELSE 0
  <2>2. a \in Int /\ c \in Int
    OBVIOUS
  <2>3. Column(s, i) = (i - a) + c /\ Column(s, i + 1) = ((i + 1) - a) + c
    BY <2>1 DEF Column
  <2> HIDE DEF a, c
  <2>4. ((i + 1) - a) + c = ((i - a) + c) + 1
    BY <2>2
  <2>5. a \in Int /\ Column(s, i + 1) = Column(s, i) + 1
    BY <2>2, <2>3, <2>4
  <2> QED
    BY <1>2, <2>1, <2>5 DEF a
<1> QED
  BY <1>1, <1>2

\* The lines that a character ends.
Ends(s, k) == IF s[k] = Newline THEN LinesOf(Column(s, k)) ELSE 0

\* The lines before each character.
LineCounts(f, s, N) == f = [k \in 1 .. N |-> IF k = 1 THEN 0 ELSE f[k - 1] + Ends(s, k - 1)]

\* A count of lines, one character after the other.
LEMMA LineCountsValue ==
  ASSUME NEW f, NEW s, NEW N, LineCounts(f, s, N)
  PROVE  \A k \in 1 .. N : f[k] = IF k = 1 THEN 0 ELSE f[k - 1] + Ends(s, k - 1)
BY Zenon DEF LineCounts

\* There is one for every text (by hand: recursion over its length).
LEMMA LineCountsExist ==
  ASSUME NEW s, NEW N \in Nat \ {0}
  PROVE  \E f : LineCounts(f, s, N)
<1> DEFINE T == {m \in 0 .. N - 1 : \E f : LineCounts(f, s, m + 1)}
<1>1. 0 \in T
  <2> DEFINE f == [k \in 1 .. 1 |-> 0]
  <2>1. f = [k \in 1 .. 1 |-> IF k = 1 THEN 0 ELSE f[k - 1] + Ends(s, k - 1)]
    OBVIOUS
  <2>2. LineCounts(f, s, 1)
    BY <2>1 DEF LineCounts
  <2>3. LineCounts(f, s, 0 + 1)
    BY <2>2
  <2> QED
    BY <2>3
<1>2. ASSUME NEW m \in 0 .. (N - 1) - 1, m \in T PROVE m + 1 \in T
  <2>1. PICK f : LineCounts(f, s, m + 1)
    BY <1>2
  <2> DEFINE M == m + 2
             g == [k \in 1 .. M |-> IF k = M THEN f[m + 1] + Ends(s, m + 1) ELSE f[k]]
  <2>2. ASSUME NEW k \in 1 .. M
        PROVE  g[k] = IF k = 1 THEN 0 ELSE g[k - 1] + Ends(s, k - 1)
    <3>1. CASE k = M
      <4>1. k # 1 /\ k - 1 = m + 1 /\ m + 1 \in 1 .. M /\ m + 1 # M
        BY <3>1
      <4>2. g[k] = f[m + 1] + Ends(s, m + 1)
        BY <3>1
      <4>3. g[k - 1] = f[m + 1]
        BY <4>1
      <4> QED
        BY <4>1, <4>2, <4>3, Zenon
    <3>2. CASE k # M
      <4>1. k \in 1 .. m + 1 /\ g[k] = f[k] /\ (k # 1 => g[k - 1] = f[k - 1])
        BY <3>2
      <4>2. f[k] = IF k = 1 THEN 0 ELSE f[k - 1] + Ends(s, k - 1)
        BY <2>1, <4>1, LineCountsValue
      <4> QED
        BY <4>1, <4>2, Zenon
    <3> QED
      BY <3>1, <3>2
  <2>3. g = [k \in 1 .. M |-> g[k]]
    OBVIOUS
  <2> HIDE DEF g
  <2>4. LineCounts(g, s, M)
    BY <2>2, <2>3, Zenon DEF LineCounts
  <2>5. m + 1 \in 0 .. N - 1 /\ (m + 1) + 1 = M
    OBVIOUS
  <2> QED
    BY <2>4, <2>5
<1>3. N - 1 \in T
  <2> HIDE DEF T
  <2>1. N - 1 \in Nat
    OBVIOUS
  <2> QED
    BY <1>1, <1>2, <2>1, Induction
<1>4. (N - 1) + 1 = N
  OBVIOUS
<1> QED
  BY <1>3, <1>4

\* The lines before a character, and before the next.
LEMMA NextLines ==
  ASSUME NEW s, IsSeq(s)
  PROVE  /\ LinesBefore(s, 1) = 0
         /\ \A i \in 1 .. Len(s) : LinesBefore(s, i + 1) = LinesBefore(s, i) + Ends(s, i)
<1> DEFINE N == Len(s) + 1
           lines == CHOOSE f : LineCounts(f, s, N)
<1>1. Len(s) \in Nat /\ N \in Nat \ {0}
  BY SeqFacts
<1>2. LineCounts(lines, s, N)
  BY <1>1, LineCountsExist
<1>3. \A i : LinesBefore(s, i) = lines[i]
  BY DEF LinesBefore, LineCounts, Ends
<1> HIDE DEF lines
<1>4. \A k \in 1 .. N : lines[k] = IF k = 1 THEN 0 ELSE lines[k - 1] + Ends(s, k - 1)
  BY <1>2, LineCountsValue
<1>5. LinesBefore(s, 1) = 0
  BY <1>1, <1>3, <1>4
<1>6. ASSUME NEW i \in 1 .. Len(s)
      PROVE  LinesBefore(s, i + 1) = LinesBefore(s, i) + Ends(s, i)
  <2>1. i + 1 \in 1 .. N /\ i + 1 # 1 /\ (i + 1) - 1 = i
    BY <1>1
  <2>2. lines[i + 1] = lines[i] + Ends(s, i)
    BY <1>4, <2>1
  <2> QED
    BY <1>3, <2>2
<1> QED
  BY <1>5, <1>6

-----------------------------------------------------------------------------
(***************************************************************************)
(* Where the cursor is before the i-th character, in columns and lines.    *)
(***************************************************************************)
BehindX(s, i) == IF Column(s, i) = 0 THEN 0 ELSE ((Column(s, i) - 1) % VGA_WIDTH) + 1
BehindY(s, i) == LineFrom(s, i, IF Column(s, i) = 0 THEN 0 ELSE Column(s, i) - 1)

\* What vga_print starts from.
FromScreen == shown.x \in 0 .. VGA_WIDTH /\ shown.y \in 0 .. VGA_HEIGHT - 1

\* The lines that a number of columns takes, one more than are full before the last.
LEMMA LinesTaken ==
  /\ LinesOf(0) = 1
  /\ \A n \in Nat \ {0} : /\ (n - 1) \div VGA_WIDTH \in Nat
                          /\ LinesOf(n) = ((n - 1) \div VGA_WIDTH) + 1
<1>1. LinesOf(0) = 1
  BY DEF LinesOf
<1>2. ASSUME NEW n \in Nat \ {0}
      PROVE  (n - 1) \div VGA_WIDTH \in Nat /\ LinesOf(n) = ((n - 1) \div VGA_WIDTH) + 1
  <2> DEFINE m == VGA_WIDTH
             q == (n - 1) \div m
             k == (n - 1) % m
  <2>1. m \in Nat \ {0} /\ n - 1 \in Nat
    BY Constant
  <2>2. q \in Nat /\ k \in 0 .. m - 1 /\ n - 1 = m * q + k
    <3> DEFINE v == n - 1
    <3> HIDE DEF v, m
    <3>1. v \div m \in Nat /\ v % m \in 0 .. m - 1 /\ v = m * (v \div m) + (v % m)
      BY <2>1, SMTT(30) DEF v
    <3> QED
      BY <3>1 DEF v
  <2> HIDE DEF q, k, m
  <2>3. (q + 1) * m = m * q + m
    BY <2>1, <2>2
  <2>4. (n + m) - 1 = (q + 1) * m + k /\ q + 1 \in Int
    BY <2>1, <2>2, <2>3
  <2>5. ((n + m) - 1) \div m = q + 1
    BY <2>1, <2>2, <2>4, OnePlace
  <2>6. n + m - 1 = (n + m) - 1
    BY <2>1
  <2>7. LinesOf(n) = q + 1
    BY <2>5, <2>6 DEF LinesOf, m
  <2> QED
    BY <2>2, <2>7 DEF q, m
<1> QED
  BY <1>1, <1>2

\* Columns and lines are counted by natural numbers.
LEMMA Counted ==
  ASSUME NEW s, IsSeq(s), FromScreen
  PROVE  \A i \in 1 .. Len(s) + 1 : /\ FirstOfLine(s, i) \in Int
                                    /\ Column(s, i) \in Nat /\ LinesBefore(s, i) \in Nat
<1> DEFINE OK(i) == /\ FirstOfLine(s, i) \in Int
                    /\ Column(s, i) \in Nat /\ LinesBefore(s, i) \in Nat
           N == Len(s)
           T == {m \in 0 .. N : \A i \in 1 .. m + 1 : OK(i)}
<1>1. N \in Nat /\ shown.x \in Nat
  BY SeqFacts, Constant DEF FromScreen
<1>2. 0 \in T
  <2>1. FirstOfLine(s, 1) = 1 /\ LinesBefore(s, 1) = 0
    BY FirstLine, NextLines
  <2>2. Column(s, 1) = shown.x
    BY <1>1, <2>1 DEF Column
  <2>3. \A i \in 1 .. 0 + 1 : OK(i)
    BY <1>1, <2>1, <2>2
  <2> QED
    BY <1>1, <2>3
<1>3. ASSUME NEW m \in 0 .. N - 1, m \in T PROVE m + 1 \in T
  <2>1. OK(m + 1) /\ m + 1 \in Nat \ {0} /\ m + 1 \in 1 .. N /\ m + 1 \in 0 .. N
    BY <1>1, <1>3
  <2>2. FirstOfLine(s, (m + 1) + 1) \in Int /\ Column(s, (m + 1) + 1) \in Nat
    <3>1. FirstOfLine(s, m + 1) \in Int /\ Column(s, m + 1) \in Nat /\ shown.x \in Int
      BY <1>1, <2>1
    <3>2. /\ FirstOfLine(s, (m + 1) + 1) \in Int
          /\ Column(s, (m + 1) + 1) = IF s[m + 1] = Newline THEN 0 ELSE Column(s, m + 1) + 1
      BY <2>1, <3>1, NextColumn
    <3> QED
      BY <3>1, <3>2
  <2>3. LinesBefore(s, (m + 1) + 1) \in Nat
    <3>1. Column(s, m + 1) \in Nat /\ LinesBefore(s, m + 1) \in Nat
      BY <2>1
    <3>2. Ends(s, m + 1) \in Nat
      <4>1. \A n \in Nat : LinesOf(n) \in Nat
        <5> TAKE n \in Nat
        <5>1. CASE n = 0
          BY <5>1, LinesTaken
        <5>2. CASE n # 0
          <6>1. n \in Nat \ {0}
            BY <5>2
          <6>2. (n - 1) \div VGA_WIDTH \in Nat /\ LinesOf(n) = ((n - 1) \div VGA_WIDTH) + 1
            BY <6>1, LinesTaken
          <6> QED
            BY <6>2
        <5> QED
          BY <5>1, <5>2
      <4> QED
        BY <3>1, <4>1 DEF Ends
    <3>3. LinesBefore(s, (m + 1) + 1) = LinesBefore(s, m + 1) + Ends(s, m + 1)
      BY <2>1, NextLines
    <3> QED
      BY <3>1, <3>2, <3>3
  <2>4. \A i \in 1 .. (m + 1) + 1 : i \in 1 .. m + 1 \/ i = (m + 1) + 1
    BY <1>1
  <2>5. OK((m + 1) + 1) /\ \A i \in 1 .. m + 1 : OK(i)
    BY <1>3, <2>2, <2>3
  <2> HIDE DEF OK
  <2>6. \A i \in 1 .. (m + 1) + 1 : OK(i)
    BY <2>4, <2>5
  <2> QED
    BY <2>1, <2>6
<1>4. N \in T
  <2> HIDE DEF T
  <2> QED
    BY <1>1, <1>2, <1>3, Induction
<1> QED
  BY <1>4

\* A number of cells makes a number of lines and a column.
LEMMA InLines ==
  ASSUME NEW m \in Nat \ {0}, NEW n \in Nat
  PROVE  n \div m \in Nat /\ n % m \in 0 .. m - 1
BY SMTT(30)

\* The cursor behind a character, and the cell it goes to, lie on the screen.
LEMMA BehindTypes ==
  ASSUME NEW s, IsSeq(s), FromScreen, NEW i \in 1 .. Len(s) + 1
  PROVE  /\ BehindX(s, i) \in 0 .. VGA_WIDTH /\ BehindY(s, i) \in 0 .. VGA_HEIGHT - 1
         /\ Column(s, i) % VGA_WIDTH \in 0 .. VGA_WIDTH - 1
         /\ \A n \in Nat : /\ n \div VGA_WIDTH \in Nat
                           /\ LineFrom(s, i, n) \in 0 .. VGA_HEIGHT - 1
<1>1. Column(s, i) \in Nat /\ LinesBefore(s, i) \in Nat
  BY Counted
<1>2. \A n \in Nat : n \div VGA_WIDTH \in Nat /\ n % VGA_WIDTH \in 0 .. VGA_WIDTH - 1
  <2>1. VGA_WIDTH \in Nat \ {0}
    BY Constant
  <2> QED
    BY <2>1, InLines, Zenon
<1>3. ASSUME NEW n \in Nat PROVE LineFrom(s, i, n) \in 0 .. VGA_HEIGHT - 1
  <2> DEFINE a == shown.y + LinesBefore(s, i)
             q == n \div VGA_WIDTH
  <2>1. VGA_HEIGHT - 1 \in Nat /\ shown.y \in Nat /\ q \in Nat
    <3>1. q \in Nat
      BY <1>2
    <3>2. VGA_HEIGHT \in Nat /\ VGA_HEIGHT > 1
      BY Constant
    <3>3. shown.y \in 0 .. VGA_HEIGHT - 1
      BY DEF FromScreen
    <3> QED
      BY <3>1, <3>2, <3>3
  <2>2. a \in Nat
    BY <1>1, <2>1
  <2>3. LineFrom(s, i, n) = Lesser(VGA_HEIGHT - 1, a + q)
    BY DEF LineFrom
  <2> HIDE DEF a, q
  <2> QED
    BY <2>1, <2>2, <2>3 DEF Lesser
<1> DEFINE n == Column(s, i)
           k == IF n = 0 THEN 0 ELSE n - 1
<1>4. n \in Nat /\ k \in Nat /\ VGA_WIDTH \in Nat
  BY <1>1, Constant
<1>5. k % VGA_WIDTH \in 0 .. VGA_WIDTH - 1
  BY <1>2, <1>4
<1>6. BehindX(s, i) = (IF n = 0 THEN 0 ELSE (k % VGA_WIDTH) + 1) /\ BehindY(s, i) = LineFrom(s, i, k)
  BY DEF BehindX, BehindY
<1>7. n % VGA_WIDTH \in 0 .. VGA_WIDTH - 1
  BY <1>2, <1>4
<1> HIDE DEF n, k
<1>8. BehindX(s, i) \in 0 .. VGA_WIDTH /\ BehindY(s, i) \in 0 .. VGA_HEIGHT - 1
  <2> DEFINE r == k % VGA_WIDTH
  <2>1. r \in 0 .. VGA_WIDTH - 1 /\ BehindX(s, i) = IF n = 0 THEN 0 ELSE r + 1
    BY <1>5, <1>6
  <2> HIDE DEF r
  <2>2. BehindX(s, i) \in 0 .. VGA_WIDTH
    BY <1>4, <2>1
  <2>3. BehindY(s, i) \in 0 .. VGA_HEIGHT - 1
    BY <1>3, <1>4, <1>6
  <2> QED
    BY <2>2, <2>3
<1> QED
  BY <1>2, <1>3, <1>7, <1>8 DEF n

\* A line is full: the next character goes to the line below, or to the last one again.
LEMMA LineIsFull ==
  ASSUME NEW s, IsSeq(s), FromScreen, NEW i \in 1 .. Len(s), BehindX(s, i) >= VGA_WIDTH
  PROVE  /\ Column(s, i) % VGA_WIDTH = 0
         /\ OnLastLine(BehindY(s, i) + 1) = LineFrom(s, i, Column(s, i))
<1> DEFINE m == VGA_WIDTH
           n == Column(s, i)
           l == LinesBefore(s, i)
           q == (n - 1) \div m
<1>1. i \in 1 .. Len(s) + 1 /\ m \in Nat \ {0}
  BY SeqFacts, Constant
<1>2. n \in Nat /\ l \in Nat
  BY <1>1, Counted
<1>3. n # 0 /\ ((n - 1) % m) + 1 >= m
  BY <1>1 DEF BehindX
<1>4. n - 1 \in Nat /\ (n - 1) + 1 = n
  BY <1>2, <1>3
<1>5. q \in Nat /\ (n - 1) % m \in 0 .. m - 1 /\ n \div m = q + 1 /\ n % m = 0
  <2> DEFINE v == n - 1
             c == " "
             y == Behind(c, v, m)
  <2>1. v \in Nat /\ c # Newline /\ y = n
    BY <1>4 DEF Newline, Behind
  <2> HIDE DEF v, c, m, n
  <2>2. LET q1 == v \div m
            r1 == v % m
            next == Behind(c, v, m)
        IN  /\ q1 \in Nat /\ r1 \in 0 .. m - 1
            /\ c = Newline \/ r1 + 1 = m => next \div m = q1 + 1 /\ next % m = 0
            /\ c # Newline /\ r1 + 1 # m => next \div m = q1 /\ next % m = r1 + 1
    BY <1>1, <2>1, BehindPlace, Zenon
  <2>3. (v % m) + 1 = m
    BY <1>1, <1>3, <2>2 DEF v
  <2> QED
    BY <2>1, <2>2, <2>3 DEF v
<1>6. BehindY(s, i) = Lesser(VGA_HEIGHT - 1, shown.y + l + q)
  BY <1>3 DEF BehindY, LineFrom
<1>7. LineFrom(s, i, n) = Lesser(VGA_HEIGHT - 1, shown.y + l + (q + 1))
  BY <1>5 DEF LineFrom
<1>8. VGA_HEIGHT \in Nat \ {0} /\ shown.y + l \in Nat
  <2>1. VGA_HEIGHT \in Nat \ {0} /\ shown.y \in Nat
    BY Constant DEF FromScreen
  <2>2. l \in Nat
    BY <1>2
  <2> HIDE DEF l
  <2> QED
    BY <2>1, <2>2
<1> DEFINE a == shown.y + l
<1> HIDE DEF a, q, l, n
<1>9. OnLastLine(Lesser(VGA_HEIGHT - 1, a + q) + 1) = Lesser(VGA_HEIGHT - 1, a + (q + 1))
  BY <1>5, <1>8 DEF OnLastLine, Lesser, a
<1>10. OnLastLine(BehindY(s, i) + 1) = LineFrom(s, i, n)
  BY <1>6, <1>7, <1>9 DEF a
<1> QED
  BY <1>5, <1>10 DEF n, m

\* There is room in the line.
LEMMA LineHasRoom ==
  ASSUME NEW s, IsSeq(s), FromScreen, NEW i \in 1 .. Len(s), BehindX(s, i) < VGA_WIDTH
  PROVE  /\ Column(s, i) % VGA_WIDTH = BehindX(s, i)
         /\ LineFrom(s, i, Column(s, i)) = BehindY(s, i)
<1> DEFINE m == VGA_WIDTH
           n == Column(s, i)
<1>1. i \in 1 .. Len(s) + 1 /\ m \in Nat \ {0}
  BY SeqFacts, Constant
<1>2. n \in Nat
  BY <1>1, Counted
<1>3. CASE n = 0
  <2>1. 0 % m = 0 /\ 0 \div m = 0
    <3>1. 0 \in Int /\ 0 \in 0 .. m - 1 /\ 0 * m + 0 = 0
      BY <1>1
    <3>2. (0 * m + 0) \div m = 0 /\ (0 * m + 0) % m = 0
      BY <1>1, <3>1, OnePlace
    <3> QED
      BY <3>1, <3>2
  <2> QED
    BY <1>3, <2>1 DEF BehindX, BehindY
<1>4. CASE n # 0
  <2> DEFINE v == n - 1
             c == " "
             y == Behind(c, v, m)
  <2>1. v \in Nat /\ c # Newline /\ y = n
    BY <1>2, <1>4 DEF Newline, Behind
  <2>2. BehindX(s, i) = (v % m) + 1 /\ BehindY(s, i) = LineFrom(s, i, v)
    BY <1>4 DEF BehindX, BehindY
  <2> HIDE DEF v, c, m, n
  <2>3. LET q1 == v \div m
            r1 == v % m
            next == Behind(c, v, m)
        IN  /\ q1 \in Nat /\ r1 \in 0 .. m - 1
            /\ c = Newline \/ r1 + 1 = m => next \div m = q1 + 1 /\ next % m = 0
            /\ c # Newline /\ r1 + 1 # m => next \div m = q1 /\ next % m = r1 + 1
    BY <1>1, <2>1, BehindPlace, Zenon
  <2>4. (v % m) + 1 # m
    BY <1>1, <2>2, <2>3 DEF m
  <2>5. n \div m = v \div m /\ n % m = (v % m) + 1
    BY <2>1, <2>3, <2>4
  <2>6. LineFrom(s, i, n) = LineFrom(s, i, v)
    BY <2>5 DEF LineFrom, m
  <2> QED
    BY <2>2, <2>5, <2>6 DEF n, m
<1> QED
  BY <1>3, <1>4

\* The first character goes where the cursor was.
LEMMA TextBegins ==
  ASSUME NEW s, IsSeq(s), FromScreen
  PROVE  BehindX(s, 1) = shown.x /\ BehindY(s, 1) = shown.y
<1> DEFINE m == VGA_WIDTH
           x == shown.x
           v == IF x = 0 THEN 0 ELSE x - 1
<1>1. m \in Nat \ {0} /\ x \in 0 .. m
  BY Constant DEF FromScreen
<1>2. FirstOfLine(s, 1) = 1 /\ LinesBefore(s, 1) = 0
  BY FirstLine, NextLines
<1>3. Column(s, 1) = x
  BY <1>1, <1>2 DEF Column
<1>4. v \in 0 .. m - 1 /\ (x # 0 => v + 1 = x)
  BY <1>1
<1>5. v \div m = 0 /\ v % m = v
  <2> HIDE DEF v, m, x
  <2>1. 0 \in Int /\ 0 * m + v = v
    BY <1>1, <1>4
  <2>2. (0 * m + v) \div m = 0 /\ (0 * m + v) % m = v
    BY <1>1, <1>4, <2>1, OnePlace
  <2> QED
    BY <2>1, <2>2
<1>6. BehindX(s, 1) = (IF x = 0 THEN 0 ELSE (v % m) + 1) /\ BehindY(s, 1) = LineFrom(s, 1, v)
  BY <1>3 DEF BehindX, BehindY
<1>7. BehindX(s, 1) = x
  BY <1>4, <1>5, <1>6
<1>8. shown.y \in Nat /\ VGA_HEIGHT \in Nat /\ shown.y <= VGA_HEIGHT - 1
  BY Constant DEF FromScreen
<1>9. BehindY(s, 1) = Lesser(VGA_HEIGHT - 1, shown.y + 0 + 0)
  BY <1>2, <1>5, <1>6 DEF LineFrom
<1> QED
  BY <1>7, <1>8, <1>9 DEF Lesser

\* A newline: the next character goes to the start of the line below the last character.
LEMMA BehindNewline ==
  ASSUME NEW s, IsSeq(s), FromScreen, NEW i \in 1 .. Len(s), s[i] = Newline
  PROVE  BehindX(s, i + 1) = 0 /\ BehindY(s, i + 1) = OnLastLine(BehindY(s, i) + 1)
<1> DEFINE n == Column(s, i)
           k == IF n = 0 THEN 0 ELSE n - 1
           q == k \div VGA_WIDTH
           a == shown.y + LinesBefore(s, i)
<1>1. /\ i \in Nat \ {0} /\ i \in 1 .. Len(s) + 1 /\ i + 1 \in 1 .. Len(s) + 1
      /\ VGA_WIDTH \in Nat \ {0} /\ VGA_HEIGHT \in Nat \ {0} /\ shown.x \in Int /\ shown.y \in Nat
  BY SeqFacts, Constant DEF FromScreen
<1>2. n \in Nat /\ LinesBefore(s, i) \in Nat /\ FirstOfLine(s, i) \in Int
  BY <1>1, Counted
<1>3. Column(s, i + 1) = 0
  BY <1>1, <1>2, NextColumn
<1>4. LinesOf(n) = q + 1 /\ q \in Nat
  <2>1. CASE n = 0
    <3>1. 0 \in Int /\ 0 \in 0 .. VGA_WIDTH - 1 /\ 0 * VGA_WIDTH + 0 = 0
      BY <1>1
    <3>2. (0 * VGA_WIDTH + 0) \div VGA_WIDTH = 0
      BY <1>1, <3>1, OnePlace
    <3> QED
      BY <2>1, <3>1, <3>2, LinesTaken
  <2>2. CASE n # 0
    <3>1. n \in Nat \ {0}
      BY <1>2, <2>2
    <3>2. (n - 1) \div VGA_WIDTH \in Nat /\ LinesOf(n) = ((n - 1) \div VGA_WIDTH) + 1
      BY <3>1, LinesTaken
    <3> QED
      BY <2>2, <3>2
  <2> QED
    BY <2>1, <2>2
<1>5. LinesBefore(s, i + 1) = LinesBefore(s, i) + (q + 1)
  BY <1>4, NextLines DEF Ends
<1>6. 0 \div VGA_WIDTH = 0
  <2>1. 0 \in Int /\ 0 \in 0 .. VGA_WIDTH - 1 /\ 0 * VGA_WIDTH + 0 = 0
    BY <1>1
  <2>2. (0 * VGA_WIDTH + 0) \div VGA_WIDTH = 0
    BY <1>1, <2>1, OnePlace
  <2> QED
    BY <2>1, <2>2
<1>7. BehindX(s, i + 1) = 0
  BY <1>3 DEF BehindX
<1>8. BehindY(s, i + 1) = Lesser(VGA_HEIGHT - 1, shown.y + (LinesBefore(s, i) + (q + 1)) + 0)
  BY <1>3, <1>5, <1>6 DEF BehindY, LineFrom
<1>9. BehindY(s, i) = Lesser(VGA_HEIGHT - 1, a + q)
  BY DEF BehindY, LineFrom
<1>10. a \in Nat /\ shown.y + (LinesBefore(s, i) + (q + 1)) + 0 = a + (q + 1)
  <2> DEFINE l == LinesBefore(s, i)
  <2>1. shown.y \in Nat /\ l \in Nat /\ q \in Nat
    BY <1>1, <1>2, <1>4, Zenon
  <2> HIDE DEF l, q
  <2>2. shown.y + l \in Nat /\ shown.y + (l + (q + 1)) + 0 = (shown.y + l) + (q + 1)
    BY <2>1
  <2> QED
    BY <2>2, Zenon DEF l
<1> HIDE DEF a, q, n, k
<1>11. OnLastLine(Lesser(VGA_HEIGHT - 1, a + q) + 1) = Lesser(VGA_HEIGHT - 1, a + (q + 1))
  BY <1>1, <1>4, <1>10 DEF OnLastLine, Lesser
<1> QED
  BY <1>7, <1>8, <1>9, <1>10, <1>11

\* A character: the next one goes behind it.
LEMMA BehindCharacter ==
  ASSUME NEW s, IsSeq(s), FromScreen, NEW i \in 1 .. Len(s), s[i] # Newline
  PROVE  /\ BehindX(s, i + 1) = (Column(s, i) % VGA_WIDTH) + 1
         /\ BehindY(s, i + 1) = LineFrom(s, i, Column(s, i))
<1> DEFINE n == Column(s, i)
<1>1. i \in Nat \ {0} /\ i \in 1 .. Len(s) + 1 /\ shown.x \in Int
  BY SeqFacts, Constant DEF FromScreen
<1>2. n \in Nat /\ FirstOfLine(s, i) \in Int /\ LinesBefore(s, i) \in Nat
  BY <1>1, Counted
<1>3. Column(s, i + 1) = n + 1
  BY <1>1, <1>2, NextColumn
<1>4. LinesBefore(s, i + 1) = LinesBefore(s, i)
  BY <1>2, NextLines DEF Ends
<1>5. n + 1 # 0 /\ (n + 1) - 1 = n
  BY <1>2
<1> HIDE DEF n
<1>6. BehindX(s, i + 1) = (n % VGA_WIDTH) + 1 /\ BehindY(s, i + 1) = LineFrom(s, i + 1, n)
  BY <1>3, <1>5 DEF BehindX, BehindY
<1>7. LineFrom(s, i + 1, n) = LineFrom(s, i, n)
  BY <1>4 DEF LineFrom
<1> QED
  BY <1>6, <1>7 DEF n

-----------------------------------------------------------------------------
(***************************************************************************)
(* The places of a text: where the cursor is before each character, and    *)
(* the cell the character goes to.                                         *)
(***************************************************************************)
Spots == [i \in 1 .. Len(job.s) + 1 |->
            [x |-> BehindX(job.s, i), y |-> BehindY(job.s, i),
             col |-> Column(job.s, i) % VGA_WIDTH,
             row |-> LineFrom(job.s, i, Column(job.s, i))]]

\* From one place to the next.
LEMMA SpotsFollow ==
  ASSUME IsSeq(job.s), FromScreen
  PROVE  /\ \A i \in 1 .. Len(job.s) + 1 :
              /\ Spots[i].x \in 0 .. VGA_WIDTH /\ Spots[i].y \in 0 .. VGA_HEIGHT - 1
              /\ Spots[i].col \in 0 .. VGA_WIDTH - 1 /\ Spots[i].row \in 0 .. VGA_HEIGHT - 1
         /\ Spots[1].x = shown.x /\ Spots[1].y = shown.y
         /\ \A i \in 1 .. Len(job.s) :
              /\ job.s[i] = Newline => /\ Spots[i + 1].x = 0
                                       /\ Spots[i + 1].y = OnLastLine(Spots[i].y + 1)
              /\ job.s[i] # Newline => /\ Spots[i + 1].x = Spots[i].col + 1
                                       /\ Spots[i + 1].y = Spots[i].row
              /\ Spots[i].x >= VGA_WIDTH => /\ Spots[i].col = 0
                                            /\ Spots[i].row = OnLastLine(Spots[i].y + 1)
              /\ Spots[i].x < VGA_WIDTH => /\ Spots[i].col = Spots[i].x
                                           /\ Spots[i].row = Spots[i].y
<1> DEFINE s == job.s
<1>1. Len(s) \in Nat
  BY SeqFacts
<1>2. \A i \in 1 .. Len(s) + 1 : /\ Spots[i].x = BehindX(s, i) /\ Spots[i].y = BehindY(s, i)
                                 /\ Spots[i].col = Column(s, i) % VGA_WIDTH
                                 /\ Spots[i].row = LineFrom(s, i, Column(s, i))
  BY DEF Spots
<1>3. IsSeq(s)
  OBVIOUS
<1>4. /\ 1 \in 1 .. Len(s) + 1
      /\ \A i \in 1 .. Len(s) : i \in 1 .. Len(s) + 1 /\ i + 1 \in 1 .. Len(s) + 1
  BY <1>1
<1>5. ASSUME NEW i \in 1 .. Len(s) + 1
      PROVE  /\ Spots[i].x \in 0 .. VGA_WIDTH /\ Spots[i].y \in 0 .. VGA_HEIGHT - 1
             /\ Spots[i].col \in 0 .. VGA_WIDTH - 1 /\ Spots[i].row \in 0 .. VGA_HEIGHT - 1
  <2> HIDE DEF s
  <2>1. Column(s, i) \in Nat
    BY <1>3, Counted
  <2>2. /\ BehindX(s, i) \in 0 .. VGA_WIDTH /\ BehindY(s, i) \in 0 .. VGA_HEIGHT - 1
        /\ Column(s, i) % VGA_WIDTH \in 0 .. VGA_WIDTH - 1
        /\ \A n \in Nat : /\ n \div VGA_WIDTH \in Nat
                          /\ LineFrom(s, i, n) \in 0 .. VGA_HEIGHT - 1
    BY <1>3, BehindTypes
  <2>3. LineFrom(s, i, Column(s, i)) \in 0 .. VGA_HEIGHT - 1
    BY <2>1, <2>2
  <2> QED
    BY <1>2, <2>2, <2>3
<1>6. Spots[1].x = shown.x /\ Spots[1].y = shown.y
  <2> HIDE DEF s
  <2>1. BehindX(s, 1) = shown.x /\ BehindY(s, 1) = shown.y
    BY <1>3, TextBegins
  <2> QED
    BY <1>2, <1>4, <2>1
<1>7. ASSUME NEW i \in 1 .. Len(s)
      PROVE  /\ s[i] = Newline => /\ Spots[i + 1].x = 0
                                  /\ Spots[i + 1].y = OnLastLine(Spots[i].y + 1)
             /\ s[i] # Newline => /\ Spots[i + 1].x = Spots[i].col + 1
                                  /\ Spots[i + 1].y = Spots[i].row
  <2> HIDE DEF s
  <2>1. s[i] = Newline =>
          BehindX(s, i + 1) = 0 /\ BehindY(s, i + 1) = OnLastLine(BehindY(s, i) + 1)
    BY <1>3, BehindNewline
  <2>2. s[i] # Newline => /\ BehindX(s, i + 1) = (Column(s, i) % VGA_WIDTH) + 1
                          /\ BehindY(s, i + 1) = LineFrom(s, i, Column(s, i))
    BY <1>3, BehindCharacter
  <2>3. i \in 1 .. Len(s) + 1 /\ i + 1 \in 1 .. Len(s) + 1
    BY <1>4
  <2> QED
    BY <1>2, <2>1, <2>2, <2>3
<1>8. ASSUME NEW i \in 1 .. Len(s)
      PROVE  /\ Spots[i].x >= VGA_WIDTH => /\ Spots[i].col = 0
                                           /\ Spots[i].row = OnLastLine(Spots[i].y + 1)
             /\ Spots[i].x < VGA_WIDTH => /\ Spots[i].col = Spots[i].x
                                          /\ Spots[i].row = Spots[i].y
  <2> HIDE DEF s
  <2>1. BehindX(s, i) >= VGA_WIDTH =>
          /\ Column(s, i) % VGA_WIDTH = 0
          /\ OnLastLine(BehindY(s, i) + 1) = LineFrom(s, i, Column(s, i))
    BY <1>3, LineIsFull
  <2>2. BehindX(s, i) < VGA_WIDTH =>
          /\ Column(s, i) % VGA_WIDTH = BehindX(s, i)
          /\ LineFrom(s, i, Column(s, i)) = BehindY(s, i)
    BY <1>3, LineHasRoom
  <2>3. i \in 1 .. Len(s) + 1
    BY <1>4
  <2> QED
    BY <1>2, <2>1, <2>2, <2>3
<1>9. ASSUME NEW i \in 1 .. Len(s)
      PROVE  /\ s[i] = Newline => /\ Spots[i + 1].x = 0
                                  /\ Spots[i + 1].y = OnLastLine(Spots[i].y + 1)
             /\ s[i] # Newline => /\ Spots[i + 1].x = Spots[i].col + 1
                                  /\ Spots[i + 1].y = Spots[i].row
             /\ Spots[i].x >= VGA_WIDTH => /\ Spots[i].col = 0
                                           /\ Spots[i].row = OnLastLine(Spots[i].y + 1)
             /\ Spots[i].x < VGA_WIDTH => /\ Spots[i].col = Spots[i].x
                                          /\ Spots[i].row = Spots[i].y
  BY <1>7, <1>8
<1> QED
  BY <1>5, <1>6, <1>9, Zenon

-----------------------------------------------------------------------------
(***************************************************************************)
(* The cells of the screen and their places.                               *)
(***************************************************************************)
\* A cell of the screen is a word of it, in its row and column.
LEMMA CellPlace ==
  ASSUME NEW x \in 0 .. VGA_WIDTH - 1, NEW y \in 0 .. VGA_HEIGHT - 1
  PROVE  /\ CellAt(x, y) \in TextWords
         /\ CellAt(x, y) % VGA_WIDTH = x /\ CellAt(x, y) \div VGA_WIDTH = y
<1>1. VGA_WIDTH \in Nat \ {0} /\ y \in Int
  BY Constant
<1>2. (y * VGA_WIDTH + x) \div VGA_WIDTH = y /\ (y * VGA_WIDTH + x) % VGA_WIDTH = x
  BY <1>1, OnePlace
<1> QED
  BY <1>2, CellInside DEF CellAt

\* Every word of the screen is the cell of one place.
LEMMA PlaceOfCell ==
  ASSUME NEW k \in TextWords
  PROVE  /\ k % VGA_WIDTH \in 0 .. VGA_WIDTH - 1 /\ k \div VGA_WIDTH \in 0 .. VGA_HEIGHT - 1
         /\ CellAt(k % VGA_WIDTH, k \div VGA_WIDTH) = k
<1> DEFINE m == VGA_WIDTH
           q == k \div m
<1>1. m \in Nat \ {0} /\ VGA_HEIGHT \in Nat \ {0} /\ k \in 0 .. VGA_HEIGHT * m - 1
  <2>1. VGA_HEIGHT * VGA_WIDTH = VGA_WIDTH * VGA_HEIGHT
    BY Constant
  <2> QED
    BY <2>1, Constant DEF TextWords, Cells
<1>2. q \in 0 .. VGA_HEIGHT - 1 /\ k % m \in 0 .. m - 1
  <2> HIDE DEF m
  <2>1. k \div m \in 0 .. VGA_HEIGHT - 1 /\ k % m \in 0 .. m - 1
    BY <1>1, RowAndColumn
  <2> QED
    BY <2>1
<1>3. k = q * m + (k % m)
  <2>1. k = m * q + (k % m) /\ q \in Int
    BY <1>1, SMTT(30)
  <2>2. m * q = q * m
    <3> HIDE DEF q, m
    <3> QED
      BY <2>1, <1>1
  <2> QED
    BY <2>1, <2>2, <1>2
<1> QED
  BY <1>2, <1>3 DEF CellAt

-----------------------------------------------------------------------------
(***************************************************************************)
(* The cells a text has written: the last character that sits in a cell,   *)
(* and what was there before where there is none.                          *)
(***************************************************************************)
\* The characters among the first d that sit in a cell.
Sits(s, at, k, d) == {i \in 1 .. d : s[i] # Newline /\ at[i] = k}
Printed(picture, old, s, at, attr, d) ==
  \A k \in DOMAIN old :
    \/ Sits(s, at, k, d) = {} /\ picture[k] = old[k]
    \/ \E i \in Sits(s, at, k, d) : /\ \A j \in Sits(s, at, k, d) : i >= j
                                    /\ picture[k] = [char |-> s[i], attr |-> attr]

\* Before the first character nothing is written.
LEMMA NothingPrinted == ASSUME NEW old, NEW s, NEW at, NEW attr PROVE Printed(old, old, s, at, attr, 0)
<1>1. \A k : Sits(s, at, k, 0) = {}
  BY DEF Sits
<1> QED
  BY <1>1 DEF Printed

\* A newline sits nowhere.
LEMMA NewlinePrinted ==
  ASSUME NEW picture, NEW old, NEW s, NEW at, NEW attr, NEW d \in Nat, s[d + 1] = Newline,
         Printed(picture, old, s, at, attr, d)
  PROVE  Printed(picture, old, s, at, attr, d + 1)
<1>1. 1 .. d + 1 = (1 .. d) \cup {d + 1}
  OBVIOUS
<1>2. \A k : Sits(s, at, k, d + 1) = Sits(s, at, k, d)
  BY <1>1 DEF Sits
<1> QED
  BY <1>2 DEF Printed

\* A character is stored in its cell, whatever sat there before it.
LEMMA PrintsOne ==
  ASSUME NEW picture, NEW old, DOMAIN picture = DOMAIN old, NEW s, NEW at, NEW attr,
         NEW d \in Nat, s[d + 1] # Newline, at[d + 1] \in DOMAIN old,
         Printed(picture, old, s, at, attr, d)
  PROVE  Printed(Store(picture, at[d + 1], [char |-> s[d + 1], attr |-> attr]),
                 old, s, at, attr, d + 1)
<1> DEFINE n == d + 1
           cell == [char |-> s[n], attr |-> attr]
           new == Store(picture, at[n], cell)
<1>1. 1 .. n = (1 .. d) \cup {n} /\ n \in Nat /\ \A j \in 1 .. d : n >= j
  OBVIOUS
<1>2. \A k \in DOMAIN old : new[k] = IF k = at[n] THEN cell ELSE picture[k]
  BY DEF Store
<1> HIDE DEF n
<1>3. ASSUME NEW k \in DOMAIN old, k = at[n]
      PROVE  \E i \in Sits(s, at, k, n) : /\ \A j \in Sits(s, at, k, n) : i >= j
                                          /\ new[k] = [char |-> s[i], attr |-> attr]
  <2>1. n \in Sits(s, at, k, n)
    BY <1>1, <1>3 DEF Sits, n
  <2>2. \A j \in Sits(s, at, k, n) : n >= j
    BY <1>1 DEF Sits
  <2>3. new[k] = [char |-> s[n], attr |-> attr]
    BY <1>2, <1>3
  <2> QED
    BY <2>1, <2>2, <2>3
<1>4. ASSUME NEW k \in DOMAIN old, k # at[n]
      PROVE  Sits(s, at, k, n) = Sits(s, at, k, d) /\ new[k] = picture[k]
  BY <1>1, <1>2, <1>4 DEF Sits
<1> HIDE DEF new
<1>5. Printed(new, old, s, at, attr, n)
  <2> SUFFICES ASSUME NEW k \in DOMAIN old
               PROVE  \/ Sits(s, at, k, n) = {} /\ new[k] = old[k]
                      \/ \E i \in Sits(s, at, k, n) :
                           /\ \A j \in Sits(s, at, k, n) : i >= j
                           /\ new[k] = [char |-> s[i], attr |-> attr]
    BY DEF Printed
  <2>1. CASE k = at[n]
    BY <1>3, <2>1
  <2>2. CASE k # at[n]
    <3>1. Sits(s, at, k, n) = Sits(s, at, k, d) /\ new[k] = picture[k]
      BY <1>4, <2>2
    <3>2. \/ Sits(s, at, k, d) = {} /\ picture[k] = old[k]
          \/ \E i \in Sits(s, at, k, d) : /\ \A j \in Sits(s, at, k, d) : i >= j
                                          /\ picture[k] = [char |-> s[i], attr |-> attr]
      BY DEF Printed
    <3> QED
      BY <3>1, <3>2
  <2> QED
    BY <2>1, <2>2
<1> QED
  BY <1>5 DEF new, n

\* What a word holds, then.
LEMMA PrintedWord ==
  ASSUME NEW picture, NEW old, NEW s, NEW at, NEW attr, NEW d \in Nat,
         Printed(picture, old, s, at, attr, d), NEW k \in DOMAIN old
  PROVE  picture[k] = IF Sits(s, at, k, d) = {} THEN old[k]
                      ELSE [char |-> s[Max(Sits(s, at, k, d))], attr |-> attr]
<1> DEFINE here == Sits(s, at, k, d)
<1>1. here \subseteq Int
  BY DEF Sits
<1>2. \/ here = {} /\ picture[k] = old[k]
      \/ \E i \in here : /\ \A j \in here : i >= j
                         /\ picture[k] = [char |-> s[i], attr |-> attr]
  BY DEF Printed
<1> HIDE DEF here
<1>3. CASE here = {}
  BY <1>2, <1>3 DEF here
<1>4. CASE here # {}
  <2>1. PICK i \in here : /\ \A j \in here : i >= j
                          /\ picture[k] = [char |-> s[i], attr |-> attr]
    BY <1>2, <1>4
  <2>2. Max(here) = i
    BY <1>1, <2>1, MaxIs
  <2> QED
    BY <1>4, <2>1, <2>2 DEF here
<1> QED
  BY <1>3, <1>4

-----------------------------------------------------------------------------
(***************************************************************************)
(* The cells a shape has still to write: they hold what the call asks for, *)
(* or a word with that is in line.                                         *)
(***************************************************************************)
Pending(picture, old, ask, writes) ==
  /\ IsSeq(writes)
  /\ \A i \in DOMAIN writes :
       /\ writes[i].at \in TextWords
       /\ ask[writes[i].at] = [char |-> writes[i].char, attr |-> writes[i].attr]
  /\ \A k \in TextWords : \/ picture[k] = ask[k]
                          \/ \E i \in DOMAIN writes : writes[i].at = k
  /\ \A k \in DOMAIN old \ TextWords : picture[k] = old[k]

\* One more word of the shape is stored.
LEMMA StoresOne ==
  ASSUME NEW picture, NEW old, DOMAIN picture = DOMAIN old, TextWords \subseteq DOMAIN old,
         NEW ask, NEW writes, writes # <<>>, Pending(picture, old, ask, writes)
  PROVE  /\ Head(writes).at \in TextWords
         /\ Pending(Store(picture, Head(writes).at,
                          [char |-> Head(writes).char, attr |-> Head(writes).attr]),
                    old, ask, Tail(writes))
<1> DEFINE first == Head(writes)
           rest == Tail(writes)
           cell == [char |-> first.char, attr |-> first.attr]
           new == Store(picture, first.at, cell)
<1>1. IsSeq(writes) /\ 1 \in DOMAIN writes /\ first = writes[1] /\ DOMAIN writes = 1 .. Len(writes)
      /\ Len(writes) \in Nat
  BY SeqFacts DEF Pending
<1>2. IsSeq(rest) /\ \A i \in DOMAIN rest : i + 1 \in DOMAIN writes /\ rest[i] = writes[i + 1]
  BY <1>1, TailFacts
<1>3. \A i \in DOMAIN writes : i # 1 => i - 1 \in DOMAIN rest /\ rest[i - 1] = writes[i]
  <2> TAKE i \in DOMAIN writes
  <2> HAVE i # 1
  <2>1. DOMAIN rest = 1 .. Len(writes) - 1
    <3>1. PICK S : writes \in Seq(S)
      BY <1>1 DEF IsSeq
    <3> QED
      BY <3>1
  <2>2. i - 1 \in DOMAIN rest /\ (i - 1) + 1 = i
    BY <1>1, <2>1
  <2> QED
    BY <1>2, <2>2
<1>4. first.at \in TextWords /\ cell = ask[first.at]
  BY <1>1 DEF Pending
<1>5. \A k \in DOMAIN old : new[k] = IF k = first.at THEN cell ELSE picture[k]
  BY DEF Store
<1> HIDE DEF first, rest, cell, new
<1>6. \A i \in DOMAIN rest :
        /\ rest[i].at \in TextWords
        /\ ask[rest[i].at] = [char |-> rest[i].char, attr |-> rest[i].attr]
  BY <1>2 DEF Pending
<1>7. ASSUME NEW k \in TextWords
      PROVE  new[k] = ask[k] \/ \E i \in DOMAIN rest : rest[i].at = k
  <2>1. CASE k = first.at
    BY <1>4, <1>5, <2>1
  <2>2. CASE k # first.at /\ picture[k] = ask[k]
    BY <1>5, <2>2
  <2>3. CASE k # first.at /\ picture[k] # ask[k]
    <3>1. PICK i \in DOMAIN writes : writes[i].at = k
      BY <1>7, <2>3 DEF Pending
    <3>2. i # 1
      BY <1>1, <2>3, <3>1
    <3> QED
      BY <1>3, <3>1, <3>2
  <2> QED
    BY <2>1, <2>2, <2>3
<1>8. ASSUME NEW k \in DOMAIN old \ TextWords PROVE new[k] = old[k]
  <2>1. k # first.at
    BY <1>4, <1>8
  <2>2. picture[k] = old[k]
    BY <1>8 DEF Pending
  <2> QED
    BY <1>5, <1>8, <2>1, <2>2
<1>9. Pending(new, old, ask, rest)
  BY <1>2, <1>6, <1>7, <1>8 DEF Pending
<1> QED
  BY <1>4, <1>9 DEF first, rest, cell, new

\* With no word left in line the screen holds what was asked for.
LEMMA AllStored ==
  ASSUME NEW picture, NEW old, NEW ask, Pending(picture, old, ask, <<>>)
  PROVE  /\ \A k \in TextWords : picture[k] = ask[k]
         /\ \A k \in DOMAIN old \ TextWords : picture[k] = old[k]
<1>1. DOMAIN <<>> = {}
  OBVIOUS
<1> QED
  BY <1>1 DEF Pending

\* What is in line, said by the words alone.
LEMMA PendingWords ==
  ASSUME NEW old, NEW ask, NEW writes, IsSeq(writes),
         \A e \in Range(writes) : /\ e.at \in TextWords
                                  /\ ask[e.at] = [char |-> e.char, attr |-> e.attr],
         \A k \in TextWords : ask[k] = old[k] \/ \E e \in Range(writes) : e.at = k
  PROVE  Pending(old, old, ask, writes)
<1>1. \A i \in DOMAIN writes : writes[i] \in Range(writes)
  BY DEF Range
<1>2. \A e \in Range(writes) : \E i \in DOMAIN writes : writes[i] = e
  BY DEF Range
<1>3. \A i \in DOMAIN writes :
        /\ writes[i].at \in TextWords
        /\ ask[writes[i].at] = [char |-> writes[i].char, attr |-> writes[i].attr]
  BY <1>1
<1>4. \A k \in TextWords : old[k] = ask[k] \/ \E i \in DOMAIN writes : writes[i].at = k
  BY <1>2
<1> QED
  BY <1>3, <1>4 DEF Pending

\* A word of the screen is written by the one after it, counted from 1.
LEMMA CellIndex == \A k \in TextWords : k + 1 \in 1 .. Cells /\ (k + 1) - 1 = k
<1>1. Cells \in Nat
  BY Constant, Product DEF Cells
<1> QED
  BY <1>1 DEF TextWords

\* vga_clear writes a space to every cell (vga.c:10-16).
LEMMA ClearPending ==
  ASSUME NEW old, NEW ask,
         \A k \in TextWords : ask[k] = [char |-> " ", attr |-> vga_attr]
  PROVE  Pending(old, old, ask, VgaClearWrites)
<1> DEFINE f == VgaClearWrites
<1>1. IsSeq(f) /\ \A i \in DOMAIN f : f[i].at \in TextWords
  BY VgaClearInside DEF Inside
<1>2. f = [i \in 1 .. Cells |-> [at |-> i - 1, char |-> " ", attr |-> vga_attr]]
  BY DEF VgaClearWrites
<1> HIDE DEF f
<1>3. \A i \in DOMAIN f : f[i].char = " " /\ f[i].attr = vga_attr
  BY <1>2
<1>4. ASSUME NEW k \in TextWords PROVE k + 1 \in DOMAIN f /\ f[k + 1].at = k
  <2> DEFINE i == k + 1
  <2>1. i \in 1 .. Cells /\ i - 1 = k
    BY CellIndex, Zenon
  <2> HIDE DEF i
  <2>2. i \in DOMAIN f /\ f[i].at = i - 1
    BY <1>2, <2>1
  <2> QED
    BY <2>1, <2>2 DEF i
<1>5. Pending(old, old, ask, f)
  <2>1. \A i \in DOMAIN f : /\ f[i].at \in TextWords
                           /\ ask[f[i].at] = [char |-> f[i].char, attr |-> f[i].attr]
    BY <1>1, <1>3
  <2>2. \A k \in TextWords : \E i \in DOMAIN f : f[i].at = k
    BY <1>4
  <2> QED
    BY <1>1, <2>1, <2>2, Zenon DEF Pending
<1> QED
  BY <1>5 DEF f

\* The attribute of a colour on itself.
LEMMA BlockAttr == ASSUME NEW c \in 0 .. 15 PROVE Attr(c, c) = 17 * c
<1>1. (c * 16) % 256 = c * 16 /\ c % 16 = c
  OBVIOUS
<1>2. c * 16 + c = 17 * c
  OBVIOUS
<1> QED
  BY <1>1, <1>2 DEF Attr

\* Where a loop ends that stops at an edge.
LEMMA EndOfLoop ==
  ASSUME NEW x \in Nat, NEW w \in Int, NEW m \in Nat
  PROVE  /\ Lesser(x + w, m) \in Int /\ Lesser(x + w, m) <= m
         /\ \A a \in 0 .. m - 1 : a \in x .. Lesser(x + w, m) - 1 <=> x <= a /\ a < x + w
<1> DEFINE e == x + w
<1>1. e \in Int
  OBVIOUS
<1> HIDE DEF e
<1> QED
  BY <1>1 DEF Lesser, e

\* vga_draw_rect fills the part of the rectangle that is on the screen (vga.c:22-32).
LEMMA TextRectPending ==
  ASSUME NEW x \in Nat, NEW y \in Nat, NEW w \in Int, NEW h \in Int, NEW c \in 0 .. 15,
         NEW old, NEW ask,
         \A k \in TextWords :
           ask[k] = IF InBox(<<k % VGA_WIDTH, k \div VGA_WIDTH>>, x, y, w, h)
                    THEN [char |-> "block", attr |-> 17 * c] ELSE old[k]
  PROVE  Pending(old, old, ask, VgaRectWrites(x, y, w, h, c))
<1> DEFINE right == Lesser(x + w, VGA_WIDTH)
           bottom == Lesser(y + h, VGA_HEIGHT)
           points == Raster(y, bottom, x, right)
           f == VgaRectWrites(x, y, w, h, c)
<1>1. f = [i \in DOMAIN points |-> [at |-> CellAt(points[i][2], points[i][1]),
                                    char |-> "block", attr |-> Attr(c, c)]]
  BY DEF VgaRectWrites
<1>2. IsSeq(f) /\ \A i \in DOMAIN f : f[i].at \in TextWords
  BY VgaRectInside DEF Inside
<1>3. VGA_WIDTH \in Nat /\ VGA_HEIGHT \in Nat
  BY Constant
<1>4. right \in Int /\ right <= VGA_WIDTH /\ bottom \in Int /\ bottom <= VGA_HEIGHT
  BY <1>3, EndOfLoop, Zenon
<1>5. /\ \A a \in 0 .. VGA_WIDTH - 1 : a \in x .. right - 1 <=> x <= a /\ a < x + w
      /\ \A b \in 0 .. VGA_HEIGHT - 1 : b \in y .. bottom - 1 <=> y <= b /\ b < y + h
  BY <1>3, EndOfLoop, Zenon
<1>6. Range(points) = (y .. bottom - 1) \X (x .. right - 1)
  <2> HIDE DEF right, bottom
  <2>1. x \in Int /\ y \in Int /\ right \in Int /\ bottom \in Int
    BY <1>4
  <2>2. Range(Raster(y, bottom, x, right)) = (y .. bottom - 1) \X (x .. right - 1)
    BY <2>1, RasterRange
  <2> QED
    BY <2>2
<1>7. Attr(c, c) = 17 * c
  BY BlockAttr
<1> HIDE DEF right, bottom, points, f
<1>8. ASSUME NEW e \in Range(f)
      PROVE  e.at \in TextWords /\ ask[e.at] = [char |-> e.char, attr |-> e.attr]
  <2>1. PICK i \in DOMAIN f : e = f[i]
    BY DEF Range
  <2>2. i \in DOMAIN points /\ e = [at |-> CellAt(points[i][2], points[i][1]),
                                    char |-> "block", attr |-> Attr(c, c)]
    BY <1>1, <2>1
  <2>3. points[i] \in (y .. bottom - 1) \X (x .. right - 1)
    BY <1>6, <2>2 DEF Range
  <2> DEFINE a == points[i][2]
             b == points[i][1]
  <2>4. a \in x .. right - 1 /\ b \in y .. bottom - 1
    BY <2>3
  <2> HIDE DEF a, b
  <2>5. a \in 0 .. VGA_WIDTH - 1 /\ b \in 0 .. VGA_HEIGHT - 1
    BY <1>3, <1>4, <2>4
  <2>6. e.at = CellAt(a, b) /\ e.char = "block" /\ e.attr = 17 * c
    BY <1>7, <2>2 DEF a, b
  <2>7. e.at \in TextWords /\ e.at % VGA_WIDTH = a /\ e.at \div VGA_WIDTH = b
    BY <2>5, <2>6, CellPlace
  <2>8. InBox(<<a, b>>, x, y, w, h)
    BY <1>5, <2>4, <2>5 DEF InBox
  <2> QED
    BY <2>6, <2>7, <2>8
<1>9. ASSUME NEW k \in TextWords
      PROVE  ask[k] = old[k] \/ \E e \in Range(f) : e.at = k
  <2> DEFINE a == k % VGA_WIDTH
             b == k \div VGA_WIDTH
  <2>1. a \in 0 .. VGA_WIDTH - 1 /\ b \in 0 .. VGA_HEIGHT - 1 /\ CellAt(a, b) = k
    BY PlaceOfCell
  <2>2. ask[k] = IF InBox(<<a, b>>, x, y, w, h)
                 THEN [char |-> "block", attr |-> 17 * c] ELSE old[k]
    OBVIOUS
  <2> HIDE DEF a, b
  <2>3. ASSUME InBox(<<a, b>>, x, y, w, h) PROVE \E e \in Range(f) : e.at = k
    <3>1. a \in x .. right - 1 /\ b \in y .. bottom - 1
      BY <1>5, <2>1, <2>3 DEF InBox
    <3>2. <<b, a>> \in Range(points)
      BY <1>6, <3>1
    <3>3. PICK i \in DOMAIN points : points[i] = <<b, a>>
      BY <3>2 DEF Range
    <3>4. i \in DOMAIN f /\ f[i].at = CellAt(a, b)
      BY <1>1, <3>3
    <3> QED
      BY <2>1, <3>4 DEF Range
  <2> QED
    BY <2>2, <2>3
<1>10. Pending(old, old, ask, f)
  BY <1>2, <1>8, <1>9, PendingWords
<1> QED
  BY <1>10 DEF f

\* The words of a box that fits: its top and bottom, and its sides between them.
BoxTop(x, y, w, h) == {[at |-> CellAt(a, b), char |-> "=", attr |-> vga_attr] :
                         a \in x .. (x + w) - 1, b \in {y, (y + h) - 1}}
BoxSide(x, y, w, h) == {[at |-> CellAt(a, b), char |-> "|", attr |-> vga_attr] :
                          a \in {x, (x + w) - 1}, b \in y + 1 .. (y + h) - 2}

\* vga_draw_box stores those words and no others (vga.c:145-167).
LEMMA BoxWords ==
  ASSUME NEW x \in Nat, NEW y \in Nat, NEW w \in Nat \ {0}, NEW h \in Nat \ {0},
         x + w <= VGA_WIDTH, y + h <= VGA_HEIGHT
  PROVE  Range(VgaBoxWrites(x, y, w, h)) = BoxTop(x, y, w, h) \cup BoxSide(x, y, w, h)
<1> DEFINE along(row) == [i \in 1 .. w |-> [at |-> CellAt(x + i - 1, row), char |-> "=",
                                            attr |-> vga_attr]]
           side(col, row) == [at |-> CellAt(col, row), char |-> "|", attr |-> vga_attr]
           down  == Counting(y + 1, y + h - 1)
           sides == [i \in DOMAIN down |-> <<side(x, down[i]), side(x + w - 1, down[i])>>]
           top(row) == {[at |-> CellAt(a, row), char |-> "=", attr |-> vga_attr] :
                          a \in x .. (x + w) - 1}
           T == BoxTop(x, y, w, h) \cup BoxSide(x, y, w, h)
<1>1. VgaBoxWrites(x, y, w, h) = along(y) \o along(y + h - 1) \o FlattenSeq(sides)
  BY Constant DEF VgaBoxWrites
<1>2. y + h - 1 = (y + h) - 1 /\ x + w - 1 = (x + w) - 1 /\ w \in Nat
  OBVIOUS
<1>3. ASSUME NEW row PROVE Range(along(row)) = top(row)
  <2>1. \A i \in 1 .. w : x + i - 1 \in x .. (x + w) - 1
    OBVIOUS
  <2>2. \A a \in x .. (x + w) - 1 : (a - x) + 1 \in 1 .. w /\ x + ((a - x) + 1) - 1 = a
    OBVIOUS
  <2>3. \A i \in 1 .. w : along(row)[i] \in top(row)
    BY <2>1
  <2>4. \A a \in x .. (x + w) - 1 :
          [at |-> CellAt(a, row), char |-> "=", attr |-> vga_attr] \in Range(along(row))
    <3> TAKE a \in x .. (x + w) - 1
    <3> DEFINE i == (a - x) + 1
    <3>1. i \in 1 .. w /\ x + i - 1 = a
      BY <2>2
    <3> HIDE DEF i
    <3>2. along(row)[i] = [at |-> CellAt(a, row), char |-> "=", attr |-> vga_attr]
      BY <3>1
    <3>3. i \in DOMAIN along(row)
      BY <3>1
    <3> QED
      BY <3>2, <3>3 DEF Range
  <2>5. DOMAIN along(row) = 1 .. w
    OBVIOUS
  <2> HIDE DEF along
  <2>6. Range(along(row)) \subseteq top(row)
    BY <2>3, <2>5 DEF Range
  <2>7. top(row) \subseteq Range(along(row))
    BY <2>4
  <2> QED
    BY <2>6, <2>7
<1>4. \A row \in {y, (y + h) - 1} : along(row) \in Seq(T)
  <2> TAKE row \in {y, (y + h) - 1}
  <2>1. \A i \in 1 .. w : x + i - 1 \in x .. (x + w) - 1
    OBVIOUS
  <2>2. \A i \in 1 .. w : along(row)[i] \in BoxTop(x, y, w, h)
    BY <2>1 DEF BoxTop
  <2>3. along(row) \in [1 .. w -> T]
    BY <2>2
  <2> HIDE DEF along, T
  <2> QED
    BY <1>2, <2>3, SeqOfFunction
<1>5. down \in Seq(Int) /\ Range(down) = y + 1 .. (y + h) - 2
  <2>1. down \in Seq(y + 1 .. y + h - 1 - 1)
    BY CountingTyped
  <2>2. Range(down) = y + 1 .. y + h - 1 - 1
    BY CountingRange
  <2>3. y + h - 1 - 1 = (y + h) - 2 /\ y + 1 .. y + h - 1 - 1 \subseteq Int
    OBVIOUS
  <2> HIDE DEF down
  <2> QED
    BY <2>1, <2>2, <2>3
<1> HIDE DEF down
<1>6. /\ Len(down) \in Nat /\ DOMAIN down = 1 .. Len(down)
      /\ \A i \in 1 .. Len(down) : down[i] \in y + 1 .. (y + h) - 2
  BY <1>5 DEF Range
<1>7. \A i \in 1 .. Len(down) : side(x, down[i]) \in T /\ side(x + w - 1, down[i]) \in T
  BY <1>2, <1>6 DEF BoxSide
<1> HIDE DEF T
<1>8. ASSUME NEW i \in 1 .. Len(down)
      PROVE  sides[i] \in Seq(T) /\ Range(sides[i]) = {side(x, down[i]), side(x + w - 1, down[i])}
  <2>1. sides[i] = <<side(x, down[i]), side(x + w - 1, down[i])>>
    BY <1>6
  <2>2. side(x, down[i]) \in T /\ side(x + w - 1, down[i]) \in T
    BY <1>7
  <2> HIDE DEF side, sides
  <2>3. Range(sides[i]) = {side(x, down[i]), side(x + w - 1, down[i])}
    BY <2>1, TwoRange
  <2> QED
    BY <2>1, <2>2, <2>3
<1>9. IsSeq(sides) /\ DOMAIN sides = 1 .. Len(down)
  <2>1. sides \in [1 .. Len(down) -> Seq(T)]
    BY <1>6, <1>8
  <2> HIDE DEF sides
  <2>2. sides \in Seq(Seq(T)) /\ DOMAIN sides = 1 .. Len(down)
    BY <1>6, <2>1, SeqOfFunction, Zenon
  <2> QED
    BY <2>2 DEF IsSeq
<1> HIDE DEF sides
<1>10. Range(FlattenSeq(sides)) = UNION {Range(sides[i]) : i \in 1 .. Len(down)}
  BY <1>8, <1>9, FlattenRange
<1>11. FlattenSeq(sides) \in Seq(T)
  BY <1>8, <1>9, FlattenTyped
<1>12. UNION {Range(sides[i]) : i \in 1 .. Len(down)} = BoxSide(x, y, w, h)
  <2>1. ASSUME NEW e \in BoxSide(x, y, w, h)
        PROVE  \E i \in 1 .. Len(down) : e \in Range(sides[i])
    <3>1. PICK a \in {x, (x + w) - 1}, b \in y + 1 .. (y + h) - 2 :
            e = [at |-> CellAt(a, b), char |-> "|", attr |-> vga_attr]
      BY DEF BoxSide
    <3>2. PICK i \in 1 .. Len(down) : down[i] = b
      BY <1>5, <1>6 DEF Range
    <3>3. e \in {side(x, down[i]), side(x + w - 1, down[i])}
      BY <1>2, <3>1, <3>2
    <3> QED
      BY <1>8, <3>3
  <2>2. ASSUME NEW i \in 1 .. Len(down), NEW e \in Range(sides[i])
        PROVE  e \in BoxSide(x, y, w, h)
    <3>1. e \in {side(x, down[i]), side(x + w - 1, down[i])}
      BY <1>8
    <3> QED
      BY <1>2, <1>6, <3>1 DEF BoxSide
  <2> QED
    BY <2>1, <2>2
<1>13. top(y) \cup top((y + h) - 1) = BoxTop(x, y, w, h)
  BY DEF BoxTop
<1>14. along(y) \in Seq(T) /\ along(y + h - 1) \in Seq(T)
  BY <1>2, <1>4
<1>15. Range(along(y)) = top(y) /\ Range(along(y + h - 1)) = top((y + h) - 1)
  BY <1>2, <1>3
<1> DEFINE s == along(y)
           t == along(y + h - 1)
           u == FlattenSeq(sides)
<1>16. s \in Seq(T) /\ t \in Seq(T) /\ u \in Seq(T)
  BY <1>11, <1>14
<1>17. Range(s) \cup Range(t) = BoxTop(x, y, w, h) /\ Range(u) = BoxSide(x, y, w, h)
  BY <1>10, <1>12, <1>13, <1>15
<1>18. VgaBoxWrites(x, y, w, h) = s \o t \o u
  BY <1>1
<1> HIDE DEF s, t, u
<1>19. Range(s \o t) = Range(s) \cup Range(t) /\ s \o t \in Seq(T)
  BY <1>16, ConcatRange
<1> DEFINE v == s \o t
<1>20. v \in Seq(T) /\ Range(v) = BoxTop(x, y, w, h)
  BY <1>17, <1>19
<1>21. VgaBoxWrites(x, y, w, h) = v \o u
  BY <1>18
<1> HIDE DEF v
<1>22. Range(v \o u) = Range(v) \cup Range(u)
  BY <1>16, <1>20, ConcatRange
<1> QED
  BY <1>17, <1>20, <1>21, <1>22

\* The points of a box, from edge to edge.
LEMMA BoxPoints ==
  ASSUME NEW x \in Nat, NEW y \in Nat, NEW w \in Nat \ {0}, NEW h \in Nat \ {0},
         NEW m \in Nat, NEW n \in Nat
  PROVE  \A a \in 0 .. m - 1, b \in 0 .. n - 1 :
           InBox(<<a, b>>, x, y, w, h)
             <=> x <= a /\ a <= (x + w) - 1 /\ y <= b /\ b <= (y + h) - 1
BY DEF InBox

\* What a box asks of the words of the screen.
BoxAsked(ask, old, x, y, w, h) ==
  \A k \in TextWords :
    ask[k] = IF x + w > VGA_WIDTH \/ y + h > VGA_HEIGHT
                \/ ~InBox(<<k % VGA_WIDTH, k \div VGA_WIDTH>>, x, y, w, h) THEN old[k]
             ELSE IF k \div VGA_WIDTH \in {y, y + h - 1}
                  THEN [char |-> "=", attr |-> vga_attr]
             ELSE IF k % VGA_WIDTH \in {x, x + w - 1}
                  THEN [char |-> "|", attr |-> vga_attr]
             ELSE old[k]

\* vga_draw_box draws the edge of a box that fits, and nothing of one that does not
\* (vga.c:145-167).
LEMMA BoxPending ==
  ASSUME NEW x \in Nat, NEW y \in Nat, NEW w \in Nat \ {0}, NEW h \in Nat \ {0},
         NEW old, NEW ask, BoxAsked(ask, old, x, y, w, h)
  PROVE  Pending(old, old, ask, VgaBoxWrites(x, y, w, h))
<1> DEFINE f == VgaBoxWrites(x, y, w, h)
<1>1. IsSeq(f) /\ \A i \in DOMAIN f : f[i].at \in TextWords
  BY VgaBoxInside DEF Inside
<1>2. CASE x + w > VGA_WIDTH \/ y + h > VGA_HEIGHT
  <2>1. f = <<>>
    BY <1>2 DEF VgaBoxWrites
  <2>2. \A k \in TextWords : ask[k] = old[k]
    BY <1>2 DEF BoxAsked
  <2>3. Range(f) = {}
    BY <2>1 DEF Range
  <2> HIDE DEF f
  <2>4. Pending(old, old, ask, f)
    BY <1>1, <2>2, <2>3, PendingWords
  <2> QED
    BY <2>4 DEF f
<1>3. CASE x + w <= VGA_WIDTH /\ y + h <= VGA_HEIGHT
  <2> DEFINE bottom == (y + h) - 1
             right == (x + w) - 1
             fit(a, b) == x <= a /\ a <= right /\ y <= b /\ b <= bottom
  <2>1. /\ right \in Nat /\ bottom \in Nat /\ x <= right /\ y <= bottom
        /\ right <= VGA_WIDTH - 1 /\ bottom <= VGA_HEIGHT - 1
        /\ y + h - 1 = bottom /\ x + w - 1 = right
        /\ VGA_WIDTH \in Nat /\ VGA_HEIGHT \in Nat /\ (y + h) - 2 = bottom - 1
    BY <1>3, Constant
  <2>2. \A a \in 0 .. VGA_WIDTH - 1, b \in 0 .. VGA_HEIGHT - 1 :
          InBox(<<a, b>>, x, y, w, h) <=> fit(a, b)
    BY <2>1, BoxPoints, Zenon
  <2>3. Range(f) = BoxTop(x, y, w, h) \cup BoxSide(x, y, w, h)
    BY <1>3, BoxWords
  <2>4. BoxTop(x, y, w, h) = {[at |-> CellAt(a, b), char |-> "=", attr |-> vga_attr] :
                                a \in x .. right, b \in {y, bottom}}
    BY DEF BoxTop
  <2>5. BoxSide(x, y, w, h) = {[at |-> CellAt(a, b), char |-> "|", attr |-> vga_attr] :
                                 a \in {x, right}, b \in y + 1 .. bottom - 1}
    BY <2>1 DEF BoxSide
  <2> DEFINE want(a, b, o) == IF ~fit(a, b) THEN o
                              ELSE IF b \in {y, bottom} THEN [char |-> "=", attr |-> vga_attr]
                              ELSE IF a \in {x, right} THEN [char |-> "|", attr |-> vga_attr]
                              ELSE o
  <2>6. \A k \in TextWords : ask[k] = want(k % VGA_WIDTH, k \div VGA_WIDTH, old[k])
    <3> TAKE k \in TextWords
    <3> DEFINE a == k % VGA_WIDTH
               b == k \div VGA_WIDTH
    <3>1. a \in 0 .. VGA_WIDTH - 1 /\ b \in 0 .. VGA_HEIGHT - 1
      BY PlaceOfCell
    <3>2. ~(x + w > VGA_WIDTH) /\ ~(y + h > VGA_HEIGHT)
      BY <1>3, <2>1
    <3>3. InBox(<<a, b>>, x, y, w, h) <=> fit(a, b)
      BY <2>2, <3>1
    <3>4. ask[k] = IF x + w > VGA_WIDTH \/ y + h > VGA_HEIGHT
                       \/ ~InBox(<<a, b>>, x, y, w, h) THEN old[k]
                    ELSE IF b \in {y, y + h - 1}
                         THEN [char |-> "=", attr |-> vga_attr]
                    ELSE IF a \in {x, x + w - 1}
                         THEN [char |-> "|", attr |-> vga_attr]
                    ELSE old[k]
      BY Zenon DEF BoxAsked
    <3> HIDE DEF a, b, fit
    <3>5. ask[k] = IF ~fit(a, b) THEN old[k]
                   ELSE IF b \in {y, bottom} THEN [char |-> "=", attr |-> vga_attr]
                   ELSE IF a \in {x, right} THEN [char |-> "|", attr |-> vga_attr]
                   ELSE old[k]
      BY <2>1, <3>2, <3>3, <3>4, Zenon
    <3> QED
      BY <3>5 DEF a, b
  <2> HIDE DEF f, bottom, right
  <2>7. ASSUME NEW a \in 0 .. VGA_WIDTH - 1, NEW b \in 0 .. VGA_HEIGHT - 1
        PROVE  /\ CellAt(a, b) \in TextWords
               /\ ask[CellAt(a, b)] = want(a, b, old[CellAt(a, b)])
    <3>1. CellAt(a, b) \in TextWords /\ CellAt(a, b) % VGA_WIDTH = a
          /\ CellAt(a, b) \div VGA_WIDTH = b
      BY CellPlace
    <3> HIDE DEF want
    <3> QED
      BY <2>6, <3>1
  <2>8. ASSUME NEW e \in Range(f)
        PROVE  e.at \in TextWords /\ ask[e.at] = [char |-> e.char, attr |-> e.attr]
    <3>1. CASE e \in BoxTop(x, y, w, h)
      <4>1. PICK a \in x .. right, b \in {y, bottom} :
              e = [at |-> CellAt(a, b), char |-> "=", attr |-> vga_attr]
        BY <2>4, <3>1
      <4>2. a \in 0 .. VGA_WIDTH - 1 /\ b \in 0 .. VGA_HEIGHT - 1 /\ fit(a, b)
        BY <2>1, <4>1
      <4>3. /\ CellAt(a, b) \in TextWords
            /\ ask[CellAt(a, b)] = want(a, b, old[CellAt(a, b)])
        BY <2>7, <4>2
      <4> HIDE DEF fit
      <4> QED
        BY <4>1, <4>2, <4>3
    <3>2. CASE e \in BoxSide(x, y, w, h)
      <4>1. PICK a \in {x, right}, b \in y + 1 .. bottom - 1 :
              e = [at |-> CellAt(a, b), char |-> "|", attr |-> vga_attr]
        BY <2>5, <3>2
      <4>2. a \in 0 .. VGA_WIDTH - 1 /\ b \in 0 .. VGA_HEIGHT - 1 /\ fit(a, b)
            /\ b \notin {y, bottom}
        BY <2>1, <4>1
      <4>3. /\ CellAt(a, b) \in TextWords
            /\ ask[CellAt(a, b)] = want(a, b, old[CellAt(a, b)])
        BY <2>7, <4>2
      <4> HIDE DEF fit
      <4> QED
        BY <4>1, <4>2, <4>3
    <3> QED
      BY <2>3, <3>1, <3>2
  <2>9. ASSUME NEW k \in TextWords
        PROVE  ask[k] = old[k] \/ \E e \in Range(f) : e.at = k
    <3> DEFINE a == k % VGA_WIDTH
               b == k \div VGA_WIDTH
    <3>1. a \in 0 .. VGA_WIDTH - 1 /\ b \in 0 .. VGA_HEIGHT - 1 /\ CellAt(a, b) = k
      BY PlaceOfCell
    <3> HIDE DEF a, b, want
    <3>2. ask[k] = want(a, b, old[k])
      BY <2>7, <3>1
    <3> USE DEF want
    <3>3. CASE fit(a, b) /\ b \in {y, bottom}
      <4>1. a \in x .. right
        BY <2>1, <3>1, <3>3
      <4>2. [at |-> CellAt(a, b), char |-> "=", attr |-> vga_attr] \in Range(f)
        BY <2>3, <2>4, <3>3, <4>1
      <4> QED
        BY <3>1, <4>2
    <3>4. CASE fit(a, b) /\ b \notin {y, bottom} /\ a \in {x, right}
      <4>1. b \in y + 1 .. bottom - 1
        BY <2>1, <3>1, <3>4
      <4>2. [at |-> CellAt(a, b), char |-> "|", attr |-> vga_attr] \in Range(f)
        BY <2>3, <2>5, <3>4, <4>1
      <4> QED
        BY <3>1, <4>2
    <3>5. CASE ~fit(a, b) \/ (b \notin {y, bottom} /\ a \notin {x, right})
      <4> HIDE DEF fit
      <4> QED
        BY <3>2, <3>5
    <3> QED
      BY <3>3, <3>4, <3>5
  <2>10. Pending(old, old, ask, f)
    BY <1>1, <2>8, <2>9, PendingWords
  <2> QED
    BY <2>10 DEF f
<1> QED
  BY <1>2, <1>3, Constant

-----------------------------------------------------------------------------
(***************************************************************************)
(* The invariant: how far the text call that is served has written.        *)
(***************************************************************************)
ShapeKinds == {"vga_clear", "vga_rect", "vga_box"}
Ask == [k \in TextWords |-> Asked(job, k)]

\* The cell of each character, of vga_print and of vga_print_at.
Ats == [i \in 1 .. Len(job.s) + 1 |->
          IF job.kind = "vga_print" THEN CellAt(Spots[i].col, Spots[i].row)
          ELSE CellAt((job.x + i) - 1, job.y)]

Spot == Spots[Taken + 1]
Wrote(d) == Printed(vga, shown.vga, job.s, Ats, shown.attr, d)
Stops == text = <<>> \/ job.x + Taken >= VGA_WIDTH \/ Head(text) = Newline

\* A text call that found the cursor on the screen.
Serving == job.kind \in TextKinds /\ pc \notin {"ready", "stopped"} /\ shown.y < VGA_HEIGHT

LabelInv ==
  /\ pc \in {"vga_char", "vga_line", "vga_limit", "vga_put", "vga_step"}
       => job.kind = "vga_print"
  /\ pc = "vga_draw" => job.kind \in ShapeKinds
  /\ pc \in {"to_x", "to_y"} => job.kind \in {"vga_clear", "vga_cursor", "vga_at"}

CellsInv == vga = [k \in DOMAIN vga |-> vga[k]]

BeforeInv ==
  Serving =>
    /\ FromScreen /\ TextWords \subseteq DOMAIN shown.vga
    /\ shown.vga = [k \in DOMAIN shown.vga |-> shown.vga[k]]
    /\ DOMAIN vga = DOMAIN shown.vga
    /\ vga_attr = AttrAsked(job)

DrawInv ==
  Serving /\ job.kind \in ShapeKinds =>
    /\ pc = "vga_draw" => Pending(vga, shown.vga, Ask, work)
    /\ pc # "vga_draw" => Pending(vga, shown.vga, Ask, <<>>)

PlainInv ==
  Serving =>
    /\ job.kind \in {"vga_color", "vga_cursor"} => vga = shown.vga
    /\ job.kind \in {"vga_color", "vga_rect", "vga_box"} => vga_x = shown.x /\ vga_y = shown.y
    /\ job.kind \in {"vga_clear", "vga_cursor"} =>
         /\ pc = "to_y" => vga_x = job.x
         /\ pc \in {"to_x", "to_y"} => CursorAsked(job) = <<job.x, job.y>>
         /\ pc = "done" => <<vga_x, vga_y>> = CursorAsked(job)

PrintInv ==
  Serving /\ job.kind = "vga_print" =>
    /\ RestOf(job.s, text)
    /\ pc \notin {"vga_char", "done"} => text # <<>>
    /\ pc = "vga_char" => vga_x = Spot.x /\ vga_y = Spot.y
    /\ pc \in {"vga_line", "vga_limit"} => Head(text) = Newline \/ Spot.x >= VGA_WIDTH
    /\ pc = "vga_line"  => vga_x = 0 /\ vga_y = Spot.y
    /\ pc = "vga_limit" => vga_x = 0 /\ vga_y = Spot.y + 1
    /\ pc \in {"vga_put", "vga_step"} =>
         Head(text) # Newline /\ vga_x = Spot.col /\ vga_y = Spot.row
    /\ pc \in {"vga_char", "vga_line", "vga_limit", "vga_put"} => Wrote(Taken)
    /\ pc = "vga_step" => Wrote(Taken + 1)
    /\ pc = "done" => /\ Wrote(Len(job.s))
                      /\ vga_x = Spots[Len(job.s) + 1].x /\ vga_y = Spots[Len(job.s) + 1].y

AtInv ==
  Serving /\ job.kind = "vga_at" =>
    IF InText(job.x, job.y)
    THEN /\ RestOf(job.s, text) /\ \A j \in 1 .. Taken : job.s[j] # Newline
         /\ pc \in {"to_x", "to_y"} => Taken = 0
         /\ pc \in Borrowed => pos_x = shown.x /\ pos_y = shown.y
         /\ pc = "to_y" => vga_x = job.x
         /\ pc \in {"at_char", "at_step"} => vga_x = job.x + Taken /\ vga_y = job.y
         /\ pc = "at_step" => GoesOn /\ Wrote(Taken + 1)
         /\ pc # "at_step" => Wrote(Taken)
         /\ pc \in {"back_x", "back_y", "done"} => Stops /\ job.x + Taken <= VGA_WIDTH
         /\ pc = "back_y" => vga_x = shown.x
         /\ pc = "done" => vga_x = shown.x /\ vga_y = shown.y
    ELSE pc = "done" /\ vga = shown.vga /\ vga_x = shown.x /\ vga_y = shown.y

WriteInv == LabelInv /\ CellsInv /\ BeforeInv /\ DrawInv /\ PlainInv /\ PrintInv /\ AtInv

\* At the start no call is served.
LEMMA InitWrite == TextInit => WriteInv
<1> SUFFICES ASSUME TextInit PROVE WriteInv
  OBVIOUS
<1>1. vga = Left /\ pc = "ready"
  BY DEF TextInit, Init
<1> QED
  BY <1>1 DEF WriteInv, LabelInv, CellsInv, BeforeInv, DrawInv, PlainInv, PrintInv, AtInv, Serving,
     Left

\* What a step that stays in the call keeps of its places and of what it is asked.
LEMMA SamePlaces ==
  ASSUME UNCHANGED <<job, shown>>
  PROVE  /\ Spots' = Spots /\ Ats' = Ats /\ (FromScreen' <=> FromScreen)
         /\ AttrAsked(job)' = AttrAsked(job)
         /\ job.kind \in ShapeKinds => Ask' = Ask
         /\ job.kind # "vga_print" => CursorAsked(job)' = CursorAsked(job)
<1>1. Spots' = Spots
  BY DEF Spots, BehindX, BehindY, Column, LineFrom, LinesBefore
<1>2. Ats' = Ats
  BY <1>1 DEF Ats
<1>3. (FromScreen' <=> FromScreen) /\ AttrAsked(job)' = AttrAsked(job)
  BY DEF FromScreen, AttrAsked
<1>4. ASSUME job.kind \in ShapeKinds PROVE Ask' = Ask
  <2>1. CASE job.kind = "vga_clear"
    BY <2>1 DEF Ask, Asked, Cell
  <2>2. CASE job.kind = "vga_rect"
    BY <2>2 DEF Ask, Asked, Cell
  <2>3. CASE job.kind = "vga_box"
    BY <2>3 DEF Ask, Asked, Cell
  <2> QED
    BY <1>4, <2>1, <2>2, <2>3 DEF ShapeKinds
<1>5. ASSUME job.kind # "vga_print" PROVE CursorAsked(job)' = CursorAsked(job)
  BY <1>5 DEF CursorAsked
<1> QED
  BY <1>1, <1>2, <1>3, <1>4, <1>5

\* Between two calls, and where the machine stops, nothing is being written; nor by a call
\* of the other screen.
LEMMA IdleWrite ==
  ASSUME WriteInv, vga' = vga, pc' \notin TextLabels \ {"stopped"},
         pc' \in {"ready", "stopped"} \/ job'.kind \notin TextKinds
  PROVE  WriteInv'
<1>1. ~Serving'
  BY DEF Serving
<1> QED
  BY <1>1 DEF WriteInv, LabelInv, CellsInv, BeforeInv, DrawInv, PlainInv, PrintInv, AtInv,
     TextLabels

\* A step of a text call after its first, that stores a cell of the screen or none.
Stays ==
  /\ pc \in TextLabels \ {"stopped"} /\ pc' \in (TextLabels \ {"stopped"}) \cup {"done"}
  /\ UNCHANGED <<job, shown, vga_attr>>

\* What it keeps.
LEMMA StaysWrite ==
  ASSUME WriteInv, Stays,
         \/ vga' = vga
         \/ \E at, word : vga' = Store(vga, at, word) /\ (Serving => at \in TextWords)
  PROVE  /\ (Serving' <=> Serving) /\ CellsInv' /\ BeforeInv'
         /\ Serving => FromScreen /\ TextWords \subseteq DOMAIN shown.vga
                       /\ DOMAIN vga = DOMAIN shown.vga /\ vga_attr = AttrAsked(job)
<1>1. Serving' <=> Serving
  BY DEF Serving, Stays, TextLabels
<1>2. CellsInv'
  <2>1. CASE vga' = vga
    BY <2>1 DEF WriteInv, CellsInv
  <2>2. CASE \E at, word : vga' = Store(vga, at, word)
    BY <2>2 DEF CellsInv, Store
  <2> QED
    BY <2>1, <2>2
<1>3. ASSUME Serving
      PROVE  /\ FromScreen /\ TextWords \subseteq DOMAIN shown.vga
             /\ shown.vga = [k \in DOMAIN shown.vga |-> shown.vga[k]]
             /\ DOMAIN vga = DOMAIN shown.vga
             /\ vga_attr = AttrAsked(job)
  BY <1>3 DEF WriteInv, BeforeInv
<1>4. Serving => DOMAIN vga' = DOMAIN vga
  <2>1. CASE vga' = vga
    BY <2>1
  <2>2. CASE \E at, word : vga' = Store(vga, at, word) /\ (Serving => at \in TextWords)
    <3>1. PICK at, word : vga' = Store(vga, at, word) /\ (Serving => at \in TextWords)
      BY <2>2
    <3>2. DOMAIN vga' = DOMAIN vga \cup {at}
      BY <3>1, StoreDomain
    <3> QED
      BY <1>3, <3>1, <3>2
  <2> QED
    BY <2>1, <2>2
<1>5. UNCHANGED <<job, shown, vga_attr>>
  BY DEF Stays
<1>6. (FromScreen' <=> FromScreen) /\ AttrAsked(job)' = AttrAsked(job)
  BY <1>5, SamePlaces
<1>7. BeforeInv'
  BY <1>1, <1>3, <1>4, <1>5, <1>6 DEF BeforeInv
<1> QED
  BY <1>1, <1>2, <1>3, <1>7

\* What the call that is served has to be shown.
LEMMA ServedText ==
  ASSUME TextsShowable, IInv
  PROVE  /\ Showable(job) /\ TextTyped(job)
         /\ job.kind \in {"vga_print", "vga_at"} => IsSeq(job.s)
<1>1. Good(job)
  BY DEF IInv, CallInv
<1>2. Showable(job) /\ TextTyped(job)
  BY <1>1 DEF Good
<1> QED
  BY <1>2 DEF Showable, IsSeq

\* A cell of a shape is stored (vga.c:10-32, 145-167).
LEMMA CellWrite == ASSUME IInv, PaintInv, WriteInv, WriteCell PROVE WriteInv'
<1>1. /\ pc = "vga_draw" /\ pc' = "vga_draw" /\ work # <<>> /\ work' = Tail(work)
      /\ vga' = Store(vga, Head(work).at, [char |-> Head(work).char, attr |-> Head(work).attr])
      /\ UNCHANGED <<job, shown, vga_x, vga_y, vga_attr>>
  BY DEF WriteCell, Step, Same, callVars
<1>2. Stays
  BY <1>1 DEF Stays, TextLabels
<1>3. job.kind \in ShapeKinds
  BY <1>1 DEF WriteInv, LabelInv
<1>4. Serving => Pending(vga, shown.vga, Ask, work)
  BY <1>1, <1>3 DEF WriteInv, DrawInv
<1>5. Serving => /\ TextWords \subseteq DOMAIN shown.vga /\ DOMAIN vga = DOMAIN shown.vga
  BY DEF WriteInv, BeforeInv
<1>6. ASSUME Serving
      PROVE  Head(work).at \in TextWords /\ Pending(vga', shown.vga, Ask, Tail(work))
  BY <1>1, <1>4, <1>5, <1>6, StoresOne
<1>7. (Serving' <=> Serving) /\ CellsInv' /\ BeforeInv'
  <2>1. \E at, word : vga' = Store(vga, at, word) /\ (Serving => at \in TextWords)
    BY <1>1, <1>6
  <2> QED
    BY <1>2, <2>1, StaysWrite
<1>8. DrawInv'
  <2>1. Ask' = Ask
    BY <1>1, <1>3, SamePlaces
  <2> QED
    BY <1>1, <1>6, <1>7, <2>1 DEF DrawInv
<1>9. PlainInv' /\ LabelInv' /\ PrintInv' /\ AtInv'
  BY <1>1, <1>3, <1>7 DEF WriteInv, PlainInv, LabelInv, PrintInv, AtInv, ShapeKinds
<1> QED
  BY <1>7, <1>8, <1>9 DEF WriteInv

\* A shape is drawn.
LEMMA DrawnWrite == ASSUME TextsShowable, IInv, WriteInv, TextDrawn PROVE WriteInv'
<1>1. /\ pc = "vga_draw" /\ pc' = (IF job.kind = "vga_clear" THEN "to_x" ELSE "done")
      /\ work = <<>> /\ UNCHANGED <<job, shown, vga, vga_x, vga_y, vga_attr>>
  BY DEF TextDrawn, Step, Same, callVars
<1>2. Stays
  BY <1>1 DEF Stays, TextLabels
<1>3. job.kind \in ShapeKinds
  BY <1>1 DEF WriteInv, LabelInv
<1>4. (Serving' <=> Serving) /\ CellsInv' /\ BeforeInv'
  BY <1>1, <1>2, StaysWrite
<1>5. Serving => Pending(vga, shown.vga, Ask, <<>>)
  BY <1>1, <1>3 DEF WriteInv, DrawInv
<1>6. DrawInv'
  <2>1. Ask' = Ask
    BY <1>1, <1>3, SamePlaces
  <2> QED
    BY <1>1, <1>4, <1>5, <2>1 DEF DrawInv
<1>7. PlainInv'
  <2>1. job.kind = "vga_clear" => job.x = 0 /\ job.y = 0
    BY ServedText DEF TextTyped, ClearText
  <2>2. job.kind = "vga_clear" => CursorAsked(job)' = <<job.x, job.y>>
    BY <2>1, <1>1 DEF CursorAsked
  <2> QED
    BY <1>1, <1>3, <1>4, <2>2 DEF WriteInv, PlainInv, ShapeKinds
<1>8. LabelInv' /\ PrintInv' /\ AtInv'
  BY <1>1, <1>3, <1>4 DEF WriteInv, LabelInv, PrintInv, AtInv, ShapeKinds
<1> QED
  BY <1>4, <1>6, <1>7, <1>8 DEF WriteInv

\* What a step that stores nothing and takes no character keeps.
LEMMA SameWrite ==
  ASSUME UNCHANGED <<job, shown, vga, text>>
  PROVE  /\ Taken' = Taken /\ Spot' = Spot /\ (Stops' <=> Stops)
         /\ (Wrote(Taken))' <=> Wrote(Taken)
         /\ (Wrote(Taken + 1))' <=> Wrote(Taken + 1)
         /\ (Wrote(Len(job.s)))' <=> Wrote(Len(job.s))
<1>1. Spots' = Spots /\ Ats' = Ats
  BY SamePlaces
<1>2. Taken' = Taken
  BY DEF Taken
<1> QED
  BY <1>1, <1>2 DEF Spot, Stops, Wrote

\* vga_set_cursor, the column first (vga.c:14, 119, 128).
LEMMA ToXWrite == ASSUME IInv, WriteInv, ToX PROVE WriteInv'
<1>1. /\ pc = "to_x" /\ pc' = "to_y" /\ vga_x' = job.x
      /\ UNCHANGED <<job, shown, vga, vga_y, vga_attr, text, pos_x, pos_y, work>>
  BY DEF ToX, Step, Same, callVars, textVars
<1>2. Stays
  BY <1>1 DEF Stays, TextLabels
<1>3. job.kind \in {"vga_clear", "vga_cursor", "vga_at"}
  BY <1>1 DEF WriteInv, LabelInv
<1>4. (Serving' <=> Serving) /\ CellsInv' /\ BeforeInv'
  BY <1>1, <1>2, StaysWrite
<1>5. DrawInv'
  <2>1. job.kind \in ShapeKinds => Ask' = Ask
    BY <1>1, SamePlaces
  <2> QED
    BY <1>1, <1>4, <2>1 DEF WriteInv, DrawInv
<1>6. PlainInv'
  <2>1. CursorAsked(job)' = CursorAsked(job)
    BY <1>1, <1>3, SamePlaces
  <2> QED
    BY <1>1, <1>3, <1>4, <2>1 DEF WriteInv, PlainInv
<1>7. AtInv'
  <2>1. Taken' = Taken /\ ((Wrote(Taken))' <=> Wrote(Taken))
    BY <1>1, SameWrite
  <2>2. InText(job.x, job.y)' <=> InText(job.x, job.y)
    BY <1>1
  <2> QED
    BY <1>1, <1>4, <2>1, <2>2 DEF WriteInv, AtInv, Borrowed
<1>8. LabelInv' /\ PrintInv'
  BY <1>1, <1>3, <1>4 DEF WriteInv, LabelInv, PrintInv
<1> QED
  BY <1>4, <1>5, <1>6, <1>7, <1>8 DEF WriteInv

\* And then the line (vga.c:15, 120, 129).
LEMMA ToYWrite == ASSUME IInv, WriteInv, ToY PROVE WriteInv'
<1>1. /\ pc = "to_y" /\ pc' = (IF job.kind = "vga_at" THEN "at_char" ELSE "done")
      /\ vga_y' = job.y
      /\ UNCHANGED <<job, shown, vga, vga_x, vga_attr, text, pos_x, pos_y, work>>
  BY DEF ToY, Step, Same, callVars, textVars
<1>2. Stays
  BY <1>1 DEF Stays, TextLabels
<1>3. job.kind \in {"vga_clear", "vga_cursor", "vga_at"}
  BY <1>1 DEF WriteInv, LabelInv
<1>4. (Serving' <=> Serving) /\ CellsInv' /\ BeforeInv'
  BY <1>1, <1>2, StaysWrite
<1>5. DrawInv'
  <2>1. job.kind \in ShapeKinds => Ask' = Ask
    BY <1>1, SamePlaces
  <2> QED
    BY <1>1, <1>4, <2>1 DEF WriteInv, DrawInv
<1>6. PlainInv'
  <2>1. CursorAsked(job)' = CursorAsked(job)
    BY <1>1, <1>3, SamePlaces
  <2> QED
    BY <1>1, <1>3, <1>4, <2>1 DEF WriteInv, PlainInv
<1>7. AtInv'
  <2>1. Taken' = Taken /\ ((Wrote(Taken))' <=> Wrote(Taken))
    BY <1>1, SameWrite
  <2>2. InText(job.x, job.y)' <=> InText(job.x, job.y)
    BY <1>1
  <2>3. job.x \in Int
    BY <1>1, Constant DEF IInv, TextInv
  <2> QED
    BY <1>1, <1>4, <2>1, <2>2, <2>3 DEF WriteInv, AtInv, Borrowed
<1>8. LabelInv' /\ PrintInv'
  BY <1>1, <1>3, <1>4 DEF WriteInv, LabelInv, PrintInv
<1> QED
  BY <1>4, <1>5, <1>6, <1>7, <1>8 DEF WriteInv

\* vga_print_at ends, and gives the cursor back (vga.c:131-142).
LEMMA BackWrite == ASSUME IInv, WriteInv, EndThere \/ BackX \/ BackY PROVE WriteInv'
<1>1. /\ pc \in {"at_char", "back_x", "back_y"} /\ pc' \in {"back_x", "back_y", "done"}
      /\ UNCHANGED <<job, shown, vga, vga_attr, text, pos_x, pos_y>>
  BY DEF EndThere, BackX, BackY, Step, Same, callVars, textVars
<1>2. Stays
  BY <1>1 DEF Stays, TextLabels
<1>3. job.kind = "vga_at"
  BY <1>1 DEF IInv, TextInv, Borrowed
<1>4. (Serving' <=> Serving) /\ CellsInv' /\ BeforeInv'
  BY <1>1, <1>2, StaysWrite
<1>5. DrawInv' /\ PlainInv' /\ LabelInv' /\ PrintInv'
  BY <1>1, <1>3 DEF DrawInv, PlainInv, LabelInv, PrintInv, ShapeKinds
<1>6. AtInv'
  <2>1. Taken' = Taken /\ ((Wrote(Taken))' <=> Wrote(Taken)) /\ (Stops' <=> Stops)
    BY <1>1, SameWrite
  <2>2. InText(job.x, job.y)' <=> InText(job.x, job.y)
    BY <1>1
  <2> SUFFICES ASSUME Serving PROVE AtInv'
    BY <1>4 DEF AtInv
  <2>3. /\ InText(job.x, job.y) /\ RestOf(job.s, text)
        /\ \A j \in 1 .. Taken : job.s[j] # Newline
        /\ pos_x = shown.x /\ pos_y = shown.y /\ Wrote(Taken)
        /\ pc = "at_char" => vga_x = job.x + Taken
        /\ pc \in {"back_x", "back_y"} => Stops /\ job.x + Taken <= VGA_WIDTH
        /\ pc = "back_y" => vga_x = shown.x
    BY <1>1, <1>3 DEF WriteInv, AtInv, Borrowed
  <2>4. Stops /\ job.x + Taken <= VGA_WIDTH
    <3>1. CASE EndThere
      <4>1. pc = "at_char" /\ ~GoesOn /\ vga_x = job.x + Taken
        BY <2>3, <3>1 DEF EndThere, Step
      <4>2. vga_x \in 0 .. VGA_WIDTH /\ VGA_WIDTH \in Nat
        BY Constant DEF IInv, TextInv
      <4> DEFINE x == job.x + Taken
      <4>3. vga_x = x
        BY <4>1
      <4> HIDE DEF x
      <4>4. x \in 0 .. VGA_WIDTH /\ (text = <<>> \/ x >= VGA_WIDTH \/ Head(text) = Newline)
        BY <4>1, <4>2, <4>3 DEF GoesOn
      <4>5. x <= VGA_WIDTH
        BY <4>2, <4>4
      <4> QED
        BY <4>4, <4>5 DEF Stops, x
    <3>2. CASE BackX \/ BackY
      BY <2>3, <3>2 DEF BackX, BackY, Step
    <3> QED
      BY <3>1, <3>2
  <2>5. /\ pc' = "back_y" => vga_x' = pos_x
        /\ pc' = "done" => pc = "back_y" /\ vga_x' = vga_x /\ vga_y' = pos_y
    BY DEF EndThere, BackX, BackY, Step
  <2> QED
    BY <1>1, <1>4, <2>1, <2>2, <2>3, <2>4, <2>5 DEF AtInv, Borrowed
<1> QED
  BY <1>4, <1>5, <1>6 DEF WriteInv

\* The rest of the text that is served, and the character it begins with.
LEMMA TextTaken ==
  ASSUME IsSeq(job.s), RestOf(job.s, text)
  PROVE  /\ Len(job.s) \in Nat /\ Taken \in 0 .. Len(job.s)
         /\ text = <<>> => Taken = Len(job.s)
         /\ text # <<>> => /\ Taken + 1 \in 1 .. Len(job.s) /\ Head(text) = job.s[Taken + 1]
                           /\ RestOf(job.s, Tail(text))
                           /\ Len(job.s) - Len(Tail(text)) = Taken + 1
<1> DEFINE s == job.s
           t == text
<1>1. IsSeq(s) /\ RestOf(s, t) /\ Taken = Len(s) - Len(t)
  BY DEF Taken
<1> HIDE DEF s, t
<1>2. /\ Len(s) \in Nat /\ Len(t) \in Nat /\ Len(s) - Len(t) \in 0 .. Len(s)
      /\ t = <<>> => Len(s) - Len(t) = Len(s)
      /\ t # <<>> => /\ (Len(s) - Len(t)) + 1 \in 1 .. Len(s)
                     /\ Head(t) = s[(Len(s) - Len(t)) + 1]
                     /\ RestOf(s, Tail(t))
                     /\ Len(s) - Len(Tail(t)) = (Len(s) - Len(t)) + 1
  BY <1>1, RestOfSeq, Zenon
<1> QED
  BY <1>1, <1>2 DEF s, t

\* vga_print_at puts a character at its place on the line (vga.c:135-136).
LEMMA PutThereWrite == ASSUME TextsShowable, IInv, WriteInv, PutThere PROVE WriteInv'
<1> DEFINE at == CellAt(vga_x, vga_y)
           word == [char |-> Head(text), attr |-> vga_attr]
<1>1. /\ pc = "at_char" /\ pc' = "at_step" /\ GoesOn /\ vga' = Store(vga, at, word)
      /\ UNCHANGED <<job, shown, vga_x, vga_y, vga_attr, text, pos_x, pos_y>>
  BY DEF PutThere, Put, Step, Same, callVars, textVars
<1> HIDE DEF at, word
<1>2. Stays
  BY <1>1 DEF Stays, TextLabels
<1>3. job.kind = "vga_at" /\ IsSeq(job.s) /\ job.kind \notin ShapeKinds
  <2>1. job.kind = "vga_at"
    BY <1>1 DEF IInv, TextInv, Borrowed
  <2> QED
    BY <2>1, ServedText DEF ShapeKinds
<1>4. ASSUME Serving
      PROVE  /\ InText(job.x, job.y) /\ RestOf(job.s, text)
             /\ \A j \in 1 .. Taken : job.s[j] # Newline
             /\ pos_x = shown.x /\ pos_y = shown.y /\ Wrote(Taken)
             /\ vga_x = job.x + Taken /\ vga_y = job.y
             /\ TextWords \subseteq DOMAIN shown.vga /\ DOMAIN vga = DOMAIN shown.vga
             /\ vga_attr = shown.attr
  BY <1>1, <1>3, <1>4 DEF WriteInv, AtInv, BeforeInv, Borrowed, AttrAsked
<1>5. ASSUME Serving
      PROVE  at \in TextWords /\ Printed(vga', shown.vga, job.s, Ats, shown.attr, Taken + 1)
  <2> DEFINE d == Taken
  <2>1. d \in Nat /\ d + 1 \in 1 .. Len(job.s) /\ Head(text) = job.s[d + 1] /\ Len(job.s) \in Nat
    BY <1>1, <1>3, <1>4, <1>5, TextTaken DEF GoesOn
  <2>2. vga_x \in 0 .. VGA_WIDTH - 1 /\ vga_y \in 0 .. VGA_HEIGHT - 1
    <3>1. vga_x \in 0 .. VGA_WIDTH /\ vga_x < VGA_WIDTH /\ VGA_WIDTH \in Nat
      BY <1>1, Constant DEF IInv, TextInv, GoesOn
    <3>2. job.y \in Int
      BY <1>3, ServedText DEF TextTyped
    <3> QED
      BY <1>4, <1>5, <3>1, <3>2, Constant DEF InText
  <2>3. at \in TextWords
    BY <2>2, CellPlace DEF at
  <2>4. Ats[d + 1] = at
    <3>1. job.x \in Int
      BY <1>3, ServedText DEF TextTyped
    <3>2. d + 1 \in 1 .. Len(job.s) + 1 /\ (job.x + (d + 1)) - 1 = job.x + d
      <4> DEFINE x == job.x
                 n == Len(job.s)
      <4>1. d \in Nat /\ d + 1 \in 1 .. n /\ n \in Nat /\ x \in Int
        BY <2>1, <3>1
      <4> HIDE DEF d, x, n
      <4>2. d + 1 \in 1 .. n + 1 /\ (x + (d + 1)) - 1 = x + d
        BY <4>1
      <4> QED
        BY <4>2 DEF x, n
    <3>3. Ats[d + 1] = CellAt((job.x + (d + 1)) - 1, job.y)
      BY <1>3, <3>2 DEF Ats
    <3> QED
      BY <1>4, <1>5, <3>2, <3>3 DEF at
  <2>5. Printed(vga, shown.vga, job.s, Ats, shown.attr, d)
    BY <1>4, <1>5 DEF Wrote
  <2>6. word = [char |-> job.s[d + 1], attr |-> shown.attr] /\ job.s[d + 1] # Newline
    BY <1>1, <1>4, <1>5, <2>1 DEF word, GoesOn
  <2>7. Ats[d + 1] \in DOMAIN shown.vga /\ DOMAIN vga = DOMAIN shown.vga
    BY <1>4, <1>5, <2>3, <2>4
  <2> HIDE DEF d
  <2>8. Printed(Store(vga, Ats[d + 1], [char |-> job.s[d + 1], attr |-> shown.attr]),
                shown.vga, job.s, Ats, shown.attr, d + 1)
    BY <2>1, <2>5, <2>6, <2>7, PrintsOne
  <2> QED
    BY <1>1, <2>3, <2>4, <2>6, <2>8 DEF d
<1>6. (Serving' <=> Serving) /\ CellsInv' /\ BeforeInv'
  <2>1. \E p, q : vga' = Store(vga, p, q) /\ (Serving => p \in TextWords)
    BY <1>1, <1>5
  <2> QED
    BY <1>2, <2>1, StaysWrite
<1>7. DrawInv' /\ PlainInv' /\ LabelInv' /\ PrintInv'
  BY <1>1, <1>3 DEF DrawInv, PlainInv, LabelInv, PrintInv
<1>8. AtInv'
  <2>1. Taken' = Taken /\ Ats' = Ats /\ (GoesOn' <=> GoesOn)
        /\ (InText(job.x, job.y)' <=> InText(job.x, job.y))
    BY <1>1, SamePlaces DEF Taken, GoesOn
  <2>2. Serving => (Wrote(Taken + 1))'
    BY <1>1, <1>5, <2>1 DEF Wrote
  <2> QED
    BY <1>1, <1>4, <1>6, <2>1, <2>2 DEF AtInv, Borrowed
<1> QED
  BY <1>6, <1>7, <1>8 DEF WriteInv

\* And goes on to the next one (vga.c:137-138).
LEMMA StepThereWrite == ASSUME TextsShowable, IInv, WriteInv, StepThere PROVE WriteInv'
<1>1. /\ pc = "at_step" /\ pc' = "at_char" /\ vga_x' = vga_x + 1 /\ text' = Tail(text)
      /\ UNCHANGED <<job, shown, vga, vga_y, vga_attr, pos_x, pos_y>>
  BY DEF StepThere, Step, Same, callVars
<1>2. Stays
  BY <1>1 DEF Stays, TextLabels
<1>3. job.kind = "vga_at" /\ IsSeq(job.s) /\ job.kind \notin ShapeKinds /\ job.x \in Int
  <2>1. job.kind = "vga_at"
    BY <1>1 DEF IInv, TextInv, Borrowed
  <2> QED
    BY <2>1, ServedText DEF ShapeKinds, TextTyped
<1>4. ASSUME Serving
      PROVE  /\ InText(job.x, job.y) /\ RestOf(job.s, text)
             /\ \A j \in 1 .. Taken : job.s[j] # Newline
             /\ pos_x = shown.x /\ pos_y = shown.y /\ GoesOn /\ Wrote(Taken + 1)
             /\ vga_x = job.x + Taken /\ vga_y = job.y
  BY <1>1, <1>3, <1>4 DEF WriteInv, AtInv, Borrowed
<1>5. ASSUME Serving
      PROVE  /\ Taken' = Taken + 1 /\ RestOf(job.s, text')
             /\ \A j \in 1 .. Taken + 1 : job.s[j] # Newline
             /\ vga_x' = job.x + (Taken + 1)
  <2> DEFINE d == Taken
  <2>1. /\ d \in Nat /\ Head(text) = job.s[d + 1] /\ RestOf(job.s, Tail(text))
        /\ Len(job.s) - Len(Tail(text)) = d + 1
    BY <1>3, <1>4, <1>5, TextTaken DEF GoesOn
  <2>2. Taken' = d + 1
    BY <1>1, <2>1 DEF Taken
  <2>3. job.s[d + 1] # Newline
    BY <1>4, <1>5, <2>1 DEF GoesOn
  <2>4. vga_x = job.x + d /\ \A j \in 1 .. d : job.s[j] # Newline
    BY <1>4, <1>5
  <2> HIDE DEF d
  <2>5. \A j \in 1 .. d + 1 : j \in 1 .. d \/ j = d + 1
    BY <2>1
  <2>6. vga_x' = job.x + (d + 1)
    BY <1>1, <1>3, <2>1, <2>4
  <2>7. \A j \in 1 .. d + 1 : job.s[j] # Newline
    BY <2>3, <2>4, <2>5
  <2> QED
    BY <1>1, <2>1, <2>2, <2>6, <2>7 DEF d
<1>6. (Serving' <=> Serving) /\ CellsInv' /\ BeforeInv'
  BY <1>1, <1>2, StaysWrite
<1>7. DrawInv' /\ PlainInv' /\ LabelInv' /\ PrintInv'
  BY <1>1, <1>3 DEF DrawInv, PlainInv, LabelInv, PrintInv
<1>8. AtInv'
  <2> SUFFICES ASSUME Serving PROVE AtInv'
    BY <1>6 DEF AtInv
  <2>1. Ats' = Ats /\ (InText(job.x, job.y)' <=> InText(job.x, job.y))
    BY <1>1, SamePlaces
  <2>2. (Wrote(Taken))'
    BY <1>1, <1>4, <1>5, <2>1 DEF Wrote
  <2>3. InText(job.x, job.y)' /\ RestOf(job.s, text)'
        /\ (\A j \in 1 .. Taken : job.s[j] # Newline)'
        /\ (vga_x = job.x + Taken)' /\ (vga_y = job.y)'
        /\ (pos_x = shown.x)' /\ (pos_y = shown.y)'
    BY <1>1, <1>4, <1>5, <2>1
  <2> QED
    BY <1>1, <2>2, <2>3 DEF AtInv, Borrowed
<1> QED
  BY <1>6, <1>7, <1>8 DEF WriteInv

\* What is known of a print that is served: the text and its places.
LEMMA PrintFacts ==
  ASSUME TextsShowable, IInv, WriteInv, Serving, job.kind = "vga_print"
  PROVE  /\ IsSeq(job.s) /\ RestOf(job.s, text) /\ Len(job.s) \in Nat /\ Taken \in Nat
         /\ TextWords \subseteq DOMAIN shown.vga /\ DOMAIN vga = DOMAIN shown.vga
         /\ vga_attr = shown.attr
         /\ text = <<>> => Taken = Len(job.s)
         /\ text # <<>> => /\ Taken + 1 \in 1 .. Len(job.s) /\ Head(text) = job.s[Taken + 1]
                           /\ RestOf(job.s, Tail(text))
                           /\ Len(job.s) - Len(Tail(text)) = Taken + 1
<1>1. IsSeq(job.s)
  BY ServedText
<1>2. RestOf(job.s, text)
  BY DEF WriteInv, PrintInv
<1>3. /\ TextWords \subseteq DOMAIN shown.vga /\ DOMAIN vga = DOMAIN shown.vga
      /\ vga_attr = shown.attr
  BY DEF WriteInv, BeforeInv, AttrAsked
<1>4. /\ Len(job.s) \in Nat /\ Taken \in 0 .. Len(job.s)
      /\ text = <<>> => Taken = Len(job.s)
      /\ text # <<>> => /\ Taken + 1 \in 1 .. Len(job.s) /\ Head(text) = job.s[Taken + 1]
                        /\ RestOf(job.s, Tail(text))
                        /\ Len(job.s) - Len(Tail(text)) = Taken + 1
  BY <1>1, <1>2, TextTaken
<1>5. Taken \in Nat
  BY <1>4
<1> QED
  BY <1>1, <1>2, <1>3, <1>4, <1>5, Zenon

\* The place of the next character, and the one behind it.
LEMMA SpotFacts ==
  ASSUME TextsShowable, IInv, WriteInv, Serving, job.kind = "vga_print", text # <<>>
  PROVE  /\ Spot.x \in 0 .. VGA_WIDTH /\ Spot.y \in 0 .. VGA_HEIGHT - 1
         /\ Spot.col \in 0 .. VGA_WIDTH - 1 /\ Spot.row \in 0 .. VGA_HEIGHT - 1
         /\ Head(text) = Newline => /\ Spots[(Taken + 1) + 1].x = 0
                                    /\ Spots[(Taken + 1) + 1].y = OnLastLine(Spot.y + 1)
         /\ Head(text) # Newline => /\ Spots[(Taken + 1) + 1].x = Spot.col + 1
                                    /\ Spots[(Taken + 1) + 1].y = Spot.row
         /\ Spot.x >= VGA_WIDTH => Spot.col = 0 /\ Spot.row = OnLastLine(Spot.y + 1)
         /\ Spot.x < VGA_WIDTH => Spot.col = Spot.x /\ Spot.row = Spot.y
<1>1. /\ IsSeq(job.s) /\ Len(job.s) \in Nat /\ Taken + 1 \in 1 .. Len(job.s)
      /\ Head(text) = job.s[Taken + 1]
  BY PrintFacts
<1>2. FromScreen
  BY DEF WriteInv, BeforeInv
<1> DEFINE i == Taken + 1
<1>3. i \in 1 .. Len(job.s) /\ i \in 1 .. Len(job.s) + 1 /\ Head(text) = job.s[i] /\ Spot = Spots[i]
  BY <1>1 DEF Spot
<1> HIDE DEF i
<1>4. /\ Spots[i].x \in 0 .. VGA_WIDTH /\ Spots[i].y \in 0 .. VGA_HEIGHT - 1
      /\ Spots[i].col \in 0 .. VGA_WIDTH - 1 /\ Spots[i].row \in 0 .. VGA_HEIGHT - 1
  BY <1>1, <1>2, <1>3, SpotsFollow
<1>5. /\ job.s[i] = Newline => /\ Spots[i + 1].x = 0
                               /\ Spots[i + 1].y = OnLastLine(Spots[i].y + 1)
      /\ job.s[i] # Newline => /\ Spots[i + 1].x = Spots[i].col + 1
                               /\ Spots[i + 1].y = Spots[i].row
      /\ Spots[i].x >= VGA_WIDTH => /\ Spots[i].col = 0
                                    /\ Spots[i].row = OnLastLine(Spots[i].y + 1)
      /\ Spots[i].x < VGA_WIDTH => /\ Spots[i].col = Spots[i].x
                                   /\ Spots[i].row = Spots[i].y
  BY <1>1, <1>2, <1>3, SpotsFollow
<1> QED
  BY <1>3, <1>4, <1>5 DEF i

\* The parts on other calls hold in a print, and what is left of the invariant.
LEMMA InPrint ==
  ASSUME WriteInv, Stays, job.kind = "vga_print", pc' # "vga_draw", pc' \notin {"to_x", "to_y"},
         \/ vga' = vga
         \/ \E at, word : vga' = Store(vga, at, word) /\ (Serving => at \in TextWords),
         Serving /\ Serving' => PrintInv'
  PROVE  WriteInv'
<1>1. (Serving' <=> Serving) /\ CellsInv' /\ BeforeInv'
  BY StaysWrite
<1>2. job' = job
  BY DEF Stays
<1>3. DrawInv' /\ PlainInv' /\ LabelInv' /\ AtInv'
  BY <1>2 DEF DrawInv, PlainInv, LabelInv, AtInv, ShapeKinds
<1>4. PrintInv'
  BY <1>1 DEF PrintInv
<1> QED
  BY <1>1, <1>3, <1>4 DEF WriteInv

\* A line is begun, or a character fits (vga.c:36-47); and the end of the text.
LEMMA LineWrite ==
  ASSUME TextsShowable, IInv, WriteInv, EndOfPrint \/ BreakLine \/ NextLine \/ FitsHere
  PROVE  WriteInv'
<1>1. /\ pc \in {"vga_char", "vga_line"}
      /\ pc' \in {"done", "vga_line", "vga_limit", "vga_put"}
      /\ UNCHANGED <<job, shown, vga, vga_attr, text, pos_x, pos_y>>
  BY DEF EndOfPrint, BreakLine, NextLine, FitsHere, Step, Same, callVars, textVars
<1>2. Stays
  BY <1>1 DEF Stays, TextLabels
<1>3. job.kind = "vga_print"
  BY <1>1 DEF WriteInv, LabelInv
<1>4. ASSUME Serving, Serving' PROVE PrintInv'
  <2>1. Taken' = Taken /\ Spot' = Spot /\ Spots' = Spots
        /\ ((Wrote(Taken))' <=> Wrote(Taken))
        /\ ((Wrote(Len(job.s)))' <=> Wrote(Len(job.s)))
    BY <1>1, SameWrite, SamePlaces
  <2>2. RestOf(job.s, text) /\ Wrote(Taken)
    BY <1>1, <1>3, <1>4 DEF WriteInv, PrintInv
  <2>3. CASE EndOfPrint
    <3>1. pc = "vga_char" /\ pc' = "done" /\ text = <<>> /\ vga_x' = vga_x /\ vga_y' = vga_y
      BY <2>3 DEF EndOfPrint, Step
    <3>2. vga_x = Spot.x /\ vga_y = Spot.y
      BY <1>3, <1>4, <3>1 DEF WriteInv, PrintInv
    <3>3. Taken = Len(job.s)
      BY <1>3, <1>4, <3>1, PrintFacts
    <3> QED
      BY <1>1, <2>1, <2>2, <3>1, <3>2, <3>3 DEF PrintInv, Spot
  <2>4. CASE BreakLine
    <3>1. /\ pc = "vga_char" /\ pc' = "vga_line" /\ text # <<>> /\ vga_x' = 0 /\ vga_y' = vga_y
          /\ Head(text) = Newline \/ vga_x >= VGA_WIDTH
      BY <2>4 DEF BreakLine, Step, LineFull
    <3>2. vga_x = Spot.x /\ vga_y = Spot.y
      BY <1>3, <1>4, <3>1 DEF WriteInv, PrintInv
    <3> QED
      BY <1>1, <2>1, <2>2, <3>1, <3>2 DEF PrintInv
  <2>5. CASE NextLine
    <3>1. pc = "vga_line" /\ pc' = "vga_limit" /\ vga_x' = vga_x /\ vga_y' = vga_y + 1
      BY <2>5 DEF NextLine, Step
    <3>2. /\ vga_x = 0 /\ vga_y = Spot.y /\ text # <<>>
          /\ Head(text) = Newline \/ Spot.x >= VGA_WIDTH
      BY <1>3, <1>4, <3>1 DEF WriteInv, PrintInv
    <3> QED
      BY <1>1, <2>1, <2>2, <3>1, <3>2 DEF PrintInv
  <2>6. CASE FitsHere
    <3>1. /\ pc = "vga_char" /\ pc' = "vga_put" /\ text # <<>> /\ Head(text) # Newline
          /\ ~(vga_x >= VGA_WIDTH) /\ vga_x' = vga_x /\ vga_y' = vga_y
      BY <2>6 DEF FitsHere, Step, LineFull
    <3>2. vga_x = Spot.x /\ vga_y = Spot.y
      BY <1>3, <1>4, <3>1 DEF WriteInv, PrintInv
    <3>3. /\ Spot.x \in 0 .. VGA_WIDTH
          /\ Spot.x < VGA_WIDTH => Spot.col = Spot.x /\ Spot.row = Spot.y
      BY <1>3, <1>4, <3>1, SpotFacts
    <3>4. Spot.x < VGA_WIDTH
      BY <3>1, <3>2, <3>3, Constant
    <3> QED
      BY <1>1, <2>1, <2>2, <3>1, <3>2, <3>3, <3>4 DEF PrintInv
  <2> QED
    BY <2>3, <2>4, <2>5, <2>6
<1> QED
  BY <1>1, <1>2, <1>3, <1>4, InPrint

\* The line is limited: a newline is taken, another character begins the line (vga.c:39-47).
LEMMA LimitWrite == ASSUME TextsShowable, IInv, WriteInv, LimitLine PROVE WriteInv'
<1>1. /\ pc = "vga_limit" /\ vga_y' = OnLastLine(vga_y)
      /\ UNCHANGED <<job, shown, vga, vga_x, vga_attr, pos_x, pos_y>>
      /\ IF Head(text) = Newline THEN pc' = "vga_char" /\ text' = Tail(text)
         ELSE pc' = "vga_put" /\ text' = text
  BY DEF LimitLine, Step, Same, callVars
<1>2. Stays
  BY <1>1 DEF Stays, TextLabels
<1>3. job.kind = "vga_print"
  BY <1>1 DEF WriteInv, LabelInv
<1>4. ASSUME Serving, Serving' PROVE PrintInv'
  <2>1. /\ text # <<>> /\ Wrote(Taken) /\ vga_x = 0 /\ vga_y = Spot.y + 1
        /\ Head(text) = Newline \/ Spot.x >= VGA_WIDTH
    BY <1>1, <1>3, <1>4 DEF WriteInv, PrintInv
  <2>2. Spots' = Spots /\ Ats' = Ats
    BY <1>1, SamePlaces
  <2>3. CASE Head(text) = Newline
    <3> DEFINE d == Taken
    <3>1. /\ d \in Nat /\ Head(text) = job.s[d + 1] /\ RestOf(job.s, Tail(text))
          /\ Len(job.s) - Len(Tail(text)) = d + 1
      BY <1>3, <1>4, <2>1, PrintFacts
    <3>2. Spots[(d + 1) + 1].x = 0 /\ Spots[(d + 1) + 1].y = OnLastLine(Spot.y + 1)
      BY <1>3, <1>4, <2>1, <2>3, SpotFacts
    <3>3. pc' = "vga_char" /\ text' = Tail(text) /\ Taken' = d + 1
      BY <1>1, <2>3, <3>1 DEF Taken
    <3>4. Printed(vga, shown.vga, job.s, Ats, shown.attr, d)
      BY <2>1 DEF Wrote
    <3> HIDE DEF d
    <3>5. Printed(vga, shown.vga, job.s, Ats, shown.attr, d + 1)
      BY <2>3, <3>1, <3>4, NewlinePrinted
    <3>6. (Wrote(Taken))'
      BY <1>1, <2>2, <3>3, <3>5 DEF Wrote
    <3>7. Spot'.x = 0 /\ Spot'.y = OnLastLine(Spot.y + 1)
      BY <2>2, <3>2, <3>3 DEF Spot
    <3> QED
      BY <1>1, <2>1, <3>1, <3>3, <3>6, <3>7 DEF PrintInv
  <2>4. CASE Head(text) # Newline
    <3>1. pc' = "vga_put" /\ text' = text
      BY <1>1, <2>4
    <3>2. Taken' = Taken /\ Spot' = Spot /\ ((Wrote(Taken))' <=> Wrote(Taken))
      BY <1>1, <3>1, SameWrite
    <3>3. Spot.col = 0 /\ Spot.row = OnLastLine(Spot.y + 1)
      BY <1>3, <1>4, <2>1, <2>4, SpotFacts
    <3>4. RestOf(job.s, text)
      BY <1>3, <1>4, PrintFacts
    <3> QED
      BY <1>1, <2>1, <2>4, <3>1, <3>2, <3>3, <3>4 DEF PrintInv
  <2> QED
    BY <2>3, <2>4
<1> QED
  BY <1>1, <1>2, <1>3, <1>4, InPrint

\* A character is put where its line and column are (vga.c:50-51).
LEMMA PutHereWrite == ASSUME TextsShowable, IInv, WriteInv, PutHere PROVE WriteInv'
<1> DEFINE at == CellAt(vga_x, vga_y)
           word == [char |-> Head(text), attr |-> vga_attr]
<1>1. /\ pc = "vga_put" /\ pc' = "vga_step" /\ vga' = Store(vga, at, word)
      /\ UNCHANGED <<job, shown, vga_x, vga_y, vga_attr, text, pos_x, pos_y>>
  BY DEF PutHere, Put, Step, Same, callVars, textVars
<1> HIDE DEF at, word
<1>2. Stays
  BY <1>1 DEF Stays, TextLabels
<1>3. job.kind = "vga_print"
  BY <1>1 DEF WriteInv, LabelInv
<1>4. ASSUME Serving
      PROVE  at \in TextWords /\ Printed(vga', shown.vga, job.s, Ats, shown.attr, Taken + 1)
  <2> DEFINE d == Taken
  <2>1. /\ text # <<>> /\ Wrote(d) /\ vga_x = Spot.col /\ vga_y = Spot.row
        /\ Head(text) # Newline
    BY <1>1, <1>3, <1>4 DEF WriteInv, PrintInv
  <2>2. /\ d \in Nat /\ d + 1 \in 1 .. Len(job.s) /\ Head(text) = job.s[d + 1]
        /\ Len(job.s) \in Nat
        /\ TextWords \subseteq DOMAIN shown.vga /\ DOMAIN vga = DOMAIN shown.vga
        /\ vga_attr = shown.attr
    BY <1>3, <1>4, <2>1, PrintFacts
  <2>3. Spot.col \in 0 .. VGA_WIDTH - 1 /\ Spot.row \in 0 .. VGA_HEIGHT - 1
    BY <1>3, <1>4, <2>1, SpotFacts
  <2>4. at \in TextWords
    BY <2>1, <2>3, CellPlace DEF at
  <2>5. Ats[d + 1] = at
    <3>1. d + 1 \in 1 .. Len(job.s) + 1
      BY <2>2
    <3> QED
      BY <1>3, <2>1, <3>1 DEF Ats, at, Spot
  <2>6. Printed(vga, shown.vga, job.s, Ats, shown.attr, d)
    BY <2>1 DEF Wrote
  <2>7. word = [char |-> job.s[d + 1], attr |-> shown.attr] /\ job.s[d + 1] # Newline
    BY <2>1, <2>2 DEF word
  <2>8. Ats[d + 1] \in DOMAIN shown.vga /\ DOMAIN vga = DOMAIN shown.vga
    BY <2>2, <2>4, <2>5
  <2> HIDE DEF d
  <2>9. Printed(Store(vga, Ats[d + 1], [char |-> job.s[d + 1], attr |-> shown.attr]),
                shown.vga, job.s, Ats, shown.attr, d + 1)
    BY <2>2, <2>6, <2>7, <2>8, PrintsOne
  <2> QED
    BY <1>1, <2>4, <2>5, <2>7, <2>9 DEF d
<1>5. ASSUME Serving, Serving' PROVE PrintInv'
  <2>1. Taken' = Taken /\ Spot' = Spot /\ Ats' = Ats
    BY <1>1, SamePlaces DEF Taken, Spot
  <2>2. (Wrote(Taken + 1))'
    BY <1>1, <1>4, <1>5, <2>1 DEF Wrote
  <2>3. /\ text # <<>> /\ vga_x = Spot.col /\ vga_y = Spot.row /\ Head(text) # Newline
        /\ RestOf(job.s, text)
    BY <1>1, <1>3, <1>5 DEF WriteInv, PrintInv
  <2> QED
    BY <1>1, <2>1, <2>2, <2>3 DEF PrintInv
<1>6. \E p, q : vga' = Store(vga, p, q) /\ (Serving => p \in TextWords)
  BY <1>1, <1>4
<1> QED
  BY <1>1, <1>2, <1>3, <1>5, <1>6, InPrint

\* And the cursor goes behind it (vga.c:52-53).
LEMMA StepRightWrite == ASSUME TextsShowable, IInv, WriteInv, StepRight PROVE WriteInv'
<1>1. /\ pc = "vga_step" /\ pc' = "vga_char" /\ vga_x' = vga_x + 1 /\ text' = Tail(text)
      /\ UNCHANGED <<job, shown, vga, vga_y, vga_attr, pos_x, pos_y>>
  BY DEF StepRight, Step, Same, callVars
<1>2. Stays
  BY <1>1 DEF Stays, TextLabels
<1>3. job.kind = "vga_print"
  BY <1>1 DEF WriteInv, LabelInv
<1>4. ASSUME Serving, Serving' PROVE PrintInv'
  <2>1. /\ text # <<>> /\ Wrote(Taken + 1) /\ vga_x = Spot.col /\ vga_y = Spot.row
        /\ Head(text) # Newline
    BY <1>1, <1>3, <1>4 DEF WriteInv, PrintInv
  <2>2. Spots' = Spots /\ Ats' = Ats
    BY <1>1, SamePlaces
  <2>3. RestOf(job.s, Tail(text)) /\ Len(job.s) - Len(Tail(text)) = Taken + 1
    BY <1>3, <1>4, <2>1, PrintFacts
  <2>4. Spots[(Taken + 1) + 1].x = Spot.col + 1 /\ Spots[(Taken + 1) + 1].y = Spot.row
    BY <1>3, <1>4, <2>1, SpotFacts
  <2>5. Taken' = Taken + 1
    BY <1>1, <2>3 DEF Taken
  <2>6. (Wrote(Taken))'
    BY <1>1, <2>1, <2>2, <2>5 DEF Wrote
  <2>7. Spot'.x = Spot.col + 1 /\ Spot'.y = Spot.row
    BY <2>2, <2>4, <2>5 DEF Spot
  <2> QED
    BY <1>1, <2>1, <2>3, <2>6, <2>7 DEF PrintInv
<1> QED
  BY <1>1, <1>2, <1>3, <1>4, InPrint

\* Where the first character of a print goes, in this state and in the next.
FirstSpot == IsSeq(job.s) /\ FromScreen => Spots[1].x = shown.x /\ Spots[1].y = shown.y

\* A print begins at the cursor it found.
LEMMA FirstSpotHere == FirstSpot
BY SpotsFollow DEF FirstSpot

\* So does one that the next state serves.
LEMMA FirstSpotNext == FirstSpot'
BY FirstSpotHere, PTL

\* The words of a shape make what is asked for of what the screen holds (vga.c:10-32, 145-167).
LEMMA ShapeStarts ==
  ASSUME TextsShowable, IInv, StartText, Head(script).kind \in ShapeKinds
  PROVE  Pending(vga, vga, Ask', work')
<1> DEFINE call == Head(script)
<1>1. /\ job' = call /\ shown' = [vga |-> vga, x |-> vga_x, y |-> vga_y, attr |-> vga_attr]
      /\ work' = TextWordsOf(call) /\ Good(call)
  BY ScriptSteps DEF StartText, ShapeKinds, IInv, CallInv
<1>2. Showable(call) /\ TextTyped(call)
  BY <1>1 DEF Good
<1>3. shown'.vga = vga /\ shown'.attr = vga_attr
  BY <1>1
<1> HIDE DEF call
<1>4. CASE call.kind = "vga_clear"
  <2>1. \A k \in TextWords : Ask'[k] = [char |-> " ", attr |-> vga_attr]
    BY <1>1, <1>3, <1>4 DEF Ask, Asked, Cell
  <2>2. Pending(vga, vga, Ask', VgaClearWrites)
    BY <2>1, ClearPending
  <2> QED
    BY <1>1, <1>4, <2>2 DEF TextWordsOf
<1>5. CASE call.kind = "vga_rect"
  <2>1. call.x \in Nat /\ call.y \in Nat /\ call.w \in Int /\ call.h \in Int /\ call.color \in 0 .. 15
    BY <1>2, <1>5 DEF Showable, TextTyped
  <2>2. \A k \in TextWords :
          Ask'[k] = IF InBox(<<k % VGA_WIDTH, k \div VGA_WIDTH>>, call.x, call.y, call.w, call.h)
                    THEN [char |-> "block", attr |-> 17 * call.color] ELSE vga[k]
    BY <1>1, <1>3, <1>5 DEF Ask, Asked
  <2>3. Pending(vga, vga, Ask', VgaRectWrites(call.x, call.y, call.w, call.h, call.color))
    BY <2>1, <2>2, TextRectPending
  <2> QED
    BY <1>1, <1>5, <2>3 DEF TextWordsOf
<1>6. CASE call.kind = "vga_box"
  <2>1. /\ call.x \in Nat /\ call.y \in Nat
        /\ call.w \in Nat \ {0} /\ call.h \in Nat \ {0}
    BY <1>2, <1>6 DEF Showable, TextTyped
  <2>2. BoxAsked(Ask', vga, call.x, call.y, call.w, call.h)
    BY <1>1, <1>3, <1>6 DEF Ask, Asked, Cell, BoxAsked
  <2>3. Pending(vga, vga, Ask', VgaBoxWrites(call.x, call.y, call.w, call.h))
    BY <2>1, <2>2, BoxPending
  <2> QED
    BY <1>1, <1>6, <2>3 DEF TextWordsOf
<1> QED
  BY <1>4, <1>5, <1>6 DEF ShapeKinds, call

\* The attribute of two colours.
LEMMA PlainAttr == ASSUME NEW fg \in 0 .. 15, NEW bg \in 0 .. 15 PROVE Attr(fg, bg) = fg + 16 * bg
<1>1. (bg * 16) % 256 = bg * 16 /\ fg % 16 = fg
  OBVIOUS
<1>2. bg * 16 + fg = fg + 16 * bg
  OBVIOUS
<1> QED
  BY <1>1, <1>2 DEF Attr

\* A text call begins: nothing of it is written, and all of it is ahead.
LEMMA StartWrite == ASSUME TextsShowable, IInv, WriteInv, StartText PROVE WriteInv'
<1> DEFINE call == Head(script)
<1>1. /\ job' = call /\ shown' = [vga |-> vga, x |-> vga_x, y |-> vga_y, attr |-> vga_attr]
      /\ Good(call) /\ UNCHANGED <<vga, vga_x, vga_y>>
  BY ScriptSteps DEF StartText, IInv, CallInv
<1>2. Showable(call) /\ TextTyped(call)
  BY <1>1 DEF Good
<1>3. shown'.vga = vga /\ shown'.attr = vga_attr /\ shown'.x = vga_x /\ shown'.y = vga_y
  BY <1>1
<1>4. /\ call.kind = "vga_print" => pc' = "vga_char" /\ text' = call.s
      /\ call.kind \in ShapeKinds => pc' = "vga_draw"
      /\ call.kind = "vga_color" => pc' = "done" /\ vga_attr' = Attr(call.fg, call.bg)
      /\ call.kind # "vga_color" => vga_attr' = vga_attr
      /\ call.kind = "vga_cursor" => pc' = IF InText(call.x, call.y) THEN "to_x" ELSE "done"
      /\ call.kind = "vga_at" =>
           IF InText(call.x, call.y)
           THEN pc' = "to_x" /\ text' = call.s /\ pos_x' = vga_x /\ pos_y' = vga_y
           ELSE pc' = "done"
      /\ call.kind \in TextKinds
  BY DEF StartText, ShapeKinds, TextKinds
<1> HIDE DEF call
<1>5. vga = [k \in DOMAIN vga |-> vga[k]]
  BY DEF WriteInv, CellsInv
<1>6. /\ vga_x \in 0 .. VGA_WIDTH /\ vga_y \in Nat /\ VGA_HEIGHT \in Nat
      /\ TextWords \subseteq DOMAIN vga
  BY Constant DEF IInv, TextInv
<1>7. LabelInv' /\ CellsInv'
  BY <1>1, <1>4, <1>5 DEF LabelInv, CellsInv, ShapeKinds, TextKinds
<1>8. ASSUME Serving' PROVE FromScreen'
  BY <1>3, <1>6, <1>8 DEF Serving, FromScreen
<1>9. BeforeInv'
  <2> SUFFICES ASSUME Serving' PROVE BeforeInv'
    BY DEF BeforeInv
  <2>1. vga_attr' = AttrAsked(job)'
    <3>1. CASE call.kind = "vga_color"
      <4>1. call.fg \in 0 .. 15 /\ call.bg \in 0 .. 15
        BY <1>2, <3>1 DEF Showable
      <4> QED
        BY <1>1, <1>4, <3>1, <4>1, PlainAttr DEF AttrAsked
    <3>2. CASE call.kind # "vga_color"
      BY <1>1, <1>3, <1>4, <3>2 DEF AttrAsked
    <3> QED
      BY <3>1, <3>2
  <2> QED
    BY <1>1, <1>3, <1>5, <1>6, <1>8, <2>1 DEF BeforeInv
<1>10. DrawInv'
  <2> SUFFICES ASSUME call.kind \in ShapeKinds PROVE DrawInv'
    BY <1>1 DEF DrawInv
  <2>1. Pending(vga, vga, Ask', work')
    BY ShapeStarts DEF call
  <2> QED
    BY <1>1, <1>3, <1>4, <2>1 DEF DrawInv
<1>11. PlainInv'
  <2>1. call.kind = "vga_cursor" =>
          CursorAsked(job)' = IF InText(call.x, call.y) THEN <<call.x, call.y>>
                              ELSE <<vga_x, vga_y>>
    BY <1>1, <1>3 DEF CursorAsked
  <2> QED
    BY <1>1, <1>3, <1>4, <2>1 DEF PlainInv, ShapeKinds
<1>12. ASSUME call.kind \in {"vga_print", "vga_at"}, text' = call.s
       PROVE  RestOf(job.s, text)' /\ Taken' = 0 /\ (Wrote(0))' /\ IsSeq(job'.s)
  <2> DEFINE s == call.s
  <2>1. IsSeq(s)
    BY <1>2, <1>12 DEF Showable, IsSeq
  <2> HIDE DEF s
  <2>2. Len(s) \in Nat
    BY <2>1, SeqFacts
  <2>3. RestOf(s, s) /\ Len(s) - Len(s) = 0
    BY <2>1, <2>2 DEF RestOf
  <2>4. (Wrote(0))'
    BY <1>1, <1>3, NothingPrinted DEF Wrote
  <2> QED
    BY <1>1, <1>12, <2>1, <2>3, <2>4 DEF Taken, s
<1>13. PrintInv'
  <2> SUFFICES ASSUME call.kind = "vga_print", Serving' PROVE PrintInv'
    BY <1>1 DEF PrintInv
  <2>1. RestOf(job.s, text)' /\ Taken' = 0 /\ (Wrote(0))' /\ IsSeq(job'.s) /\ pc' = "vga_char"
    BY <1>4, <1>12
  <2>2. Spots'[1].x = shown'.x /\ Spots'[1].y = shown'.y
    BY <1>8, <2>1, FirstSpotNext DEF FirstSpot
  <2>3. Spot'.x = vga_x' /\ Spot'.y = vga_y'
    BY <1>1, <1>3, <2>1, <2>2 DEF Spot
  <2>4. (Wrote(Taken))'
    BY <2>1
  <2> QED
    BY <2>1, <2>3, <2>4 DEF PrintInv
<1>14. AtInv'
  <2> SUFFICES ASSUME call.kind = "vga_at" PROVE AtInv'
    BY <1>1 DEF AtInv
  <2>1. CASE InText(call.x, call.y)
    <3>1. /\ pc' = "to_x" /\ text' = call.s /\ pos_x' = shown'.x /\ pos_y' = shown'.y
      BY <1>3, <1>4, <2>1
    <3>2. RestOf(job.s, text)' /\ Taken' = 0 /\ (Wrote(0))'
      BY <1>12, <3>1
    <3>3. (Wrote(Taken))' /\ (\A j \in 1 .. Taken : job.s[j] # Newline)'
      BY <3>2
    <3> QED
      BY <1>1, <2>1, <3>1, <3>2, <3>3 DEF AtInv
  <2>2. CASE ~InText(call.x, call.y)
    BY <1>1, <1>3, <1>4, <2>2 DEF AtInv
  <2> QED
    BY <2>1, <2>2
<1> QED
  BY <1>7, <1>9, <1>10, <1>11, <1>13, <1>14 DEF WriteInv

\* The steps outside the calls of the text screen.
LEMMA OtherWrite ==
  ASSUME PaintInv, WriteInv,
         \/ (CallStep \/ Request) /\ UNCHANGED vgaVars
         \/ Fault \/ GoAstray \/ Halt \/ TextTick
  PROVE  WriteInv'
<1>1. vga' = vga
  BY DEF vgaVars, Fault, GoAstray, Halt, TextTick
<1>2. pc' \notin TextLabels \ {"stopped"} /\ (pc' \in {"ready", "stopped"} \/ job'.kind \notin TextKinds)
  <2>1. CASE StartCall
    BY <2>1 DEF StartCall, TextLabels, TextKinds
  <2>2. CASE Return \/ Request \/ Fault \/ GoAstray \/ Halt \/ TextTick
    BY <2>2 DEF Return, Request, Fault, GoAstray, Halt, TextTick, TickStarts, TextLabels
  <2>3. CASE CallStep /\ ~StartCall /\ ~Return
    <3>1. /\ pc \in Labels \ {"ready", "done"} /\ job' = job
          /\ pc' \in Labels \ {"ready"}
      BY <2>3 DEF CallStep, WritePixel, Drawn, AfterDraw, HomeX, HomeY, EndOfText, DrawChar,
                  PosNewline, PosAdvance, CursorNewline, CursorAdvance, CursorWrap, CursorLine,
                  CursorTop, callVars, Labels
    <3>2. job.kind \notin TextKinds
      BY <3>1 DEF PaintInv, KindInv, Labels, TextKinds, Shapes, Strokes
    <3> QED
      BY <3>1, <3>2 DEF Labels, TextLabels
  <2> QED
    BY <2>1, <2>2, <2>3
<1> QED
  BY <1>1, <1>2, IdleWrite

\* Every step keeps the invariant.
LEMMA NextWrite ==
  TextsShowable /\ IInv /\ PaintInv /\ WriteInv /\ [TextNext]_textScreenVars => WriteInv'
<1>1. ASSUME TextsShowable, IInv, PaintInv, WriteInv, TextNext PROVE WriteInv'
  BY <1>1, StartWrite, CellWrite, DrawnWrite, ToXWrite, ToYWrite, LineWrite, LimitWrite,
     PutHereWrite, StepRightWrite, PutThereWrite, StepThereWrite, BackWrite, OtherWrite,
     Zenon DEF TextNext, TextStep
<1>2. ASSUME WriteInv, UNCHANGED textScreenVars PROVE WriteInv'
  <2>1. UNCHANGED <<pc, job, work, text, pos_x, pos_y, vga, vga_x, vga_y, vga_attr, shown>>
    BY <1>2 DEF textScreenVars, vars, textVars, callVars, vgaVars
  <2>2. /\ Spots' = Spots /\ (FromScreen' <=> FromScreen) /\ AttrAsked(job)' = AttrAsked(job)
        /\ job.kind \in ShapeKinds => Ask' = Ask
        /\ job.kind # "vga_print" => CursorAsked(job)' = CursorAsked(job)
    BY <2>1, SamePlaces
  <2>3. /\ Taken' = Taken /\ Spot' = Spot /\ (Stops' <=> Stops)
        /\ (Wrote(Taken))' <=> Wrote(Taken)
        /\ (Wrote(Taken + 1))' <=> Wrote(Taken + 1)
        /\ (Wrote(Len(job.s)))' <=> Wrote(Len(job.s))
    BY <2>1, SameWrite
  <2>4. (Serving' <=> Serving) /\ (GoesOn' <=> GoesOn)
        /\ (InText(job.x, job.y)' <=> InText(job.x, job.y))
    BY <2>1 DEF Serving, GoesOn
  <2>5. LabelInv' /\ CellsInv' /\ BeforeInv'
    BY <1>2, <2>1, <2>2, <2>4 DEF WriteInv, LabelInv, CellsInv, BeforeInv
  <2>6. DrawInv' /\ PlainInv'
    BY <1>2, <2>1, <2>2, <2>4 DEF WriteInv, DrawInv, PlainInv
  <2>7. PrintInv'
    BY <1>2, <2>1, <2>2, <2>3, <2>4 DEF WriteInv, PrintInv
  <2>8. AtInv'
    BY <1>2, <2>1, <2>3, <2>4 DEF WriteInv, AtInv
  <2> QED
    BY <2>5, <2>6, <2>7, <2>8 DEF WriteInv
<1> QED
  BY <1>1, <1>2

\* The invariant holds in every state.
LEMMA WriteKnown == TextsShowable => (TextSpec => []WriteInv)
<1> SUFFICES ASSUME TextsShowable PROVE TextSpec => []WriteInv
  OBVIOUS
<1>1. IInv /\ PaintInv /\ WriteInv /\ [TextNext]_textScreenVars => WriteInv'
  BY NextWrite
<1> QED
  BY <1>1, InitWrite, ScreensKnown, PaintKnown, PTL DEF TextSpec

-----------------------------------------------------------------------------
(***************************************************************************)
(* What the screen holds when a text call is done.                         *)
(***************************************************************************)
\* A print has written the last character that its lines and columns put in each cell.
LEMMA PrintDone ==
  ASSUME TextsShowable, IInv, WriteInv, Serving, job.kind = "vga_print", pc = "done",
         NEW k \in DOMAIN shown.vga
  PROVE  vga[k] = IF k \in TextWords THEN Asked(job, k) ELSE shown.vga[k]
<1> DEFINE s == job.s
           here == Sits(s, Ats, k, Len(s))
<1>1. IsSeq(s) /\ Len(s) \in Nat /\ DOMAIN s = 1 .. Len(s)
  BY ServedText, SeqFacts
<1>2. FromScreen
  BY DEF WriteInv, BeforeInv
<1>3. Printed(vga, shown.vga, s, Ats, shown.attr, Len(s))
  BY DEF WriteInv, PrintInv, Wrote
<1>4. vga[k] = IF here = {} THEN shown.vga[k] ELSE [char |-> s[Max(here)], attr |-> shown.attr]
  <2> DEFINE d == Len(s)
  <2>1. d \in Nat /\ Printed(vga, shown.vga, s, Ats, shown.attr, d)
    BY <1>1, <1>3
  <2> HIDE DEF d, s
  <2>2. vga[k] = IF Sits(s, Ats, k, d) = {} THEN shown.vga[k]
                 ELSE [char |-> s[Max(Sits(s, Ats, k, d))], attr |-> shown.attr]
    BY <2>1, PrintedWord
  <2> QED
    BY <2>2 DEF d, s
<1>5. ASSUME NEW i \in 1 .. Len(s) PROVE Ats[i] = PlaceOf(s, i) /\ Ats[i] \in TextWords
  <2>1. i \in 1 .. Len(s) + 1
    BY <1>1
  <2>2. Ats[i] = CellAt(Spots[i].col, Spots[i].row)
    BY <2>1 DEF Ats
  <2>3. /\ Spots[i].col = Column(s, i) % VGA_WIDTH
        /\ Spots[i].row = LineFrom(s, i, Column(s, i))
    BY <2>1 DEF Spots
  <2>4. Spots[i].col \in 0 .. VGA_WIDTH - 1 /\ Spots[i].row \in 0 .. VGA_HEIGHT - 1
    BY <1>1, <1>2, <2>1, SpotsFollow
  <2>5. Ats[i] \in TextWords
    BY <2>2, <2>4, CellPlace
  <2> QED
    BY <2>2, <2>3, <2>5 DEF PlaceOf
<1>6. here = {i \in DOMAIN s : s[i] # Newline /\ PlaceOf(s, i) = k}
  BY <1>1, <1>5 DEF Sits
<1>7. CASE k \notin TextWords
  <2>1. here = {}
    BY <1>5, <1>7 DEF Sits
  <2> QED
    BY <1>4, <1>7, <2>1
<1>8. CASE k \in TextWords
  <2> HIDE DEF here
  <2>1. Asked(job, k) = IF here = {} THEN shown.vga[k] ELSE Cell(s[Max(here)])
    BY <1>6 DEF Asked
  <2> QED
    BY <1>4, <1>8, <2>1 DEF Cell
<1> QED
  BY <1>7, <1>8

\* And has left the cursor behind the last character.
LEMMA PrintEnds ==
  ASSUME TextsShowable, IInv, WriteInv, Serving, job.kind = "vga_print", pc = "done"
  PROVE  <<vga_x, vga_y>> = CursorAsked(job)
<1> DEFINE s == job.s
           i == Len(s) + 1
           n == Column(s, i)
<1>1. IsSeq(s) /\ Len(s) \in Nat
  BY ServedText, SeqFacts
<1>2. vga_x = Spots[i].x /\ vga_y = Spots[i].y
  BY DEF WriteInv, PrintInv
<1>3. i \in 1 .. Len(s) + 1
  BY <1>1
<1>4. Spots[i].x = BehindX(s, i) /\ Spots[i].y = BehindY(s, i)
  BY <1>3 DEF Spots
<1>5. CursorAsked(job) = CursorBehind(s)
  BY DEF CursorAsked
<1>6. CursorBehind(s) = <<BehindX(s, i), BehindY(s, i)>>
  BY DEF CursorBehind, BehindX, BehindY
<1> QED
  BY <1>2, <1>4, <1>5, <1>6

\* vga_print_at has written the characters of one line that fit on it.
LEMMA AtDone ==
  ASSUME TextsShowable, IInv, WriteInv, Serving, job.kind = "vga_at", pc = "done",
         InText(job.x, job.y), NEW k \in DOMAIN shown.vga
  PROVE  vga[k] = IF k \in TextWords THEN Asked(job, k) ELSE shown.vga[k]
<1> DEFINE s == job.s
           x == job.x
           y == job.y
           d == Taken
           here == Sits(s, Ats, k, d)
<1>1. /\ IsSeq(s) /\ Len(s) \in Nat /\ DOMAIN s = 1 .. Len(s)
      /\ x \in 0 .. VGA_WIDTH - 1 /\ y \in 0 .. VGA_HEIGHT - 1
      /\ VGA_WIDTH \in Nat /\ VGA_HEIGHT \in Nat
  <2>1. x \in Int /\ y \in Int
    BY ServedText DEF TextTyped
  <2>2. IsSeq(s) /\ Len(s) \in Nat /\ DOMAIN s = 1 .. Len(s)
    BY ServedText, SeqFacts
  <2>3. VGA_WIDTH \in Nat /\ VGA_HEIGHT \in Nat
    BY Constant
  <2>4. x >= 0 /\ x < VGA_WIDTH /\ y >= 0 /\ y < VGA_HEIGHT
    BY DEF InText
  <2> HIDE DEF s, x, y
  <2>5. x \in 0 .. VGA_WIDTH - 1 /\ y \in 0 .. VGA_HEIGHT - 1
    BY <2>1, <2>3, <2>4
  <2> QED
    BY <2>2, <2>3, <2>5
<1>2. /\ RestOf(s, text) /\ \A j \in 1 .. d : s[j] # Newline
      /\ Wrote(d) /\ Stops /\ x + d <= VGA_WIDTH
  BY DEF WriteInv, AtInv
<1>3. /\ d \in 0 .. Len(s)
      /\ text = <<>> => d = Len(s)
      /\ text # <<>> => d + 1 \in 1 .. Len(s) /\ Head(text) = s[d + 1]
  BY <1>1, <1>2, TextTaken
<1>4. d = Len(s) \/ x + d >= VGA_WIDTH \/ (d + 1 \in 1 .. Len(s) /\ s[d + 1] = Newline)
  BY <1>2, <1>3 DEF Stops
<1>5. Printed(vga, shown.vga, s, Ats, shown.attr, d)
  BY <1>2 DEF Wrote
<1>6. ASSUME NEW i \in 1 .. d
      PROVE  /\ Ats[i] = CellAt((x + i) - 1, y)
             /\ (x + i) - 1 \in 0 .. VGA_WIDTH - 1
  <2>1. i \in 1 .. Len(s) + 1
    BY <1>1, <1>3
  <2>2. Ats[i] = CellAt((x + i) - 1, y)
    BY <2>1 DEF Ats
  <2> HIDE DEF d, x
  <2>3. (x + i) - 1 \in 0 .. VGA_WIDTH - 1
    BY <1>1, <1>2, <1>3
  <2> QED
    BY <2>2, <2>3 DEF x
<1>7. Asked(job, k) =
        IF k \div VGA_WIDTH = y /\ (k % VGA_WIDTH) - x + 1 \in OneLine(s)
        THEN Cell(s[(k % VGA_WIDTH) - x + 1]) ELSE shown.vga[k]
  BY DEF Asked
<1>8. d \in 0 .. Len(s)
  BY <1>3
<1> HIDE DEF s, x, y, d, here
<1>9. d \in Nat
  BY <1>8
<1>10. vga[k] = IF here = {} THEN shown.vga[k] ELSE [char |-> s[Max(here)], attr |-> shown.attr]
  <2>1. vga[k] = IF Sits(s, Ats, k, d) = {} THEN shown.vga[k]
                 ELSE [char |-> s[Max(Sits(s, Ats, k, d))], attr |-> shown.attr]
    BY <1>5, <1>8, <1>9, PrintedWord
  <2> QED
    BY <2>1 DEF here
<1>11. CASE k \notin TextWords
  <2>1. \A i \in 1 .. d : Ats[i] \in TextWords
    BY <1>1, <1>6, CellPlace
  <2>2. here = {}
    BY <1>11, <2>1 DEF here, Sits
  <2> QED
    BY <1>10, <1>11, <2>2
<1>12. CASE k \in TextWords
  <2> DEFINE a == k % VGA_WIDTH
             b == k \div VGA_WIDTH
             i == (a - x) + 1
  <2>1. a \in 0 .. VGA_WIDTH - 1 /\ b \in 0 .. VGA_HEIGHT - 1 /\ CellAt(a, b) = k
    BY <1>12, PlaceOfCell
  <2>2. \A j \in 1 .. d : Ats[j] % VGA_WIDTH = (x + j) - 1 /\ Ats[j] \div VGA_WIDTH = y
    BY <1>1, <1>6, CellPlace
  <2>3. Asked(job, k) = IF b = y /\ i \in OneLine(s) THEN Cell(s[i]) ELSE shown.vga[k]
    <3>1. (k % VGA_WIDTH) - x + 1 = i
      BY <1>1, <2>1
    <3> QED
      BY <1>7, <3>1
  <2>4. \A j \in 1 .. d : Ats[j] = k => j = i /\ b = y
    <3> TAKE j \in 1 .. d
    <3> HAVE Ats[j] = k
    <3>1. a = (x + j) - 1 /\ b = y
      BY <2>2
    <3> HIDE DEF a, b
    <3>2. j = (a - x) + 1
      BY <1>1, <1>9, <3>1
    <3> QED
      BY <3>1, <3>2 DEF a, b
  <2> HIDE DEF a, b, i
  <2>5. i = (a - x) + 1
    BY DEF i
  <2>6. i \in OneLine(s) <=> i \in 1 .. d
    <3>1. ASSUME i \in 1 .. d PROVE i \in OneLine(s)
      <4>1. DOMAIN s = 1 .. Len(s) /\ Len(s) \in Nat
        BY <1>1
      <4>2. i \in 1 .. Len(s) /\ \A j \in 1 .. i : j \in 1 .. d
        BY <1>8, <1>9, <3>1, <4>1
      <4> QED
        BY <1>2, <4>1, <4>2 DEF OneLine, s, d
    <3>2. ASSUME i \in OneLine(s) PROVE i \in 1 .. d
      <4>1. i \in 1 .. Len(s) /\ \A j \in 1 .. i : s[j] # Newline
        BY <1>1, <3>2 DEF OneLine
      <4>2. x + i <= VGA_WIDTH
        BY <1>1, <2>1, <2>5
      <4>3. CASE d = Len(s)
        BY <4>1, <4>3
      <4>4. CASE x + d >= VGA_WIDTH
        BY <1>1, <1>8, <1>9, <4>1, <4>2, <4>4
      <4>5. CASE d + 1 \in 1 .. Len(s) /\ s[d + 1] = Newline
        <5>1. ~(d + 1 <= i)
          <6> SUFFICES ASSUME d + 1 <= i PROVE FALSE
            OBVIOUS
          <6>1. d + 1 \in 1 .. i
            BY <1>9, <4>1, <4>5
          <6> QED
            BY <4>1, <4>5, <6>1
        <5> QED
          BY <1>1, <1>8, <1>9, <4>1, <5>1
      <4> QED
        BY <1>4, <4>3, <4>4, <4>5
    <3> QED
      BY <3>1, <3>2
  <2>7. CASE b = y /\ i \in 1 .. d
    <3>1. (x + i) - 1 = a
      BY <1>1, <2>1, <2>5
    <3>2. Ats[i] = k
      BY <1>6, <2>1, <2>7, <3>1
    <3>3. s[i] # Newline
      BY <1>2, <2>7 DEF s, d
    <3>4. here = {i}
      BY <2>4, <2>7, <3>2, <3>3 DEF here, Sits
    <3>5. Max(here) = i
      <4>1. i \in here /\ here \subseteq Int /\ \A j \in here : i >= j
        BY <2>7, <3>4
      <4> QED
        BY <4>1, MaxIs
    <3>6. here # {}
      BY <3>4
    <3>7. vga[k] = [char |-> s[i], attr |-> shown.attr]
      BY <1>10, <3>5, <3>6
    <3>8. Asked(job, k) = Cell(s[i])
      BY <2>3, <2>6, <2>7
    <3> QED
      BY <1>12, <3>7, <3>8 DEF Cell
  <2>8. CASE ~(b = y /\ i \in 1 .. d)
    <3>1. here = {}
      BY <2>4, <2>8 DEF here, Sits
    <3>2. Asked(job, k) = shown.vga[k]
      BY <2>3, <2>6, <2>8
    <3> QED
      BY <1>10, <1>12, <3>1, <3>2
  <2> QED
    BY <2>7, <2>8
<1> QED
  BY <1>11, <1>12

\* The calls that store a shape have stored all of it, and nothing else.
LEMMA ShapeDone ==
  ASSUME WriteInv, Serving, job.kind \in ShapeKinds, pc = "done", NEW k \in DOMAIN shown.vga
  PROVE  vga[k] = IF k \in TextWords THEN Asked(job, k) ELSE shown.vga[k]
<1>1. Pending(vga, shown.vga, Ask, <<>>)
  BY DEF WriteInv, DrawInv
<1>2. /\ \A i \in TextWords : vga[i] = Ask[i]
      /\ \A i \in DOMAIN shown.vga \ TextWords : vga[i] = shown.vga[i]
  BY <1>1, AllStored
<1> QED
  BY <1>2 DEF Ask

\* The calls that store nothing leave every cell as it was.
LEMMA PlainDone ==
  ASSUME WriteInv, Serving, pc = "done", NEW k \in DOMAIN shown.vga,
         \/ job.kind \in {"vga_color", "vga_cursor"}
         \/ job.kind = "vga_at" /\ ~InText(job.x, job.y)
  PROVE  vga[k] = IF k \in TextWords THEN Asked(job, k) ELSE shown.vga[k]
<1>1. vga = shown.vga
  BY DEF WriteInv, PlainInv, AtInv
<1>2. Asked(job, k) = shown.vga[k]
  <2>1. CASE job.kind = "vga_color"
    BY <2>1 DEF Asked
  <2>2. CASE job.kind = "vga_cursor"
    BY <2>2 DEF Asked
  <2>3. CASE job.kind = "vga_at" /\ ~InText(job.x, job.y)
    BY <2>3 DEF Asked
  <2> QED
    BY <2>1, <2>2, <2>3
<1> QED
  BY <1>1, <1>2

\* Where each call leaves the cursor.
LEMMA CursorDone ==
  ASSUME TextsShowable, IInv, WriteInv, Serving, pc = "done"
  PROVE  <<vga_x, vga_y>> = CursorAsked(job)
<1>1. CASE job.kind = "vga_print"
  BY <1>1, PrintEnds
<1>2. CASE job.kind \in {"vga_clear", "vga_cursor"}
  BY <1>2 DEF WriteInv, PlainInv
<1>3. CASE job.kind \in {"vga_color", "vga_rect", "vga_box", "vga_at"}
  <2>1. vga_x = shown.x /\ vga_y = shown.y
    <3>1. CASE job.kind = "vga_at"
      BY <3>1 DEF WriteInv, AtInv
    <3>2. CASE job.kind # "vga_at"
      BY <1>3, <3>2 DEF WriteInv, PlainInv
    <3> QED
      BY <3>1, <3>2
  <2>2. CursorAsked(job) = <<shown.x, shown.y>>
    BY <1>3 DEF CursorAsked
  <2> QED
    BY <2>1, <2>2
<1> QED
  BY <1>1, <1>2, <1>3 DEF Serving, TextKinds

\* The invariants say all that the property asks of the screen.
LEMMA TextShownHere == ASSUME TextsShowable, IInv, WriteInv PROVE TextShown
<1> SUFFICES ASSUME pc = "done", job.kind \in TextKinds, shown.y < VGA_HEIGHT
             PROVE  /\ vga = [k \in DOMAIN shown.vga |-> IF k \in TextWords THEN Asked(job, k)
                                                         ELSE shown.vga[k]]
                    /\ <<vga_x, vga_y>> = CursorAsked(job)
                    /\ vga_attr = AttrAsked(job)
                    /\ NumberAsked(job)
  BY DEF TextShown
<1>1. Serving
  BY DEF Serving
<1>2. /\ vga = [k \in DOMAIN vga |-> vga[k]] /\ DOMAIN vga = DOMAIN shown.vga
      /\ vga_attr = AttrAsked(job)
  BY <1>1 DEF WriteInv, CellsInv, BeforeInv
<1>3. ASSUME NEW k \in DOMAIN shown.vga
      PROVE  vga[k] = IF k \in TextWords THEN Asked(job, k) ELSE shown.vga[k]
  <2>1. CASE job.kind = "vga_print"
    BY <1>1, <2>1, PrintDone
  <2>2. CASE job.kind = "vga_at" /\ InText(job.x, job.y)
    BY <1>1, <2>2, AtDone
  <2>3. CASE job.kind \in ShapeKinds
    BY <1>1, <2>3, ShapeDone
  <2>4. CASE job.kind \in {"vga_color", "vga_cursor"}
    BY <1>1, <2>4, PlainDone
  <2>5. CASE job.kind = "vga_at" /\ ~InText(job.x, job.y)
    BY <1>1, <2>5, PlainDone
  <2> QED
    BY <2>1, <2>2, <2>3, <2>4, <2>5 DEF TextKinds, ShapeKinds
<1>4. vga = [k \in DOMAIN shown.vga |-> IF k \in TextWords THEN Asked(job, k) ELSE shown.vga[k]]
  BY <1>2, <1>3
<1>5. <<vga_x, vga_y>> = CursorAsked(job)
  BY <1>1, CursorDone
<1>6. NumberAsked(job)
  BY ServedText DEF Showable
<1> QED
  BY <1>2, <1>4, <1>5, <1>6

\* When a text call is done, the cells, the cursor and the colour are what it asked for over
\* what was there, and no other word has changed, whatever was printed and cut short before,
\* for every screen, every set of requests that can be shown, every script and every handler:
\* vga_print's lines and columns, vga_print_at and its borrowed cursor, the shapes (vga.c).
\* That the digits of a number stand for it is a condition on the requests.
THEOREM TextAlwaysShown == TextsShowable => (TextSpec => []TextShown)
<1> SUFFICES ASSUME TextsShowable PROVE TextSpec => []TextShown
  OBVIOUS
<1>1. IInv /\ WriteInv => TextShown
  BY TextShownHere
<1> QED
  BY <1>1, WriteKnown, ScreensKnown, PTL
=============================================================================
