--------------------------- MODULE EncodingProofs ---------------------------
(***************************************************************************)
(* The bits of the emitter, for every register, immediate, condition and   *)
(* number of words: the word of each operation decodes to the instruction  *)
(* its listing line names, patching leaves the rest of a word alone, and   *)
(* the emitter of bits implements Emitter.                                 *)
(***************************************************************************)
EXTENDS Encoding, SequenceTheorems, FiniteSetTheorems, TLAPS

-----------------------------------------------------------------------------
(* Counting down and powers of two *)

(* What holds at n, and below wherever it holds one above, holds down to 0. *)
LEMMA DownTo ==
    ASSUME NEW n \in Nat, NEW P, n \in P, \A k \in 0 .. n - 1 : k + 1 \in P => k \in P
    PROVE  0 .. n \subseteq P
<1> DEFINE Bad == {n - k : k \in {i \in 0 .. n : i \notin P}}
           Below == {0 .. x : x \in Bad}
           R == StrictSubsetOrdering(Nat)
<1> SUFFICES ASSUME NEW low \in 0 .. n, low \notin P PROVE FALSE
  OBVIOUS
<1>1. Bad \in SUBSET Nat /\ n - low \in Bad /\ \A x \in Bad : x \in Int
  OBVIOUS
<1>2. Bad # {}
  OBVIOUS
<1>9. Below \subseteq FiniteSubsetsOf(Nat) /\ Below # {}
  <2> HIDE DEF Bad
  <2>1. ASSUME NEW x \in Nat PROVE IsFiniteSet(0 .. x) /\ 0 .. x \subseteq Nat
    BY FS_Interval
  <2> QED  BY <1>1, <2>1 DEF FiniteSubsetsOf
<1>3. PICK s \in Below : \A t \in Below : <<t, s>> \notin R
  <2> HIDE DEF Below
  <2> QED  BY <1>9, FS_StrictSubsetOrderingWellFounded, WFMin
<1>4. PICK k \in 0 .. n : k \notin P /\ s = 0 .. n - k
  BY <1>3 DEF Below, Bad
<1>5. k + 1 \notin P /\ k + 1 \in 0 .. n
  BY <1>4
<1>6. 0 .. n - (k + 1) \in Below
  BY <1>5
<1>7. 0 .. n - (k + 1) \subseteq 0 .. n - k /\ 0 .. n - (k + 1) # 0 .. n - k
  <2>1. n - k \in 0 .. n - k /\ n - k \notin 0 .. n - (k + 1)
    OBVIOUS
  <2> QED  BY <2>1
<1>8. <<0 .. n - (k + 1), s>> \in R
  BY <1>4, <1>7 DEF StrictSubsetOrdering
<1> QED  BY <1>3, <1>6, <1>8

(* The same, upwards. *)
LEMMA UpTo ==
    ASSUME NEW n \in Nat, NEW P, 0 \in P, \A k \in 0 .. n - 1 : k \in P => k + 1 \in P
    PROVE  0 .. n \subseteq P
<1> DEFINE Q == {k \in 0 .. n : n - k \in P}
<1>1. n \in Q
  OBVIOUS
<1>2. ASSUME NEW k \in 0 .. n - 1, k + 1 \in Q PROVE k \in Q
  <2>1. n - (k + 1) \in 0 .. n - 1 /\ n - (k + 1) + 1 = n - k /\ n - (k + 1) \in P
    BY <1>2
  <2> QED  BY <2>1
<1>3. 0 .. n \subseteq Q
  <2> HIDE DEF Q
  <2> QED  BY <1>1, <1>2, DownTo
<1> SUFFICES ASSUME NEW k \in 0 .. n PROVE k \in P
  OBVIOUS
<1>4. n - k \in 0 .. n /\ n - (n - k) = k
  OBVIOUS
<1> QED  BY <1>3, <1>4

(* Powers of two, at the exponents the masks of the code have. *)
LEMMA Powers ==
    /\ TwoTo[0] = 1 /\ TwoTo[1] = 2 /\ TwoTo[2] = 4 /\ TwoTo[3] = 8
    /\ TwoTo[4] = 16 /\ TwoTo[5] = 32 /\ TwoTo[6] = 64 /\ TwoTo[7] = 128
    /\ TwoTo[8] = 256 /\ TwoTo[9] = 512 /\ TwoTo[10] = 1024 /\ TwoTo[11] = 2048
    /\ TwoTo[12] = 4096 /\ TwoTo[13] = 8192 /\ TwoTo[14] = 16384 /\ TwoTo[15] = 32768
    /\ TwoTo[16] = 65536 /\ TwoTo[17] = 131072 /\ TwoTo[18] = 262144 /\ TwoTo[19] = 524288
    /\ TwoTo[20] = 1048576 /\ TwoTo[21] = 2097152 /\ TwoTo[22] = 4194304
    /\ TwoTo[23] = 8388608 /\ TwoTo[24] = 16777216 /\ TwoTo[25] = 33554432
    /\ TwoTo[26] = 67108864 /\ TwoTo[27] = 134217728 /\ TwoTo[28] = 268435456
    /\ TwoTo[29] = 536870912 /\ TwoTo[30] = 1073741824
<1> DEFINE p == <<1, 2, 4, 8, 16, 32, 64, 128, 256, 512, 1024, 2048, 4096, 8192, 16384,
                  32768, 65536, 131072, 262144, 524288, 1048576, 2097152, 4194304, 8388608,
                  16777216, 33554432, 67108864, 134217728, 268435456, 536870912, 1073741824>>
           f == [j \in 0 .. 30 |-> p[j + 1]]
<1>1. p[1] = 1 /\ \A j \in 1 .. 30 : p[j + 1] = 2 * p[j]
  OBVIOUS
<1>2. f = [j \in 0 .. 30 |-> IF j = 0 THEN 1 ELSE 2 * f[j - 1]]
  <2> HIDE DEF p
  <2> QED  BY <1>1
<1>3. TwoTo = [j \in 0 .. 30 |-> IF j = 0 THEN 1 ELSE 2 * TwoTo[j - 1]]
  <2> HIDE DEF f
  <2> QED  BY <1>2 DEF TwoTo
<1>4. TwoTo[0] = 1 /\ \A j \in 1 .. 30 : TwoTo[j] = 2 * TwoTo[j - 1]
  BY <1>3
<1> QED  BY <1>4

(* What is used of the powers, whatever the exponent. *)
LEMMA PowerFacts ==
    /\ \A j \in 0 .. 30 : TwoTo[j] \in Nat \ {0}
    /\ \A j \in 0 .. 29 : TwoTo[j + 1] = 2 * TwoTo[j]
BY Powers

(* The quotient is the only one. *)
LEMMA QuotientIs ==
    ASSUME NEW m \in Nat \ {0}, NEW n \in Int, NEW q \in Int, NEW r \in Int,
           0 <= r, r < m, n = m * q + r
    PROVE  n \div m = q
<1>1. n % m \in 0 .. m - 1 /\ n \div m \in Int /\ n = (m * (n \div m)) + (n % m)
  OBVIOUS
<1> DEFINE d == q - (n \div m)
<1>2. d \in Int /\ m * d = (n % m) - r
  BY <1>1
<1>3. -m < m * d /\ m * d < m
  BY <1>1, <1>2
<1> HIDE DEF d
<1>4. d = 0
  <2>1. ~(d >= 1)
    BY <1>2, <1>3
  <2>2. ~(d <= -1)
    BY <1>2, <1>3
  <2> QED  BY <1>2, <2>1, <2>2
<1> QED  BY <1>1, <1>4 DEF d

(* A remainder, by its quotient. *)
LEMMA RemainderIs ==
    ASSUME NEW m \in Nat \ {0}, NEW n \in Int, NEW q \in Int, NEW r \in Int,
           0 <= r, r < m, n = m * q + r
    PROVE  n % m = r
<1>1. n \div m = q
  BY QuotientIs
<1>2. n = (m * (n \div m)) + (n % m) /\ n % m \in 0 .. m - 1
  OBVIOUS
<1> QED  BY <1>1, <1>2

(* A number below the divisor has quotient 0. *)
LEMMA Smaller == ASSUME NEW m \in Nat \ {0}, NEW n \in 0 .. m - 1 PROVE n \div m = 0
BY QuotientIs

(* Shifting right by one more. *)
LEMMA ShiftOnce ==
    ASSUME NEW n \in Nat, NEW j \in 0 .. 29
    PROVE  /\ n \div TwoTo[j] \in Nat
           /\ (n \div TwoTo[j]) % 2 \in {0, 1}
           /\ n \div TwoTo[j] = (2 * (n \div TwoTo[j + 1])) + ((n \div TwoTo[j]) % 2)
<1> DEFINE m == TwoTo[j]
           a == n \div m
           c == a \div 2
<1>1. m \in Nat \ {0} /\ TwoTo[j + 1] = 2 * m
  BY PowerFacts
<1> HIDE DEF m
<1>2. a \in Nat /\ n % m \in 0 .. m - 1 /\ n = (m * a) + (n % m)
  BY <1>1
<1> HIDE DEF a
<1>3. c \in Nat /\ a % 2 \in {0, 1} /\ a = (2 * c) + (a % 2)
  BY <1>2
<1> HIDE DEF c
<1>4. PICK d \in {0, 1} : a = 2 * c + d
  BY <1>3
<1>5. n = (2 * m) * c + (m * d + (n % m))
  BY <1>1, <1>2, <1>3, <1>4
<1>6. 0 <= m * d + (n % m) /\ m * d + (n % m) < 2 * m /\ m * d + (n % m) \in Int
  BY <1>1, <1>2, <1>4
<1>7. n \div (2 * m) = c
  <2>1. 2 * m \in Nat \ {0}
    BY <1>1
  <2> HIDE DEF m
  <2> QED  BY <2>1, <1>3, <1>5, <1>6, QuotientIs
<1> QED  BY <1>1, <1>2, <1>3, <1>7 DEF m, a

(* Numbers that fit width bits, and have the same ones, are the same. *)
LEMMA SameBits ==
    ASSUME NEW width \in 0 .. 30, NEW m \in Nat, NEW n \in Nat,
           m < TwoTo[width], n < TwoTo[width],
           \A j \in 0 .. width - 1 : j \in Bits(m) <=> j \in Bits(n)
    PROVE  m = n
<1> DEFINE P == {j \in 0 .. width : m \div TwoTo[j] = n \div TwoTo[j]}
<1>1. width \in P
  <2>1. TwoTo[width] \in Nat \ {0}
    BY PowerFacts
  <2>2. m \div TwoTo[width] = 0 /\ n \div TwoTo[width] = 0
    BY <2>1, Smaller
  <2> QED  BY <2>2
<1>2. ASSUME NEW k \in 0 .. width - 1, k + 1 \in P PROVE k \in P
  <2>0. /\ k \in 0 .. 29
        /\ (m \div TwoTo[k]) % 2 \in {0, 1} /\ (n \div TwoTo[k]) % 2 \in {0, 1}
        /\ m \div TwoTo[k] = (2 * (m \div TwoTo[k + 1])) + ((m \div TwoTo[k]) % 2)
        /\ n \div TwoTo[k] = (2 * (n \div TwoTo[k + 1])) + ((n \div TwoTo[k]) % 2)
    <3>1. k \in 0 .. 29
      OBVIOUS
    <3> QED  BY <3>1, ShiftOnce
  <2>1. (m \div TwoTo[k]) % 2 = (n \div TwoTo[k]) % 2
    <3>1. (m \div TwoTo[k]) % 2 = 1 <=> (n \div TwoTo[k]) % 2 = 1
      BY DEF Bits
    <3> QED  BY <2>0, <3>1
  <2>2. m \div TwoTo[k + 1] = n \div TwoTo[k + 1]
    BY <1>2
  <2> QED  BY <2>0, <2>1, <2>2
<1> HIDE DEF P
<1>3. 0 \in P
  BY <1>1, <1>2, DownTo
<1> QED  BY <1>3, Powers DEF P

(* The bits of a number that fits width bits are below width. *)
LEMMA BitsBelow ==
    ASSUME NEW width \in 0 .. 30, NEW n \in Nat, n < TwoTo[width]
    PROVE  Bits(n) \subseteq 0 .. width - 1
<1> SUFFICES ASSUME NEW j \in 0 .. 30, j >= width PROVE (n \div TwoTo[j]) % 2 = 0
  BY DEF Bits
<1>1. TwoTo[width] <= TwoTo[j]
  BY Powers
<1>2. n \div TwoTo[j] = 0
  <2>1. TwoTo[j] \in Nat \ {0} /\ TwoTo[width] \in Nat
    BY PowerFacts
  <2> QED  BY <1>1, <2>1, Smaller
<1> QED  BY <1>2

-----------------------------------------------------------------------------
(* Fields as numbers *)

(* A bit as a number. *)
BitOf(w, j) == IF j \in w THEN 1 ELSE 0

(* What the recursion in Field computes, from the top bit down. *)
Sums(g, w, from, high) ==
    g = [j \in from .. high + 1 |-> IF j > high THEN 0 ELSE BitOf(w, j) + 2 * g[j + 1]]

(* There is a function the recursion describes. *)
LEMMA SumsExist ==
    ASSUME NEW w, NEW high \in Nat, NEW from \in 0 .. high + 1
    PROVE  \E g \in [from .. high + 1 -> Nat] : Sums(g, w, from, high)
<1> DEFINE P == {k \in 0 .. high + 1 : \E g \in [k .. high + 1 -> Nat] : Sums(g, w, k, high)}
<1>1. high + 1 \in P
  <2> DEFINE g == [j \in high + 1 .. high + 1 |-> 0]
  <2>1. g \in [high + 1 .. high + 1 -> Nat]
    OBVIOUS
  <2>2. g = [j \in high + 1 .. high + 1 |-> IF j > high THEN 0 ELSE BitOf(w, j) + 2 * g[j + 1]]
    <3>1. \A j \in high + 1 .. high + 1 : j > high
      OBVIOUS
    <3> QED  BY <3>1
  <2> HIDE DEF g
  <2>3. Sums(g, w, high + 1, high)
    BY <2>2 DEF Sums
  <2> QED  BY <2>1, <2>3
<1>2. ASSUME NEW k \in 0 .. high + 1 - 1, k + 1 \in P PROVE k \in P
  <2>1. PICK g \in [k + 1 .. high + 1 -> Nat] : Sums(g, w, k + 1, high)
    BY <1>2
  <2> DEFINE h == [j \in k .. high + 1 |-> IF j = k THEN BitOf(w, k) + 2 * g[k + 1] ELSE g[j]]
  <2>2. \A j \in k .. high + 1 : j = k \/ (j \in k + 1 .. high + 1)
    OBVIOUS
  <2>3. /\ \A j \in k + 1 .. high + 1 : h[j] = g[j]
        /\ h[k] = BitOf(w, k) + 2 * g[k + 1]
    OBVIOUS
  <2>4. BitOf(w, k) + 2 * g[k + 1] \in Nat
    BY DEF BitOf
  <2>5. h \in [k .. high + 1 -> Nat]
    BY <2>2, <2>4
  <2>6. \A j \in k + 1 .. high + 1 : g[j] = IF j > high THEN 0 ELSE BitOf(w, j) + 2 * g[j + 1]
    BY <2>1 DEF Sums
  <2>7. ASSUME NEW j \in k .. high + 1
        PROVE  h[j] = IF j > high THEN 0 ELSE BitOf(w, j) + 2 * h[j + 1]
    <3>1. j = k => j + 1 \in k + 1 .. high + 1 /\ ~(j > high)
      OBVIOUS
    <3>2. j \in k + 1 .. high + 1 /\ ~(j > high) => j + 1 \in k + 1 .. high + 1
      OBVIOUS
    <3> HIDE DEF h
    <3> QED  BY <2>2, <2>3, <2>6, <3>1, <3>2
  <2>8. h = [j \in k .. high + 1 |-> h[j]]
    OBVIOUS
  <2> HIDE DEF h
  <2>9. Sums(h, w, k, high)
    BY <2>7, <2>8 DEF Sums
  <2> QED  BY <2>5, <2>9
<1> HIDE DEF P
<1>3. from \in P
  BY <1>1, <1>2, DownTo
<1> QED  BY <1>3 DEF P

(* Field is the sum of its bits. *)
LEMMA FieldSums ==
    ASSUME NEW w, NEW high \in Nat, NEW low \in 0 .. high
    PROVE  \E g : /\ \A j \in low .. high + 1 : g[j] \in Nat
                  /\ g[high + 1] = 0
                  /\ \A j \in low .. high : g[j] = BitOf(w, j) + 2 * g[j + 1]
                  /\ Field(w, high, low) = g[low]
<1> DEFINE value == CHOOSE g : Sums(g, w, low, high)
<1>1. Field(w, high, low) = value[low]
  BY DEF Field, Sums, BitOf
<1>2. Sums(value, w, low, high)
  <2>1. low \in 0 .. high + 1
    OBVIOUS
  <2>2. \E g : Sums(g, w, low, high)
    BY <2>1, SumsExist
  <2> QED  BY <2>2
<1> HIDE DEF value
<1>3. /\ value[high + 1] = 0
      /\ \A j \in low .. high : value[j] = BitOf(w, j) + 2 * value[j + 1]
  BY <1>2 DEF Sums
<1> DEFINE P == {k \in 0 .. high + 1 - low : value[low + k] \in Nat}
           n == high + 1 - low
<1>4. n \in Nat /\ n \in P
  BY <1>3
<1>5. ASSUME NEW k \in 0 .. n - 1, k + 1 \in P PROVE k \in P
  <2>1. value[low + k] = BitOf(w, low + k) + 2 * value[low + k + 1]
    BY <1>3
  <2>2. value[low + k + 1] \in Nat /\ BitOf(w, low + k) \in {0, 1}
    BY <1>5 DEF BitOf
  <2>3. value[low + k] \in Nat
    BY <2>1, <2>2
  <2> QED  BY <2>3
<1>6. 0 .. n \subseteq P
  <2> HIDE DEF P, n
  <2> QED  BY <1>4, <1>5, DownTo
<1>7. ASSUME NEW j \in low .. high + 1 PROVE value[j] \in Nat
  <2>1. j - low \in 0 .. n /\ low + (j - low) = j
    OBVIOUS
  <2> QED  BY <1>6, <2>1
<1> QED  BY <1>1, <1>3, <1>7

(* A field of up to 30 bits has the bits of the word that are in it. *)
LEMMA FieldBits ==
    ASSUME NEW w, NEW high \in Nat, NEW low \in 0 .. high, high - low <= 29
    PROVE  /\ Field(w, high, low) \in Nat
           /\ Field(w, high, low) < TwoTo[high + 1 - low]
           /\ \A j \in 0 .. high - low : j \in Bits(Field(w, high, low)) <=> low + j \in w
<1>1. PICK g : /\ \A j \in low .. high + 1 : g[j] \in Nat
               /\ g[high + 1] = 0
               /\ \A j \in low .. high : g[j] = BitOf(w, j) + 2 * g[j + 1]
               /\ Field(w, high, low) = g[low]
  BY FieldSums
<1> DEFINE n == g[low]
           width == high + 1 - low
           P == {k \in 0 .. width : n \div TwoTo[k] = g[low + k]}
<1>2. width \in 1 .. 30 /\ n \in Nat
  BY <1>1
<1>3. 0 \in P
  <2>1. n \div TwoTo[0] = n
    BY <1>2, Powers
  <2> QED  BY <2>1
<1>4. ASSUME NEW k \in 0 .. width - 1
      PROVE  /\ k \in 0 .. 29 /\ low + k \in low .. high /\ low + k + 1 \in low .. high + 1
             /\ g[low + k] = BitOf(w, low + k) + 2 * g[low + k + 1]
             /\ BitOf(w, low + k) \in {0, 1}
             /\ g[low + k] \in Nat /\ g[low + k + 1] \in Nat
  <2>1. k \in 0 .. 29 /\ low + k \in low .. high /\ low + k + 1 \in low .. high + 1
    OBVIOUS
  <2> QED  BY <1>1, <2>1 DEF BitOf
<1>5. ASSUME NEW k \in 0 .. width - 1, k \in P
      PROVE  k + 1 \in P /\ (n \div TwoTo[k]) % 2 = BitOf(w, low + k)
  <2>1. n \div TwoTo[k] = BitOf(w, low + k) + 2 * g[low + k + 1]
    BY <1>4, <1>5
  <2>2. /\ n \div TwoTo[k] = (2 * (n \div TwoTo[k + 1])) + ((n \div TwoTo[k]) % 2)
        /\ (n \div TwoTo[k]) % 2 \in {0, 1}
    BY <1>2, <1>4, ShiftOnce
  <2>3. n \div TwoTo[k + 1] \in Int
    <3>1. k + 1 \in 0 .. 30
      BY <1>4
    <3>2. TwoTo[k + 1] \in Nat \ {0}
      BY <3>1, PowerFacts
    <3> HIDE DEF n
    <3> QED  BY <1>2, <3>2
  <2>4. low + (k + 1) = low + k + 1
    BY <1>4
  <2>5. n \div TwoTo[k + 1] = g[low + k + 1] /\ (n \div TwoTo[k]) % 2 = BitOf(w, low + k)
    <3> HIDE DEF n
    <3> QED  BY <1>4, <2>1, <2>2, <2>3
  <2> QED  BY <2>4, <2>5
<1>6. 0 .. width \subseteq P
  <2>1. width \in Nat /\ \A k \in 0 .. width - 1 : k \in P => k + 1 \in P
    BY <1>2, <1>5
  <2> HIDE DEF P, width
  <2> QED  BY <1>3, <2>1, UpTo
<1>7. \A j \in 0 .. high - low : j \in Bits(n) <=> low + j \in w
  <2> SUFFICES ASSUME NEW j \in 0 .. high - low PROVE j \in Bits(n) <=> low + j \in w
    OBVIOUS
  <2>1. j \in 0 .. width - 1 /\ j \in 0 .. 30 /\ j \in P
    BY <1>6
  <2>2. (n \div TwoTo[j]) % 2 = BitOf(w, low + j)
    BY <1>5, <2>1
  <2> QED  BY <2>1, <2>2 DEF Bits, BitOf
<1>8. n < TwoTo[width]
  <2>1. n \div TwoTo[width] = 0
    BY <1>1, <1>2, <1>6
  <2>2. TwoTo[width] \in Nat \ {0}
    BY <1>2, PowerFacts
  <2>3. n = (TwoTo[width] * (n \div TwoTo[width])) + (n % TwoTo[width])
        /\ n % TwoTo[width] \in 0 .. TwoTo[width] - 1
    <3> DEFINE m == TwoTo[width]
    <3>1. m \in Nat \ {0}
      BY <2>2
    <3> HIDE DEF n, m
    <3>2. n = (m * (n \div m)) + (n % m) /\ n % m \in 0 .. m - 1
      BY <1>2, <3>1
    <3> QED  BY <3>2 DEF m
  <2> HIDE DEF n, width
  <2> QED  BY <2>1, <2>2, <2>3
<1> QED  BY <1>1, <1>2, <1>7, <1>8

(* A field is the number whose bits are in it. *)
LEMMA FieldIs ==
    ASSUME NEW w, NEW high \in Nat, NEW low \in 0 .. high, high - low <= 29,
           NEW n \in Nat, n < TwoTo[high + 1 - low],
           \A j \in 0 .. high - low : j \in Bits(n) <=> low + j \in w
    PROVE  Field(w, high, low) = n
<1> DEFINE width == high + 1 - low
<1>1. width \in 0 .. 30 /\ width - 1 = high - low
  OBVIOUS
<1> HIDE DEF width
<1>2. \A j \in 0 .. width - 1 : j \in Bits(n) <=> j \in Bits(Field(w, high, low))
  BY <1>1, FieldBits
<1>3. Field(w, high, low) \in Nat /\ Field(w, high, low) < TwoTo[width] /\ n < TwoTo[width]
  BY FieldBits DEF width
<1> QED  BY <1>1, <1>2, <1>3, SameBits

(* Where the bits of a shifted number are. *)
LEMMA InShl ==
    ASSUME NEW n, NEW k \in Nat, NEW place \in Bit
    PROVE  place \in Shl(n, k) <=> place - k \in Bits(n)
<1>1. \A j \in Bits(n) : j \in 0 .. 30
  BY DEF Bits
<1>2. place \in Int
  BY DEF Bit
<1>3. ASSUME NEW j \in Bits(n), place = k + j PROVE place - k \in Bits(n)
  <2>1. place - k = j
    BY <1>1, <1>3
  <2> QED  BY <2>1
<1>4. ASSUME place - k \in Bits(n) PROVE \E j \in Bits(n) : place = k + j
  <2>1. k + (place - k) = place
    BY <1>2
  <2> QED  BY <1>4, <2>1
<1> QED  BY <1>3, <1>4 DEF Shl

(* A number of few bits stays in its place. *)
LEMMA ShlPlace ==
    ASSUME NEW width \in 0 .. 30, NEW n \in Nat, n < TwoTo[width], NEW k \in Nat
    PROVE  /\ Shl(n, k) \subseteq Bit
           /\ Shl(n, k) \subseteq k .. k + width - 1
<1>1. Bits(n) \subseteq 0 .. width - 1
  BY BitsBelow
<1>2. \A j \in 0 .. width - 1 : k + j \in k .. k + width - 1
  OBVIOUS
<1> QED  BY <1>1, <1>2 DEF Shl

(* A number put at low is the field from low. *)
LEMMA FieldOf ==
    ASSUME NEW w, NEW high \in 0 .. 31, NEW low \in 0 .. high, high - low <= 29,
           NEW n \in Nat, n < TwoTo[high + 1 - low],
           \A j \in low .. high : j \in w <=> j \in Shl(n, low)
    PROVE  Field(w, high, low) = n
<1>1. ASSUME NEW j \in 0 .. high - low PROVE j \in Bits(n) <=> low + j \in w
  <2>1. low + j \in low .. high /\ low + j \in Bit /\ (low + j) - low = j
    BY DEF Bit
  <2> QED  BY <2>1, InShl
<1>2. high \in Nat
  OBVIOUS
<1> QED  BY <1>1, <1>2, FieldIs

(* The bits from low up to high of a word are those of n. *)
Shows(w, high, low, n) == \A j \in 0 .. high - low : j \in Bits(n) <=> low + j \in w

(* The field is a constant when its bits are those of the constant. *)
LEMMA FieldTest ==
    ASSUME NEW w, NEW high \in Nat, NEW low \in 0 .. high, high - low <= 29,
           NEW n \in Nat, n < TwoTo[high + 1 - low]
    PROVE  Field(w, high, low) = n <=> Shows(w, high, low, n)
BY FieldBits, FieldIs DEF Shows

(* The bits of the numbers the processor compares classes with. *)
LEMMA ConstantBits ==
    ASSUME NEW j \in 0 .. 10
    PROVE  /\ j \in Bits(0) <=> FALSE
           /\ j \in Bits(1) <=> j = 0
           /\ j \in Bits(2) <=> j = 1
           /\ j \in Bits(3) <=> j \in {0, 1}
           /\ j \in Bits(5) <=> j \in {0, 2}
           /\ j \in Bits(34) <=> j \in {1, 5}
           /\ j \in Bits(37) <=> j \in {0, 2, 5}
           /\ j \in Bits(80) <=> j \in {4, 6}
           /\ j \in Bits(84) <=> j \in {2, 4, 6}
           /\ j \in Bits(88) <=> j \in {3, 4, 6}
           /\ j \in Bits(90) <=> j \in {1, 3, 4, 6}
           /\ j \in Bits(107) <=> j \in {0, 1, 3, 5, 6}
           /\ j \in Bits(212) <=> j \in {2, 4, 6, 7}
           /\ j \in Bits(214) <=> j \in {1, 2, 4, 6, 7}
           /\ j \in Bits(216) <=> j \in {3, 4, 6, 7}
           /\ j \in Bits(496) <=> j \in {4, 5, 6, 7, 8}
           /\ j \in Bits(1984) <=> j \in {6, 7, 8, 9, 10}
BY Powers DEF Bits

(* The classes of instructions, by the bits of the word. *)
LEMMA Classes ==
    ASSUME NEW w
    PROVE  /\ Field(w, 28, 23) = 37 <=> 28 \in w /\ 27 \notin w /\ 26 \notin w /\ 25 \in w
                      /\ 24 \notin w /\ 23 \in w
           /\ Field(w, 28, 23) = 34 <=> 28 \in w /\ 27 \notin w /\ 26 \notin w
                      /\ 25 \notin w /\ 24 \in w /\ 23 \notin w
           /\ Field(w, 28, 21) = 88 <=> 28 \notin w /\ 27 \in w /\ 26 \notin w /\ 25 \in w
                      /\ 24 \in w /\ 23 \notin w /\ 22 \notin w /\ 21 \notin w
           /\ Field(w, 28, 21) = 80 <=> 28 \notin w /\ 27 \in w /\ 26 \notin w /\ 25 \in w
                      /\ 24 \notin w /\ 23 \notin w /\ 22 \notin w /\ 21 \notin w
           /\ Field(w, 15, 10) = 0 <=> 15 \notin w /\ 14 \notin w /\ 13 \notin w
                      /\ 12 \notin w /\ 11 \notin w /\ 10 \notin w
           /\ Field(w, 15, 10) = 3 <=> 15 \notin w /\ 14 \notin w /\ 13 \notin w
                      /\ 12 \notin w /\ 11 \in w /\ 10 \in w
           /\ Field(w, 30, 29) = 0 <=> 30 \notin w /\ 29 \notin w
           /\ Field(w, 30, 29) = 1 <=> 30 \notin w /\ 29 \in w
           /\ Field(w, 30, 29) = 2 <=> 30 \in w /\ 29 \notin w
           /\ Field(w, 30, 29) = 3 <=> 30 \in w /\ 29 \in w
           /\ Field(w, 30, 21) = 214 <=> 30 \notin w /\ 29 \notin w /\ 28 \in w /\ 27 \in w
                      /\ 26 \notin w /\ 25 \in w /\ 24 \notin w /\ 23 \in w /\ 22 \in w
                      /\ 21 \notin w
           /\ Field(w, 30, 21) = 212 <=> 30 \notin w /\ 29 \notin w /\ 28 \in w /\ 27 \in w
                      /\ 26 \notin w /\ 25 \in w /\ 24 \notin w /\ 23 \in w /\ 22 \notin w
                      /\ 21 \notin w
           /\ Field(w, 30, 21) = 216 <=> 30 \notin w /\ 29 \notin w /\ 28 \in w /\ 27 \in w
                      /\ 26 \notin w /\ 25 \in w /\ 24 \in w /\ 23 \notin w /\ 22 \notin w
                      /\ 21 \notin w
           /\ Field(w, 11, 10) = 0 <=> 11 \notin w /\ 10 \notin w
           /\ Field(w, 11, 10) = 1 <=> 11 \notin w /\ 10 \in w
           /\ Field(w, 11, 10) = 3 <=> 11 \in w /\ 10 \in w
           /\ Field(w, 31, 23) = 496 <=> 31 \in w /\ 30 \in w /\ 29 \in w /\ 28 \in w
                      /\ 27 \in w /\ 26 \notin w /\ 25 \notin w /\ 24 \notin w
                      /\ 23 \notin w
           /\ Field(w, 31, 25) = 84 <=> 31 \in w /\ 30 \notin w /\ 29 \in w /\ 28 \notin w
                      /\ 27 \in w /\ 26 \notin w /\ 25 \notin w
           /\ Field(w, 30, 26) = 5 <=> 30 \notin w /\ 29 \notin w /\ 28 \in w /\ 27 \notin w
                      /\ 26 \in w
           /\ Field(w, 31, 24) = 84 <=> 31 \notin w /\ 30 \in w /\ 29 \notin w /\ 28 \in w
                      /\ 27 \notin w /\ 26 \in w /\ 25 \notin w /\ 24 \notin w
           /\ Field(w, 31, 25) = 90 <=> 31 \in w /\ 30 \notin w /\ 29 \in w /\ 28 \in w
                      /\ 27 \notin w /\ 26 \in w /\ 25 \notin w
           /\ Field(w, 31, 25) = 107 <=> 31 \in w /\ 30 \in w /\ 29 \notin w /\ 28 \in w
                      /\ 27 \notin w /\ 26 \in w /\ 25 \in w
           /\ Field(w, 20, 10) = 1984 <=> 20 \in w /\ 19 \in w /\ 18 \in w /\ 17 \in w
                      /\ 16 \in w /\ 15 \notin w /\ 14 \notin w /\ 13 \notin w
                      /\ 12 \notin w /\ 11 \notin w /\ 10 \notin w
           /\ Field(w, 4, 0) = 0 <=> 4 \notin w /\ 3 \notin w /\ 2 \notin w /\ 1 \notin w
                      /\ 0 \notin w
           /\ Field(w, 24, 21) = 0 <=> 24 \notin w /\ 23 \notin w /\ 22 \notin w
                      /\ 21 \notin w
           /\ Field(w, 24, 21) = 1 <=> 24 \notin w /\ 23 \notin w /\ 22 \notin w /\ 21 \in w
           /\ Field(w, 24, 21) = 2 <=> 24 \notin w /\ 23 \notin w /\ 22 \in w /\ 21 \notin w
<1>1. /\ TwoTo[4 + 1 - 0] = 32
      /\ TwoTo[11 + 1 - 10] = 4
      /\ TwoTo[15 + 1 - 10] = 64
      /\ TwoTo[20 + 1 - 10] = 2048
      /\ TwoTo[24 + 1 - 21] = 16
      /\ TwoTo[28 + 1 - 21] = 256
      /\ TwoTo[28 + 1 - 23] = 64
      /\ TwoTo[30 + 1 - 21] = 1024
      /\ TwoTo[30 + 1 - 26] = 32
      /\ TwoTo[30 + 1 - 29] = 4
      /\ TwoTo[31 + 1 - 23] = 512
      /\ TwoTo[31 + 1 - 24] = 256
      /\ TwoTo[31 + 1 - 25] = 128
  BY Powers
<1>2. /\ Field(w, 28, 23) = 37 <=> Shows(w, 28, 23, 37)
      /\ Field(w, 28, 23) = 34 <=> Shows(w, 28, 23, 34)
      /\ Field(w, 28, 21) = 88 <=> Shows(w, 28, 21, 88)
      /\ Field(w, 28, 21) = 80 <=> Shows(w, 28, 21, 80)
      /\ Field(w, 15, 10) = 0 <=> Shows(w, 15, 10, 0)
      /\ Field(w, 15, 10) = 3 <=> Shows(w, 15, 10, 3)
      /\ Field(w, 30, 29) = 0 <=> Shows(w, 30, 29, 0)
      /\ Field(w, 30, 29) = 1 <=> Shows(w, 30, 29, 1)
      /\ Field(w, 30, 29) = 2 <=> Shows(w, 30, 29, 2)
      /\ Field(w, 30, 29) = 3 <=> Shows(w, 30, 29, 3)
      /\ Field(w, 30, 21) = 214 <=> Shows(w, 30, 21, 214)
      /\ Field(w, 30, 21) = 212 <=> Shows(w, 30, 21, 212)
      /\ Field(w, 30, 21) = 216 <=> Shows(w, 30, 21, 216)
      /\ Field(w, 11, 10) = 0 <=> Shows(w, 11, 10, 0)
      /\ Field(w, 11, 10) = 1 <=> Shows(w, 11, 10, 1)
      /\ Field(w, 11, 10) = 3 <=> Shows(w, 11, 10, 3)
      /\ Field(w, 31, 23) = 496 <=> Shows(w, 31, 23, 496)
      /\ Field(w, 31, 25) = 84 <=> Shows(w, 31, 25, 84)
      /\ Field(w, 30, 26) = 5 <=> Shows(w, 30, 26, 5)
      /\ Field(w, 31, 24) = 84 <=> Shows(w, 31, 24, 84)
      /\ Field(w, 31, 25) = 90 <=> Shows(w, 31, 25, 90)
      /\ Field(w, 31, 25) = 107 <=> Shows(w, 31, 25, 107)
      /\ Field(w, 20, 10) = 1984 <=> Shows(w, 20, 10, 1984)
      /\ Field(w, 4, 0) = 0 <=> Shows(w, 4, 0, 0)
      /\ Field(w, 24, 21) = 0 <=> Shows(w, 24, 21, 0)
      /\ Field(w, 24, 21) = 1 <=> Shows(w, 24, 21, 1)
      /\ Field(w, 24, 21) = 2 <=> Shows(w, 24, 21, 2)
  BY <1>1, FieldTest
<1>3. /\ \A j : j \in 0 .. 4 - 0 <=> j \in {0, 1, 2, 3, 4}
      /\ \A j : j \in 0 .. 11 - 10 <=> j \in {0, 1}
      /\ \A j : j \in 0 .. 15 - 10 <=> j \in {0, 1, 2, 3, 4, 5}
      /\ \A j : j \in 0 .. 20 - 10 <=> j \in {0, 1, 2, 3, 4, 5, 6, 7, 8, 9, 10}
      /\ \A j : j \in 0 .. 24 - 21 <=> j \in {0, 1, 2, 3}
      /\ \A j : j \in 0 .. 28 - 21 <=> j \in {0, 1, 2, 3, 4, 5, 6, 7}
      /\ \A j : j \in 0 .. 28 - 23 <=> j \in {0, 1, 2, 3, 4, 5}
      /\ \A j : j \in 0 .. 30 - 21 <=> j \in {0, 1, 2, 3, 4, 5, 6, 7, 8, 9}
      /\ \A j : j \in 0 .. 30 - 26 <=> j \in {0, 1, 2, 3, 4}
      /\ \A j : j \in 0 .. 30 - 29 <=> j \in {0, 1}
      /\ \A j : j \in 0 .. 31 - 23 <=> j \in {0, 1, 2, 3, 4, 5, 6, 7, 8}
      /\ \A j : j \in 0 .. 31 - 24 <=> j \in {0, 1, 2, 3, 4, 5, 6, 7}
      /\ \A j : j \in 0 .. 31 - 25 <=> j \in {0, 1, 2, 3, 4, 5, 6}
  OBVIOUS
<1> QED  BY <1>2, <1>3, ConstantBits DEF Shows

-----------------------------------------------------------------------------
(* What the processor decodes: one lemma per class of instruction *)

(* Each of these lemmas: a word in its class is decoded to the record of its fields. *)
LEMMA DecodeMoveWide ==
    ASSUME NEW w, 31 \in w, 30 \in w,
           28 \in w, 27 \notin w, 26 \notin w, 25 \in w, 24 \notin w, 23 \in w
    PROVE  Decode(w) = [op |-> IF 29 \in w THEN "movk" ELSE "movz", rd |-> Field(w, 4, 0),
                        imm |-> Field(w, 20, 5), hw |-> Field(w, 22, 21)]
BY Classes DEF Decode

LEMMA DecodeImmediate ==
    ASSUME NEW w, 31 \in w, 29 \notin w,
           28 \in w, 27 \notin w, 26 \notin w, 25 \notin w, 24 \in w, 23 \notin w, 22 \notin w
    PROVE  Decode(w) = [op |-> IF 30 \in w THEN "subi" ELSE "addi", rd |-> Field(w, 4, 0),
                        rn |-> Field(w, 9, 5), imm |-> Field(w, 21, 10)]
BY Classes DEF Decode

LEMMA DecodeShifted ==
    ASSUME NEW w, 31 \in w, 28 \notin w, 27 \in w, 26 \notin w, 25 \in w, 24 \in w,
           23 \notin w, 22 \notin w, 21 \notin w, 15 \notin w, 14 \notin w, 13 \notin w,
           12 \notin w, 11 \notin w, 10 \notin w
    PROVE  Decode(w) = [op |-> IF 30 \in w THEN IF 29 \in w THEN "subs" ELSE "sub"
                               ELSE IF 29 \in w THEN "adds" ELSE "add",
                        rd |-> Field(w, 4, 0), rn |-> Field(w, 9, 5), rm |-> Field(w, 20, 16)]
BY Classes DEF Decode

LEMMA DecodeOrr ==
    ASSUME NEW w, 31 \in w, 30 \notin w, 29 \in w,
           28 \notin w, 27 \in w, 26 \notin w, 25 \in w, 24 \notin w,
           23 \notin w, 22 \notin w, 21 \notin w, 15 \notin w, 14 \notin w, 13 \notin w,
           12 \notin w, 11 \notin w, 10 \notin w
    PROVE  Decode(w) = [op |-> "orr",
                        rd |-> Field(w, 4, 0), rn |-> Field(w, 9, 5), rm |-> Field(w, 20, 16)]
BY Classes DEF Decode

LEMMA DecodeSdiv ==
    ASSUME NEW w, 31 \in w, 30 \notin w, 29 \notin w,
           28 \in w, 27 \in w, 26 \notin w, 25 \in w, 24 \notin w, 23 \in w, 22 \in w, 21 \notin w,
           15 \notin w, 14 \notin w, 13 \notin w, 12 \notin w, 11 \in w, 10 \in w
    PROVE  Decode(w) = [op |-> "sdiv",
                        rd |-> Field(w, 4, 0), rn |-> Field(w, 9, 5), rm |-> Field(w, 20, 16)]
BY Classes DEF Decode

LEMMA DecodeCsinc ==
    ASSUME NEW w, 31 \in w, 30 \notin w, 29 \notin w,
           28 \in w, 27 \in w, 26 \notin w, 25 \in w, 24 \notin w, 23 \in w,
           22 \notin w, 21 \notin w, 11 \notin w, 10 \in w
    PROVE  Decode(w) = [op |-> "csinc", rd |-> Field(w, 4, 0), rn |-> Field(w, 9, 5),
                        rm |-> Field(w, 20, 16), cond |-> Field(w, 15, 12)]
BY Classes DEF Decode

LEMMA DecodeThreeSources ==
    ASSUME NEW w, 31 \in w, 30 \notin w, 29 \notin w,
           28 \in w, 27 \in w, 26 \notin w, 25 \in w, 24 \in w, 23 \notin w,
           22 \notin w, 21 \notin w
    PROVE  Decode(w) = [op |-> IF 15 \in w THEN "msub" ELSE "madd", rd |-> Field(w, 4, 0),
                        rn |-> Field(w, 9, 5), rm |-> Field(w, 20, 16), ra |-> Field(w, 14, 10)]
BY Classes DEF Decode

LEMMA DecodeOneRegister ==
    ASSUME NEW w, 31 \in w, 30 \in w, 29 \in w, 28 \in w, 27 \in w,
           26 \notin w, 25 \notin w, 24 \notin w, 23 \notin w, 21 \notin w,
           11 \notin w \/ 10 \in w
    PROVE  Decode(w) = [op |-> IF 22 \in w
                               THEN IF 11 \in w THEN "ldr_pre"
                                    ELSE IF 10 \in w THEN "ldr_post" ELSE "ldur"
                               ELSE IF 11 \in w THEN "str_pre"
                                    ELSE IF 10 \in w THEN "str_post" ELSE "stur",
                        rt |-> Field(w, 4, 0), rn |-> Field(w, 9, 5),
                        imm |-> Signed(w, 20, 12)]
BY Classes DEF Decode

LEMMA DecodePair ==
    ASSUME NEW w, 31 \in w, 30 \notin w, 29 \in w, 28 \notin w, 27 \in w,
           26 \notin w, 25 \notin w, 23 \in w
    PROVE  Decode(w) = [op |-> IF 22 \in w THEN IF 24 \in w THEN "ldp_pre" ELSE "ldp_post"
                               ELSE IF 24 \in w THEN "stp_pre" ELSE "stp_post",
                        rt |-> Field(w, 4, 0), rt2 |-> Field(w, 14, 10),
                        rn |-> Field(w, 9, 5), imm |-> 8 * Signed(w, 21, 15)]
BY Classes DEF Decode

LEMMA DecodeB ==
    ASSUME NEW w, 30 \notin w, 29 \notin w, 28 \in w, 27 \notin w, 26 \in w
    PROVE  Decode(w) = [op |-> IF 31 \in w THEN "bl" ELSE "b", by |-> Signed(w, 25, 0)]
BY Classes DEF Decode

LEMMA DecodeBCond ==
    ASSUME NEW w, 31 \notin w, 30 \in w, 29 \notin w, 28 \in w, 27 \notin w, 26 \in w,
           25 \notin w, 24 \notin w, 4 \notin w
    PROVE  Decode(w) = [op |-> "b_cond", cond |-> Field(w, 3, 0), by |-> Signed(w, 23, 5)]
BY Classes DEF Decode

LEMMA DecodeCbz ==
    ASSUME NEW w, 31 \in w, 30 \notin w, 29 \in w, 28 \in w, 27 \notin w, 26 \in w, 25 \notin w
    PROVE  Decode(w) = [op |-> IF 24 \in w THEN "cbnz" ELSE "cbz",
                        rt |-> Field(w, 4, 0), by |-> Signed(w, 23, 5)]
BY Classes DEF Decode

LEMMA DecodeRegisterBranch ==
    ASSUME NEW w, 31 \in w, 30 \in w, 29 \notin w, 28 \in w, 27 \notin w, 26 \in w, 25 \in w,
           24 \notin w, 23 \notin w, (22 \in w) # (21 \in w),
           20 \in w, 19 \in w, 18 \in w, 17 \in w, 16 \in w, 15 \notin w, 14 \notin w,
           13 \notin w, 12 \notin w, 11 \notin w, 10 \notin w,
           4 \notin w, 3 \notin w, 2 \notin w, 1 \notin w, 0 \notin w
    PROVE  /\ 21 \in w => Decode(w) = [op |-> "blr", rn |-> Field(w, 9, 5)]
           /\ (21 \notin w /\ Field(w, 9, 5) = 30) => Decode(w) = [op |-> "ret"]
BY Classes DEF Decode, G!ret, G!LR

(***************************************************************************)
(* Signed fields                                                           *)
(***************************************************************************)
LEMMA FieldTop ==
    ASSUME NEW w, NEW low \in Nat, NEW high \in Nat, low < high, high - low <= 29
    PROVE  Field(w, high, low) = Field(w, high - 1, low) + BitOf(w, high) * TwoTo[high - low]
<1>1. PICK g : /\ \A j \in low .. high + 1 : g[j] \in Nat
               /\ g[high + 1] = 0
               /\ \A j \in low .. high : g[j] = BitOf(w, j) + 2 * g[j + 1]
               /\ Field(w, high, low) = g[low]
  <2>1. low \in 0 .. high
    OBVIOUS
  <2> QED  BY <2>1, FieldSums
<1>2. PICK h : /\ \A j \in low .. high : h[j] \in Nat
               /\ h[high] = 0
               /\ \A j \in low .. high - 1 : h[j] = BitOf(w, j) + 2 * h[j + 1]
               /\ Field(w, high - 1, low) = h[low]
  <2>1. high - 1 \in Nat /\ low \in 0 .. high - 1 /\ high - 1 + 1 = high
    OBVIOUS
  <2>2. \E k : /\ \A j \in low .. high - 1 + 1 : k[j] \in Nat
               /\ k[high - 1 + 1] = 0
               /\ \A j \in low .. high - 1 : k[j] = BitOf(w, j) + 2 * k[j + 1]
               /\ Field(w, high - 1, low) = k[low]
    BY <2>1, FieldSums
  <2> QED  BY <2>1, <2>2
<1> DEFINE top == BitOf(w, high)
           n == high - low
           P == {k \in 0 .. n : g[low + k] = h[low + k] + top * TwoTo[n - k]}
<1>3. top \in {0, 1} /\ n \in 1 .. 29
  BY DEF BitOf
<1>4. n \in P
  <2>1. low + n = high /\ high \in low .. high /\ n - n = 0
    OBVIOUS
  <2>2. g[high] = top
    BY <1>1, <1>3, <2>1
  <2>3. top * TwoTo[0] = top
    BY <1>3, Powers
  <2>4. g[low + n] = h[low + n] + top * TwoTo[n - n]
    BY <1>2, <1>3, <2>1, <2>2, <2>3
  <2> QED  BY <1>3, <2>4
<1>5. ASSUME NEW k \in 0 .. n - 1, k + 1 \in P PROVE k \in P
  <2>1. low + k \in low .. high - 1 /\ low + k \in low .. high /\ low + k + 1 \in low .. high
        /\ low + (k + 1) = low + k + 1 /\ n - (k + 1) \in 0 .. 29 /\ n - (k + 1) + 1 = n - k
    BY <1>3
  <2>2. /\ g[low + k] = BitOf(w, low + k) + 2 * g[low + k + 1]
        /\ h[low + k] = BitOf(w, low + k) + 2 * h[low + k + 1]
        /\ h[low + k + 1] \in Nat /\ BitOf(w, low + k) \in {0, 1}
    BY <1>1, <1>2, <2>1 DEF BitOf
  <2>3. g[low + k + 1] = h[low + k + 1] + top * TwoTo[n - (k + 1)]
    BY <1>5, <2>1
  <2>4. TwoTo[n - k] = 2 * TwoTo[n - (k + 1)] /\ TwoTo[n - (k + 1)] \in Nat
    BY <2>1, PowerFacts
  <2>5. g[low + k] = h[low + k] + top * TwoTo[n - k]
    <3> HIDE DEF top, n
    <3> QED  BY <1>3, <2>2, <2>3, <2>4
  <2> QED  BY <2>5
<1>6. 0 \in P
  <2>1. n \in Nat
    BY <1>3
  <2> HIDE DEF P, n
  <2> QED  BY <1>4, <1>5, <2>1, DownTo
<1>7. low + 0 = low /\ n - 0 = n
  BY <1>3
<1> QED  BY <1>1, <1>2, <1>6, <1>7

(* A signed number survives a field that keeps its low bits. *)
LEMMA SignedIs ==
    ASSUME NEW w, NEW low \in Nat, NEW high \in Nat, low < high, high - low <= 29,
           NEW m \in Nat, m = TwoTo[high - low],
           NEW v \in -m .. m - 1, Field(w, high, low) = v % (2 * m)
    PROVE  Signed(w, high, low) = v
<1> DEFINE rest == Field(w, high - 1, low)
<1>1. Field(w, high, low) = rest + BitOf(w, high) * m
  BY FieldTop
<1>2. rest \in Nat /\ rest < m
  <2>1. high - 1 \in Nat /\ low \in 0 .. high - 1 /\ high - 1 - low <= 29
        /\ high - 1 + 1 - low = high - low
    OBVIOUS
  <2>2. Field(w, high - 1, low) \in Nat /\ Field(w, high - 1, low) < TwoTo[high - 1 + 1 - low]
    BY <2>1, FieldBits
  <2> QED  BY <2>1, <2>2
<1>3. v % (2 * m) = IF v >= 0 THEN v ELSE v + 2 * m
  <2>1. m \in Nat \ {0}
    BY <1>2
  <2>2. 2 * m \in Nat \ {0}
    BY <2>1
  <2>3. CASE v >= 0
    BY <2>2, <2>3
  <2>4. CASE v < 0
    <3> DEFINE d == 2 * m
               r == v + d
               q == 0 - 1
    <3>1. v \in Int /\ d \in Nat \ {0} /\ q \in Int /\ r \in Int /\ 0 <= r /\ r < d /\ v = d * q + r
      BY <2>2, <2>4
    <3> HIDE DEF d, r, q
    <3>2. v % d = r
      BY <3>1, RemainderIs
    <3> QED  BY <2>4, <3>2 DEF d, r
  <2> QED  BY <2>3, <2>4
<1> HIDE DEF rest
<1>4. Signed(w, high, low) = rest - (IF high \in w THEN m ELSE 0)
  BY DEF Signed, rest
<1>5. BitOf(w, high) = IF high \in w THEN 1 ELSE 0
  BY DEF BitOf
<1> QED  BY <1>1, <1>2, <1>3, <1>4, <1>5

-----------------------------------------------------------------------------
(* The opcodes of the code, bit by bit *)

(* The bits of a half of a constant, for each half in the code. *)
LEMMA HalfBits ==
    ASSUME NEW j \in 0 .. 30
    PROVE  /\ j \in Bits(0) <=> FALSE
           /\ j \in Bits(1024) <=> j = 10
           /\ j \in Bits(3072) <=> j \in {11, 10}
           /\ j \in Bits(5120) <=> j \in {12, 10}
           /\ j \in Bits(21504) <=> j \in {14, 12, 10}
           /\ j \in Bits(32768) <=> j = 15
           /\ j \in Bits(35584) <=> j \in {15, 11, 9, 8}
           /\ j \in Bits(37120) <=> j \in {15, 12, 8}
           /\ j \in Bits(37888) <=> j \in {15, 12, 10}
           /\ j \in Bits(39552) <=> j \in {15, 12, 11, 9, 7}
           /\ j \in Bits(39616) <=> j \in {15, 12, 11, 9, 7, 6}
           /\ j \in Bits(39680) <=> j \in {15, 12, 11, 9, 8}
           /\ j \in Bits(43200) <=> j \in {15, 13, 11, 7, 6}
           /\ j \in Bits(43392) <=> j \in {15, 13, 11, 8, 7}
           /\ j \in Bits(43520) <=> j \in {15, 13, 11, 9}
           /\ j \in Bits(46080) <=> j \in {15, 13, 12, 10}
           /\ j \in Bits(46336) <=> j \in {15, 13, 12, 10, 8}
           /\ j \in Bits(51968) <=> j \in {15, 14, 11, 9, 8}
           /\ j \in Bits(53504) <=> j \in {15, 14, 12, 8}
           /\ j \in Bits(53888) <=> j \in {15, 14, 12, 9, 7}
           /\ j \in Bits(54847) <=> j \in {15, 14, 12, 10, 9, 5, 4, 3, 2, 1, 0}
           /\ j \in Bits(54879) <=> j \in {15, 14, 12, 10, 9, 6, 4, 3, 2, 1, 0}
           /\ j \in Bits(60160) <=> j \in {15, 14, 13, 11, 9, 8}
           /\ j \in Bits(62080) <=> j \in {15, 14, 13, 12, 9, 7}
           /\ j \in Bits(63488) <=> j \in {15, 14, 13, 12, 11}
           /\ j \in Bits(63552) <=> j \in {15, 14, 13, 12, 11, 6}
BY Powers DEF Bits

(* The bits of each constant. *)
LEMMA BaseBits ==
    ASSUME NEW j \in Bit
    PROVE  /\ j \in Word(\hD280, \h0000) <=> j \in {31, 30, 28, 25, 23}
           /\ j \in Word(\hF280, \h0000) <=> j \in {31, 30, 29, 28, 25, 23}
           /\ j \in Word(\hAA00, \h0000) <=> j \in {31, 29, 27, 25}
           /\ j \in Word(\h8B00, \h0000) <=> j \in {31, 27, 25, 24}
           /\ j \in Word(\hCB00, \h0000) <=> j \in {31, 30, 27, 25, 24}
           /\ j \in Word(\h9B00, \h0000) <=> j \in {31, 28, 27, 25, 24}
           /\ j \in Word(\h9AC0, \h0C00) <=> j \in {31, 28, 27, 25, 23, 22, 11, 10}
           /\ j \in Word(\h9B00, \h8000) <=> j \in {31, 28, 27, 25, 24, 15}
           /\ j \in Word(\hEB00, \h0000) <=> j \in {31, 30, 29, 27, 25, 24}
           /\ j \in Word(\h9A80, \h0400) <=> j \in {31, 28, 27, 25, 23, 10}
           /\ j \in Word(\h9100, \h0000) <=> j \in {31, 28, 24}
           /\ j \in Word(\hD100, \h0000) <=> j \in {31, 30, 28, 24}
           /\ j \in Word(\hF800, \h0C00) <=> j \in {31, 30, 29, 28, 27, 11, 10}
           /\ j \in Word(\hF840, \h0400) <=> j \in {31, 30, 29, 28, 27, 22, 10}
           /\ j \in Word(\hF800, \h0000) <=> j \in {31, 30, 29, 28, 27}
           /\ j \in Word(\hF840, \h0000) <=> j \in {31, 30, 29, 28, 27, 22}
           /\ j \in Word(\hA980, \h0000) <=> j \in {31, 29, 27, 24, 23}
           /\ j \in Word(\hA8C0, \h0000) <=> j \in {31, 29, 27, 23, 22}
           /\ j \in Word(\h1400, \h0000) <=> j \in {28, 26}
           /\ j \in Word(\h9400, \h0000) <=> j \in {31, 28, 26}
           /\ j \in Word(\h5400, \h0000) <=> j \in {30, 28, 26}
           /\ j \in Word(\hB400, \h0000) <=> j \in {31, 29, 28, 26}
           /\ j \in Word(\hB500, \h0000) <=> j \in {31, 29, 28, 26, 24}
           /\ j \in Word(\hD63F, \h0000) <=> j \in {31, 30, 28, 26, 25, 21, 20, 19, 18, 17, 16}
           /\ j \in Word(\hD65F, \h0000) <=> j \in {31, 30, 28, 26, 25, 22, 20, 19, 18, 17, 16}
<1>1. \A high, low : j \in Word(high, low) <=> j - 16 \in Bits(high) \/ j \in Bits(low)
  <2> SUFFICES ASSUME NEW high, NEW low
               PROVE  j \in Word(high, low) <=> j - 16 \in Bits(high) \/ j \in Bits(low)
    OBVIOUS
  <2>1. j \in Shl(high, 16) <=> j - 16 \in Bits(high)
    BY InShl
  <2>2. j \in Shl(low, 0) <=> j - 0 \in Bits(low)
    BY InShl
  <2>3. j - 0 = j
    BY DEF Bit
  <2> QED  BY <2>1, <2>2, <2>3 DEF Word
<1>2. j - 16 \in 0 .. 30 \/ \A n : j - 16 \notin Bits(n)
  BY DEF Bits
<1>3. j \in 0 .. 30 \/ \A n : j \notin Bits(n)
  BY DEF Bits
<1> QED  BY <1>1, <1>2, <1>3, HalfBits DEF Bit

(* The same, for the bits of a word. *)
LEMMA BaseWords ==
    /\ Word(\hD280, \h0000) = {31, 30, 28, 25, 23}
    /\ Word(\hF280, \h0000) = {31, 30, 29, 28, 25, 23}
    /\ Word(\hAA00, \h0000) = {31, 29, 27, 25}
    /\ Word(\h8B00, \h0000) = {31, 27, 25, 24}
    /\ Word(\hCB00, \h0000) = {31, 30, 27, 25, 24}
    /\ Word(\h9B00, \h0000) = {31, 28, 27, 25, 24}
    /\ Word(\h9AC0, \h0C00) = {31, 28, 27, 25, 23, 22, 11, 10}
    /\ Word(\h9B00, \h8000) = {31, 28, 27, 25, 24, 15}
    /\ Word(\hEB00, \h0000) = {31, 30, 29, 27, 25, 24}
    /\ Word(\h9A80, \h0400) = {31, 28, 27, 25, 23, 10}
    /\ Word(\h9100, \h0000) = {31, 28, 24}
    /\ Word(\hD100, \h0000) = {31, 30, 28, 24}
    /\ Word(\hF800, \h0C00) = {31, 30, 29, 28, 27, 11, 10}
    /\ Word(\hF840, \h0400) = {31, 30, 29, 28, 27, 22, 10}
    /\ Word(\hF800, \h0000) = {31, 30, 29, 28, 27}
    /\ Word(\hF840, \h0000) = {31, 30, 29, 28, 27, 22}
    /\ Word(\hA980, \h0000) = {31, 29, 27, 24, 23}
    /\ Word(\hA8C0, \h0000) = {31, 29, 27, 23, 22}
    /\ Word(\h1400, \h0000) = {28, 26}
    /\ Word(\h9400, \h0000) = {31, 28, 26}
    /\ Word(\h5400, \h0000) = {30, 28, 26}
    /\ Word(\hB400, \h0000) = {31, 29, 28, 26}
    /\ Word(\hB500, \h0000) = {31, 29, 28, 26, 24}
    /\ Word(\hD63F, \h0000) = {31, 30, 28, 26, 25, 21, 20, 19, 18, 17, 16}
    /\ Word(\hD65F, \h0000) = {31, 30, 28, 26, 25, 22, 20, 19, 18, 17, 16}
<1>1. \A high, low : Word(high, low) \subseteq Bit
  BY DEF Word, Shl
<1> QED  BY <1>1, BaseBits DEF Bit

-----------------------------------------------------------------------------
(* Instructions of three registers *)

(* Where the number of a register goes. *)
LEMMA RegPlace ==
    ASSUME NEW r \in Bit, NEW k \in Nat
    PROVE  \A j \in Shl(r, k) : j \in Bit /\ j \in k .. k + 4
<1>1. r \in Nat /\ r < TwoTo[5] /\ 5 \in 0 .. 30 /\ k + 5 - 1 = k + 4
  BY Powers DEF Bit
<1> QED  BY <1>1, ShlPlace

(* Bits of an opcode, which leave the bits in free to operands. *)
OpcodeBits(base, free) == base \subseteq Bit \ free

(* A word of the emitter, and what the processor makes of it. *)
Encodes(w, i) == w \subseteq Bit /\ Decode(w) = i

(* A word with three registers, and the opcode in the rest. *)
HasThreeRegs(w, base, rd, rn, rm) ==
    /\ w \subseteq Bit
    /\ \A j \in (10 .. 15) \cup (21 .. 31) : j \in w <=> j \in base
    /\ Field(w, 4, 0) = rd
    /\ Field(w, 9, 5) = rn
    /\ Field(w, 20, 16) = rm

(* The registers do not meet each other or the opcode. *)
LEMMA ThreeRegsFields ==
    ASSUME NEW base, OpcodeBits(base, (0 .. 9) \cup (16 .. 20)),
           NEW rd \in Bit, NEW rn \in Bit, NEW rm \in Bit
    PROVE  HasThreeRegs(ThreeRegs(base, rd, rn, rm), base, rd, rn, rm)
<1> DEFINE w == ThreeRegs(base, rd, rn, rm)
<1>1. \A j : j \in w <=> \/ j \in base \/ j \in Shl(rm, 16)
                         \/ j \in Shl(rn, 5) \/ j \in Shl(rd, 0)
  BY DEF ThreeRegs
<1>2. /\ \A j \in Shl(rm, 16) : j \in Bit /\ j \in 16 .. 20
      /\ \A j \in Shl(rn, 5) : j \in Bit /\ j \in 5 .. 9
      /\ \A j \in Shl(rd, 0) : j \in Bit /\ j \in 0 .. 4
  BY RegPlace
<1>3. /\ TwoTo[4 + 1 - 0] = 32 /\ TwoTo[9 + 1 - 5] = 32 /\ TwoTo[20 + 1 - 16] = 32
      /\ rd \in Nat /\ rd < 32 /\ rn \in Nat /\ rn < 32 /\ rm \in Nat /\ rm < 32
  BY Powers DEF Bit
<1>9. \A j \in base : j \in Bit /\ j \notin 0 .. 9 /\ j \notin 16 .. 20
  BY DEF OpcodeBits
<1> HIDE DEF w
<1>4. /\ \A j \in 0 .. 4 : j \in w <=> j \in Shl(rd, 0)
      /\ \A j \in 5 .. 9 : j \in w <=> j \in Shl(rn, 5)
      /\ \A j \in 16 .. 20 : j \in w <=> j \in Shl(rm, 16)
  BY <1>9, <1>1, <1>2
<1>5. /\ \A j \in w : j \in Bit
      /\ \A j \in (10 .. 15) \cup (21 .. 31) : j \in w <=> j \in base
  BY <1>9, <1>1, <1>2
<1>6. Field(w, 4, 0) = rd
  BY <1>3, <1>4, FieldOf
<1>7. Field(w, 9, 5) = rn
  BY <1>3, <1>4, FieldOf
<1>8. Field(w, 20, 16) = rm
  BY <1>3, <1>4, FieldOf
<1> QED  BY <1>5, <1>6, <1>7, <1>8 DEF HasThreeRegs, w

(* add, sub, subs, orr, sdiv: the word decodes to the record of its operands. *)
LEMMA AddEncodes ==
    ASSUME NEW rd \in Bit, NEW rn \in Bit, NEW rm \in Bit
    PROVE  Encodes(ThreeRegs(Word(\h8B00, \h0000), rd, rn, rm), G!add_reg(rd, rn, rm))
<1> DEFINE base == {31, 27, 25, 24}
           w == ThreeRegs(base, rd, rn, rm)
<1>1. OpcodeBits(base, (0 .. 9) \cup (16 .. 20))
  BY DEF OpcodeBits, Bit
<1> HIDE DEF base, w
<1>2. HasThreeRegs(w, base, rd, rn, rm)
  BY <1>1, ThreeRegsFields DEF w
<1>3. Decode(w) = [op |-> "add", rd |-> rd, rn |-> rn, rm |-> rm]
  BY <1>2, DecodeShifted DEF base, HasThreeRegs
<1>4. base = Word(\h8B00, \h0000)
  BY BaseWords DEF base
<1> QED  BY <1>2, <1>3, <1>4 DEF w, Encodes, HasThreeRegs, G!add_reg

LEMMA SubEncodes ==
    ASSUME NEW rd \in Bit, NEW rn \in Bit, NEW rm \in Bit
    PROVE  Encodes(ThreeRegs(Word(\hCB00, \h0000), rd, rn, rm), G!sub_reg(rd, rn, rm))
<1> DEFINE base == {31, 30, 27, 25, 24}
           w == ThreeRegs(base, rd, rn, rm)
<1>1. OpcodeBits(base, (0 .. 9) \cup (16 .. 20))
  BY DEF OpcodeBits, Bit
<1> HIDE DEF base, w
<1>2. HasThreeRegs(w, base, rd, rn, rm)
  BY <1>1, ThreeRegsFields DEF w
<1>3. Decode(w) = [op |-> "sub", rd |-> rd, rn |-> rn, rm |-> rm]
  BY <1>2, DecodeShifted DEF base, HasThreeRegs
<1>4. base = Word(\hCB00, \h0000)
  BY BaseWords DEF base
<1> QED  BY <1>2, <1>3, <1>4 DEF w, Encodes, HasThreeRegs, G!sub_reg

LEMMA SubsEncodes ==
    ASSUME NEW rd \in Bit, NEW rn \in Bit, NEW rm \in Bit
    PROVE  Encodes(ThreeRegs(Word(\hEB00, \h0000), rd, rn, rm),
                   [op |-> "subs", rd |-> rd, rn |-> rn, rm |-> rm])
<1> DEFINE base == {31, 30, 29, 27, 25, 24}
           w == ThreeRegs(base, rd, rn, rm)
<1>1. OpcodeBits(base, (0 .. 9) \cup (16 .. 20))
  BY DEF OpcodeBits, Bit
<1> HIDE DEF base, w
<1>2. HasThreeRegs(w, base, rd, rn, rm)
  BY <1>1, ThreeRegsFields DEF w
<1>3. Decode(w) = [op |-> "subs", rd |-> rd, rn |-> rn, rm |-> rm]
  BY <1>2, DecodeShifted DEF base, HasThreeRegs
<1>4. base = Word(\hEB00, \h0000)
  BY BaseWords DEF base
<1> QED  BY <1>2, <1>3, <1>4 DEF w, Encodes, HasThreeRegs

LEMMA OrrEncodes ==
    ASSUME NEW rd \in Bit, NEW rn \in Bit, NEW rm \in Bit
    PROVE  Encodes(ThreeRegs(Word(\hAA00, \h0000), rd, rn, rm),
                   [op |-> "orr", rd |-> rd, rn |-> rn, rm |-> rm])
<1> DEFINE base == {31, 29, 27, 25}
           w == ThreeRegs(base, rd, rn, rm)
<1>1. OpcodeBits(base, (0 .. 9) \cup (16 .. 20))
  BY DEF OpcodeBits, Bit
<1> HIDE DEF base, w
<1>2. HasThreeRegs(w, base, rd, rn, rm)
  BY <1>1, ThreeRegsFields DEF w
<1>3. Decode(w) = [op |-> "orr", rd |-> rd, rn |-> rn, rm |-> rm]
  BY <1>2, DecodeOrr DEF base, HasThreeRegs
<1>4. base = Word(\hAA00, \h0000)
  BY BaseWords DEF base
<1> QED  BY <1>2, <1>3, <1>4 DEF w, Encodes, HasThreeRegs

LEMMA SdivEncodes ==
    ASSUME NEW rd \in Bit, NEW rn \in Bit, NEW rm \in Bit
    PROVE  Encodes(ThreeRegs(Word(\h9AC0, \h0C00), rd, rn, rm), G!sdiv(rd, rn, rm))
<1> DEFINE base == {31, 28, 27, 25, 23, 22, 11, 10}
           w == ThreeRegs(base, rd, rn, rm)
<1>1. OpcodeBits(base, (0 .. 9) \cup (16 .. 20))
  BY DEF OpcodeBits, Bit
<1> HIDE DEF base, w
<1>2. HasThreeRegs(w, base, rd, rn, rm)
  BY <1>1, ThreeRegsFields DEF w
<1>3. Decode(w) = [op |-> "sdiv", rd |-> rd, rn |-> rn, rm |-> rm]
  BY <1>2, DecodeSdiv DEF base, HasThreeRegs
<1>4. base = Word(\h9AC0, \h0C00)
  BY BaseWords DEF base
<1> QED  BY <1>2, <1>3, <1>4 DEF w, Encodes, HasThreeRegs, G!sdiv

-----------------------------------------------------------------------------
(* Three registers and one more operand *)

(* Three registers, and another operand between the second and the third. *)
LEMMA MiddleField ==
    ASSUME NEW low \in 10 .. 15, NEW high \in low .. 15, NEW n \in Nat,
           n < TwoTo[high + 1 - low],
           NEW opcode, OpcodeBits(opcode, (0 .. 9) \cup (16 .. 20) \cup (low .. high)),
           NEW rd \in Bit, NEW rn \in Bit, NEW rm \in Bit
    PROVE  LET w == ThreeRegs(opcode \cup Shl(n, low), rd, rn, rm)
           IN  /\ w \subseteq Bit
               /\ \A j \in (10 .. 15) \cup (21 .. 31) :
                     j \notin low .. high => (j \in w <=> j \in opcode)
               /\ Field(w, 4, 0) = rd /\ Field(w, 9, 5) = rn /\ Field(w, 20, 16) = rm
               /\ Field(w, high, low) = n
<1> DEFINE base == opcode \cup Shl(n, low)
           w == ThreeRegs(base, rd, rn, rm)
<1>1. /\ \A j \in Shl(n, low) : j \in Bit /\ j \in low .. high
      /\ \A j \in opcode : j \in Bit /\ j \notin 0 .. 9 /\ j \notin 16 .. 20
                           /\ j \notin low .. high
  <2>1. high + 1 - low \in 0 .. 30 /\ low + (high + 1 - low) - 1 = high /\ low \in Nat
    OBVIOUS
  <2>2. Shl(n, low) \subseteq Bit /\ Shl(n, low) \subseteq low .. low + (high + 1 - low) - 1
    BY <2>1, ShlPlace
  <2> QED  BY <2>1, <2>2 DEF OpcodeBits
<1>2. OpcodeBits(base, (0 .. 9) \cup (16 .. 20))
  BY <1>1 DEF OpcodeBits
<1>3. \A j \in Bit : j \in base <=> j \in opcode \/ j \in Shl(n, low)
  OBVIOUS
<1> HIDE DEF base, w
<1>4. HasThreeRegs(w, base, rd, rn, rm)
  BY <1>2, ThreeRegsFields DEF w
<1>5. \A j \in low .. high : j \in w <=> j \in Shl(n, low)
  <2>1. \A j \in low .. high : j \in 10 .. 15 /\ j \in Bit
    BY DEF Bit
  <2> QED  BY <1>1, <1>3, <1>4, <2>1 DEF HasThreeRegs
<1>6. Field(w, high, low) = n
  <2>1. high \in 0 .. 31 /\ low \in 0 .. high /\ high - low <= 29
    OBVIOUS
  <2> QED  BY <1>5, <2>1, FieldOf
<1>7. \A j \in (10 .. 15) \cup (21 .. 31) :
          j \notin low .. high => (j \in w <=> j \in opcode)
  BY <1>1, <1>3, <1>4 DEF HasThreeRegs, Bit
<1> QED  BY <1>4, <1>6, <1>7 DEF HasThreeRegs, base, w

(* msub; mul, which is madd with XZR; cset, which is csinc of XZR and XZR. *)
LEMMA MsubEncodes ==
    ASSUME NEW rd \in Bit, NEW rn \in Bit, NEW rm \in Bit, NEW ra \in Bit
    PROVE  Encodes(ThreeRegs(Word(\h9B00, \h8000), rd, rn, rm) \cup Shl(ra, 10),
                   G!msub(rd, rn, rm, ra))
<1> DEFINE opcode == {31, 28, 27, 25, 24, 15}
           w == ThreeRegs(opcode \cup Shl(ra, 10), rd, rn, rm)
<1>1. OpcodeBits(opcode, (0 .. 9) \cup (16 .. 20) \cup (10 .. 14))
  BY DEF OpcodeBits, Bit
<1>2. ra \in Nat /\ ra < TwoTo[14 + 1 - 10]
  BY Powers DEF Bit
<1> HIDE DEF opcode, w
<1>3. /\ w \subseteq Bit
      /\ \A j \in (10 .. 15) \cup (21 .. 31) :
            j \notin 10 .. 14 => (j \in w <=> j \in opcode)
      /\ Field(w, 4, 0) = rd /\ Field(w, 9, 5) = rn /\ Field(w, 20, 16) = rm
      /\ Field(w, 14, 10) = ra
  BY <1>1, <1>2, MiddleField DEF w
<1>4. Decode(w) = [op |-> "msub", rd |-> rd, rn |-> rn, rm |-> rm, ra |-> ra]
  BY <1>3, DecodeThreeSources DEF opcode
<1>5. Word(\h9B00, \h8000) = opcode
  BY BaseWords DEF opcode
<1>6. ThreeRegs(Word(\h9B00, \h8000), rd, rn, rm) \cup Shl(ra, 10) = w
  BY <1>5 DEF w, ThreeRegs
<1> QED  BY <1>3, <1>4, <1>6 DEF Encodes, G!msub

LEMMA MulEncodes ==
    ASSUME NEW rd \in Bit, NEW rn \in Bit, NEW rm \in Bit
    PROVE  Encodes(ThreeRegs(Word(\h9B00, \h0000), rd, rn, rm) \cup Shl(31, 10),
                   G!mul(rd, rn, rm))
<1> DEFINE opcode == {31, 28, 27, 25, 24}
           w == ThreeRegs(opcode \cup Shl(31, 10), rd, rn, rm)
<1>1. OpcodeBits(opcode, (0 .. 9) \cup (16 .. 20) \cup (10 .. 14))
  BY DEF OpcodeBits, Bit
<1>2. 31 < TwoTo[14 + 1 - 10]
  BY Powers DEF Bit
<1> HIDE DEF opcode, w
<1>3. /\ w \subseteq Bit
      /\ \A j \in (10 .. 15) \cup (21 .. 31) :
            j \notin 10 .. 14 => (j \in w <=> j \in opcode)
      /\ Field(w, 4, 0) = rd /\ Field(w, 9, 5) = rn /\ Field(w, 20, 16) = rm
      /\ Field(w, 14, 10) = 31
  BY <1>1, <1>2, MiddleField DEF w
<1>4. Decode(w) = [op |-> "madd", rd |-> rd, rn |-> rn, rm |-> rm, ra |-> 31]
  BY <1>3, DecodeThreeSources DEF opcode
<1>5. Word(\h9B00, \h0000) = opcode
  BY BaseWords DEF opcode
<1>6. ThreeRegs(Word(\h9B00, \h0000), rd, rn, rm) \cup Shl(31, 10) = w
  BY <1>5 DEF w, ThreeRegs
<1> QED  BY <1>3, <1>4, <1>6 DEF Encodes, G!mul, G!XZR

(* The alias cset: the inverted condition between two zero registers. *)
LEMMA CsetEncodes ==
    ASSUME NEW rd \in Bit, NEW cond \in Nat, cond <= 15
    PROVE  Encodes(Word(\h9A80, \h0400) \cup Shl(31, 16) \cup Shl(G!Inverted(cond), 12)
                       \cup Shl(31, 5) \cup Shl(rd, 0),
                   G!cset(rd, cond))
<1> DEFINE opcode == {31, 28, 27, 25, 23, 10}
           c == G!Inverted(cond)
           w == ThreeRegs(opcode \cup Shl(c, 12), rd, 31, 31)
<1>1. OpcodeBits(opcode, (0 .. 9) \cup (16 .. 20) \cup (12 .. 15))
  BY DEF OpcodeBits, Bit
<1>2. c \in Nat /\ c < TwoTo[15 + 1 - 12] /\ 31 \in Bit
  <2>1. c \in 0 .. 15
    BY DEF G!Inverted
  <2> QED  BY <2>1, Powers DEF Bit
<1> HIDE DEF opcode, w, c
<1>3. /\ w \subseteq Bit
      /\ \A j \in (10 .. 15) \cup (21 .. 31) :
            j \notin 12 .. 15 => (j \in w <=> j \in opcode)
      /\ Field(w, 4, 0) = rd /\ Field(w, 9, 5) = 31 /\ Field(w, 20, 16) = 31
      /\ Field(w, 15, 12) = c
  BY <1>1, <1>2, MiddleField DEF w
<1>4. Decode(w) = [op |-> "csinc", rd |-> rd, rn |-> 31, rm |-> 31, cond |-> c]
  BY <1>3, DecodeCsinc DEF opcode
<1>5. Word(\h9A80, \h0400) = opcode
  BY BaseWords DEF opcode
<1>6. Word(\h9A80, \h0400) \cup Shl(31, 16) \cup Shl(c, 12) \cup Shl(31, 5) \cup Shl(rd, 0) = w
  BY <1>5 DEF w, ThreeRegs
<1> QED  BY <1>3, <1>4, <1>6 DEF Encodes, G!cset, G!XZR, c

-----------------------------------------------------------------------------
(* Operands that are numbers, and the wide moves *)

(* A number that fits its field, and words that have the same bits there. *)
FitsField(n, high, low) ==
    /\ high \in 0 .. 31 /\ low \in 0 .. high /\ high - low <= 29
    /\ n \in Nat /\ n < TwoTo[high + 1 - low]

(* Two words agree on the bits from low up to high. *)
AgreeOn(v, w, high, low) == \A j \in low .. high : j \in v <=> j \in w

(* A number put in its field is in it, and in no other bit. *)
LEMMA Placed ==
    ASSUME NEW high, NEW low, NEW n, FitsField(n, high, low)
    PROVE  \A j \in Shl(n, low) : j \in Bit /\ j \in low .. high
<1>1. high + 1 - low \in 0 .. 30 /\ low + (high + 1 - low) - 1 = high /\ low \in Nat
  BY DEF Bit, FitsField
<1>2. Shl(n, low) \subseteq Bit /\ Shl(n, low) \subseteq low .. low + (high + 1 - low) - 1
  BY <1>1, ShlPlace DEF FitsField
<1> QED  BY <1>1, <1>2

(* A field that agrees with the number put there has that number. *)
LEMMA ReadBack ==
    ASSUME NEW high, NEW low, NEW n, FitsField(n, high, low),
           NEW w, AgreeOn(w, Shl(n, low), high, low)
    PROVE  Field(w, high, low) = n
BY FieldOf DEF FitsField, AgreeOn

(* Registers fit their fields. *)
LEMMA RegFits ==
    ASSUME NEW r \in Bit
    PROVE  /\ FitsField(r, 4, 0) /\ FitsField(r, 9, 5)
           /\ FitsField(r, 14, 10) /\ FitsField(r, 20, 16)
BY Powers DEF FitsField, Bit

(* The word of movz and movk, and its fields. *)
MoveWideWord(opcode, rd, imm, hw) == opcode \cup Shl(hw, 21) \cup Shl(imm, 5) \cup Shl(rd, 0)

HasMoveWide(w, opcode, rd, imm, hw) ==
    /\ w \subseteq Bit
    /\ AgreeOn(w, opcode, 31, 23)
    /\ Field(w, 4, 0) = rd /\ Field(w, 20, 5) = imm /\ Field(w, 22, 21) = hw

LEMMA MoveWideFields ==
    ASSUME NEW opcode, OpcodeBits(opcode, 0 .. 22),
           NEW rd \in Bit, NEW imm, FitsField(imm, 20, 5), NEW hw, FitsField(hw, 22, 21)
    PROVE  HasMoveWide(MoveWideWord(opcode, rd, imm, hw), opcode, rd, imm, hw)
<1> DEFINE w == MoveWideWord(opcode, rd, imm, hw)
<1>1. FitsField(rd, 4, 0)
  BY RegFits
<1>4. /\ \A j \in Shl(rd, 0) : j \in Bit /\ j \in 0 .. 4
      /\ \A j \in Shl(imm, 5) : j \in Bit /\ j \in 5 .. 20
      /\ \A j \in Shl(hw, 21) : j \in Bit /\ j \in 21 .. 22
  BY <1>1, Placed
<1>5. \A j \in opcode : j \in Bit /\ j \notin 0 .. 22
  BY DEF OpcodeBits
<1>6. \A j : j \in w <=> \/ j \in opcode \/ j \in Shl(hw, 21)
                         \/ j \in Shl(imm, 5) \/ j \in Shl(rd, 0)
  BY DEF MoveWideWord
<1> HIDE DEF w
<1>7. AgreeOn(w, Shl(rd, 0), 4, 0)
  BY <1>4, <1>5, <1>6 DEF AgreeOn
<1>8. AgreeOn(w, Shl(imm, 5), 20, 5)
  BY <1>4, <1>5, <1>6 DEF AgreeOn
<1>9. AgreeOn(w, Shl(hw, 21), 22, 21)
  BY <1>4, <1>5, <1>6 DEF AgreeOn
<1>10. AgreeOn(w, opcode, 31, 23)
  BY <1>4, <1>5, <1>6 DEF AgreeOn
<1>11. w \subseteq Bit
  BY <1>4, <1>5, <1>6
<1>12. Field(w, 4, 0) = rd /\ Field(w, 20, 5) = imm /\ Field(w, 22, 21) = hw
  BY <1>1, <1>7, <1>8, <1>9, ReadBack
<1> QED  BY <1>10, <1>11, <1>12 DEF w, HasMoveWide

(* movz and movk decode to the record of their operands. *)
LEMMA MovesEncode ==
    ASSUME NEW rd \in Bit, NEW imm \in Nat, imm <= 65535, NEW hw \in Nat, hw <= 3
    PROVE  /\ Encodes(MoveWideWord(Word(\hD280, \h0000), rd, imm, hw), G!movz(rd, imm, hw))
           /\ Encodes(MoveWideWord(Word(\hF280, \h0000), rd, imm, hw), G!movk(rd, imm, hw))
<1>2. FitsField(imm, 20, 5)
  <2>1. TwoTo[20 + 1 - 5] = 65536
    BY Powers
  <2> QED  BY <2>1 DEF FitsField
<1>3. FitsField(hw, 22, 21)
  <2>1. TwoTo[22 + 1 - 21] = 4
    BY Powers
  <2> QED  BY <2>1 DEF FitsField
<1>1. ASSUME NEW opcode, OpcodeBits(opcode, 0 .. 22),
             31 \in opcode, 30 \in opcode, 28 \in opcode, 27 \notin opcode, 26 \notin opcode,
             25 \in opcode, 24 \notin opcode, 23 \in opcode
      PROVE  Encodes(MoveWideWord(opcode, rd, imm, hw),
                     [op |-> IF 29 \in opcode THEN "movk" ELSE "movz",
                      rd |-> rd, imm |-> imm, hw |-> hw])
  <2> DEFINE w == MoveWideWord(opcode, rd, imm, hw)
  <2>1. HasMoveWide(w, opcode, rd, imm, hw)
    BY <1>1, <1>2, <1>3, MoveWideFields
  <2> HIDE DEF w
  <2>2. Decode(w) = [op |-> IF 29 \in opcode THEN "movk" ELSE "movz",
                     rd |-> rd, imm |-> imm, hw |-> hw]
    BY <1>1, <2>1, DecodeMoveWide DEF HasMoveWide, AgreeOn
  <2> QED  BY <2>1, <2>2 DEF Encodes, w, HasMoveWide
<1>4. Encodes(MoveWideWord(Word(\hD280, \h0000), rd, imm, hw), G!movz(rd, imm, hw))
  <2> DEFINE z == {31, 30, 28, 25, 23}
  <2>1. OpcodeBits(z, 0 .. 22)
    BY DEF OpcodeBits, Bit
  <2>2. Word(\hD280, \h0000) = z
    BY BaseWords
  <2> QED  BY <1>1, <2>1, <2>2 DEF G!movz
<1>5. Encodes(MoveWideWord(Word(\hF280, \h0000), rd, imm, hw), G!movk(rd, imm, hw))
  <2> DEFINE z == {31, 30, 29, 28, 25, 23}
  <2>1. OpcodeBits(z, 0 .. 22)
    BY DEF OpcodeBits, Bit
  <2>2. Word(\hF280, \h0000) = z
    BY BaseWords
  <2> QED  BY <1>1, <2>1, <2>2 DEF G!movk
<1> QED  BY <1>4, <1>5

-----------------------------------------------------------------------------
(* Immediates and addresses *)

(* The word of an addition with an immediate, and its fields. *)
ImmediateWord(opcode, rd, rn, imm) == opcode \cup Shl(imm, 10) \cup Shl(rn, 5) \cup Shl(rd, 0)

HasImmediate(w, opcode, rd, rn, imm) ==
    /\ w \subseteq Bit
    /\ AgreeOn(w, opcode, 31, 22)
    /\ Field(w, 4, 0) = rd /\ Field(w, 9, 5) = rn /\ Field(w, 21, 10) = imm

LEMMA ImmediateFields ==
    ASSUME NEW opcode, OpcodeBits(opcode, 0 .. 21),
           NEW rd \in Bit, NEW rn \in Bit, NEW imm, FitsField(imm, 21, 10)
    PROVE  HasImmediate(ImmediateWord(opcode, rd, rn, imm), opcode, rd, rn, imm)
<1> DEFINE w == ImmediateWord(opcode, rd, rn, imm)
<1>1. FitsField(rd, 4, 0) /\ FitsField(rn, 9, 5) /\ FitsField(imm, 21, 10)
  BY RegFits
<1>2. /\ \A j \in Shl(rd, 0) : j \in Bit /\ j \in 0 .. 4
      /\ \A j \in Shl(rn, 5) : j \in Bit /\ j \in 5 .. 9
      /\ \A j \in Shl(imm, 10) : j \in Bit /\ j \in 10 .. 21
  BY <1>1, Placed
<1>3. \A j \in opcode : j \in Bit /\ j \notin 0 .. 21
  BY DEF OpcodeBits
<1>4. \A j : j \in w <=> \/ j \in opcode
                         \/ j \in Shl(imm, 10)
                         \/ j \in Shl(rn, 5)
                         \/ j \in Shl(rd, 0)
  BY DEF ImmediateWord
<1> HIDE DEF w
<1>5. AgreeOn(w, Shl(rd, 0), 4, 0)
  BY <1>2, <1>3, <1>4 DEF AgreeOn
<1>6. AgreeOn(w, Shl(rn, 5), 9, 5)
  BY <1>2, <1>3, <1>4 DEF AgreeOn
<1>7. AgreeOn(w, Shl(imm, 10), 21, 10)
  BY <1>2, <1>3, <1>4 DEF AgreeOn
<1>8. AgreeOn(w, opcode, 31, 22)
  BY <1>2, <1>3, <1>4 DEF AgreeOn
<1>9. w \subseteq Bit
  BY <1>2, <1>3, <1>4
<1>10. Field(w, 4, 0) = rd /\ Field(w, 9, 5) = rn /\ Field(w, 21, 10) = imm
  BY <1>1, <1>5, <1>6, <1>7, ReadBack
<1> QED  BY <1>8, <1>9, <1>10 DEF w, HasImmediate

(* add_imm and sub_imm decode to the record of their operands. *)
LEMMA AddImmEncodes ==
    ASSUME NEW rd \in Bit, NEW rn \in Bit, NEW imm \in Nat, imm <= 4095
    PROVE  Encodes(ImmediateWord(Word(\h9100, \h0000), rd, rn, imm), G!add_imm(rd, rn, imm))
<1> DEFINE opcode == {31, 28, 24}
           w == ImmediateWord(opcode, rd, rn, imm)
<1>1. FitsField(imm, 21, 10)
  <2>1. TwoTo[21 + 1 - 10] = 4096
    BY Powers
  <2> QED  BY <2>1 DEF FitsField
<1>2. OpcodeBits(opcode, 0 .. 21)
  BY DEF OpcodeBits, Bit
<1>3. Word(\h9100, \h0000) = opcode
  BY BaseWords DEF opcode
<1> HIDE DEF opcode, w
<1>4. HasImmediate(w, opcode, rd, rn, imm)
  BY <1>1, <1>2, ImmediateFields DEF w
<1>5. Decode(w) = [op |-> "addi", rd |-> rd, rn |-> rn, imm |-> imm]
  BY <1>4, DecodeImmediate DEF opcode, AgreeOn, HasImmediate
<1> QED  BY <1>3, <1>4, <1>5 DEF w, Encodes, HasImmediate, G!add_imm

LEMMA SubImmEncodes ==
    ASSUME NEW rd \in Bit, NEW rn \in Bit, NEW imm \in Nat, imm <= 4095
    PROVE  Encodes(ImmediateWord(Word(\hD100, \h0000), rd, rn, imm), G!sub_imm(rd, rn, imm))
<1> DEFINE opcode == {31, 30, 28, 24}
           w == ImmediateWord(opcode, rd, rn, imm)
<1>1. FitsField(imm, 21, 10)
  <2>1. TwoTo[21 + 1 - 10] = 4096
    BY Powers
  <2> QED  BY <2>1 DEF FitsField
<1>2. OpcodeBits(opcode, 0 .. 21)
  BY DEF OpcodeBits, Bit
<1>3. Word(\hD100, \h0000) = opcode
  BY BaseWords DEF opcode
<1> HIDE DEF opcode, w
<1>4. HasImmediate(w, opcode, rd, rn, imm)
  BY <1>1, <1>2, ImmediateFields DEF w
<1>5. Decode(w) = [op |-> "subi", rd |-> rd, rn |-> rn, imm |-> imm]
  BY <1>4, DecodeImmediate DEF opcode, AgreeOn, HasImmediate
<1> QED  BY <1>3, <1>4, <1>5 DEF w, Encodes, HasImmediate, G!sub_imm

(* A word of a load or a store of one register. *)
HasOneReg(w, opcode, rt, rn, imm) ==
    /\ w \subseteq Bit
    /\ AgreeOn(w, opcode, 31, 21) /\ AgreeOn(w, opcode, 11, 10)
    /\ Field(w, 4, 0) = rt /\ Field(w, 9, 5) = rn /\ Field(w, 20, 12) = imm % 2 ^ 9

LEMMA OneRegFields ==
    ASSUME NEW opcode, OpcodeBits(opcode, (0 .. 9) \cup (12 .. 20)),
           NEW rt \in Bit, NEW rn \in Bit, NEW imm, FitsField(imm % 2 ^ 9, 20, 12)
    PROVE  HasOneReg(OneReg(opcode, rt, rn, imm), opcode, rt, rn, imm)
<1> DEFINE w == OneReg(opcode, rt, rn, imm)
<1>1. FitsField(rt, 4, 0) /\ FitsField(rn, 9, 5) /\ FitsField(imm % 2 ^ 9, 20, 12)
  BY RegFits
<1>2. /\ \A j \in Shl(rt, 0) : j \in Bit /\ j \in 0 .. 4
      /\ \A j \in Shl(rn, 5) : j \in Bit /\ j \in 5 .. 9
      /\ \A j \in Shl(imm % 2 ^ 9, 12) : j \in Bit /\ j \in 12 .. 20
  BY <1>1, Placed
<1>3. \A j \in opcode : j \in Bit /\ j \notin (0 .. 9) \cup (12 .. 20)
  BY DEF OpcodeBits
<1>4. \A j : j \in w <=> \/ j \in opcode
                         \/ j \in Shl(imm % 2 ^ 9, 12)
                         \/ j \in Shl(rn, 5)
                         \/ j \in Shl(rt, 0)
  BY DEF OneReg
<1> HIDE DEF w
<1>5. AgreeOn(w, Shl(rt, 0), 4, 0)
  BY <1>2, <1>3, <1>4 DEF AgreeOn
<1>6. AgreeOn(w, Shl(rn, 5), 9, 5)
  BY <1>2, <1>3, <1>4 DEF AgreeOn
<1>7. AgreeOn(w, Shl(imm % 2 ^ 9, 12), 20, 12)
  BY <1>2, <1>3, <1>4 DEF AgreeOn
<1>8. AgreeOn(w, opcode, 31, 21) /\ AgreeOn(w, opcode, 11, 10)
  BY <1>2, <1>3, <1>4 DEF AgreeOn
<1>9. w \subseteq Bit
  BY <1>2, <1>3, <1>4
<1>10. Field(w, 4, 0) = rt /\ Field(w, 9, 5) = rn /\ Field(w, 20, 12) = imm % 2 ^ 9
  BY <1>1, <1>5, <1>6, <1>7, ReadBack
<1> QED  BY <1>8, <1>9, <1>10 DEF w, HasOneReg

(* The range check of the code keeps a signed offset in its nine bits. *)
LEMMA Imm9Fits ==
    ASSUME NEW imm \in Int, imm9_ok(imm)
    PROVE  /\ FitsField(imm % 2 ^ 9, 20, 12)
           /\ \A w : Field(w, 20, 12) = imm % 2 ^ 9 => Signed(w, 20, 12) = imm
<1>1. TwoTo[20 + 1 - 12] = 512 /\ TwoTo[20 - 12] = 256
  BY Powers
<1>2. imm % 512 \in 0 .. 511
  OBVIOUS
<1>3. FitsField(imm % 512, 20, 12)
  BY <1>1, <1>2 DEF FitsField
<1>4. imm \in -256 .. 256 - 1
  BY DEF imm9_ok
<1>5. ASSUME NEW w, Field(w, 20, 12) = imm % 512 PROVE Signed(w, 20, 12) = imm
  BY <1>1, <1>4, <1>5, SignedIs
<1> QED  BY <1>3, <1>5

(* The loads and stores decode to the record of their operands. *)
LEMMA StrPreEncodes ==
    ASSUME NEW rt \in Bit, NEW rn \in Bit, NEW imm \in Int, imm9_ok(imm)
    PROVE  Encodes(OneReg(Word(\hF800, \h0C00), rt, rn, imm), G!str_pre(rt, rn, imm))
<1> DEFINE opcode == {31, 30, 29, 28, 27, 11, 10}
           w == OneReg(opcode, rt, rn, imm)
<1>1. /\ FitsField(imm % 2 ^ 9, 20, 12)
      /\ Field(w, 20, 12) = imm % 2 ^ 9 => Signed(w, 20, 12) = imm
  BY Imm9Fits
<1>2. OpcodeBits(opcode, (0 .. 9) \cup (12 .. 20))
  BY DEF OpcodeBits, Bit
<1>3. Word(\hF800, \h0C00) = opcode
  BY BaseWords DEF opcode
<1> HIDE DEF opcode, w
<1>4. HasOneReg(w, opcode, rt, rn, imm)
  BY <1>1, <1>2, OneRegFields DEF w
<1>5. Decode(w) = [op |-> "str_pre", rt |-> rt, rn |-> rn, imm |-> imm]
  BY <1>1, <1>4, DecodeOneRegister DEF opcode, AgreeOn, HasOneReg
<1> QED  BY <1>3, <1>4, <1>5 DEF w, Encodes, HasOneReg, G!str_pre

LEMMA LdrPostEncodes ==
    ASSUME NEW rt \in Bit, NEW rn \in Bit, NEW imm \in Int, imm9_ok(imm)
    PROVE  Encodes(OneReg(Word(\hF840, \h0400), rt, rn, imm), G!ldr_post(rt, rn, imm))
<1> DEFINE opcode == {31, 30, 29, 28, 27, 22, 10}
           w == OneReg(opcode, rt, rn, imm)
<1>1. /\ FitsField(imm % 2 ^ 9, 20, 12)
      /\ Field(w, 20, 12) = imm % 2 ^ 9 => Signed(w, 20, 12) = imm
  BY Imm9Fits
<1>2. OpcodeBits(opcode, (0 .. 9) \cup (12 .. 20))
  BY DEF OpcodeBits, Bit
<1>3. Word(\hF840, \h0400) = opcode
  BY BaseWords DEF opcode
<1> HIDE DEF opcode, w
<1>4. HasOneReg(w, opcode, rt, rn, imm)
  BY <1>1, <1>2, OneRegFields DEF w
<1>5. Decode(w) = [op |-> "ldr_post", rt |-> rt, rn |-> rn, imm |-> imm]
  BY <1>1, <1>4, DecodeOneRegister DEF opcode, AgreeOn, HasOneReg
<1> QED  BY <1>3, <1>4, <1>5 DEF w, Encodes, HasOneReg, G!ldr_post

LEMMA SturEncodes ==
    ASSUME NEW rt \in Bit, NEW rn \in Bit, NEW imm \in Int, imm9_ok(imm)
    PROVE  Encodes(OneReg(Word(\hF800, \h0000), rt, rn, imm), G!stur(rt, rn, imm))
<1> DEFINE opcode == {31, 30, 29, 28, 27}
           w == OneReg(opcode, rt, rn, imm)
<1>1. /\ FitsField(imm % 2 ^ 9, 20, 12)
      /\ Field(w, 20, 12) = imm % 2 ^ 9 => Signed(w, 20, 12) = imm
  BY Imm9Fits
<1>2. OpcodeBits(opcode, (0 .. 9) \cup (12 .. 20))
  BY DEF OpcodeBits, Bit
<1>3. Word(\hF800, \h0000) = opcode
  BY BaseWords DEF opcode
<1> HIDE DEF opcode, w
<1>4. HasOneReg(w, opcode, rt, rn, imm)
  BY <1>1, <1>2, OneRegFields DEF w
<1>5. Decode(w) = [op |-> "stur", rt |-> rt, rn |-> rn, imm |-> imm]
  BY <1>1, <1>4, DecodeOneRegister DEF opcode, AgreeOn, HasOneReg
<1> QED  BY <1>3, <1>4, <1>5 DEF w, Encodes, HasOneReg, G!stur

LEMMA LdurEncodes ==
    ASSUME NEW rt \in Bit, NEW rn \in Bit, NEW imm \in Int, imm9_ok(imm)
    PROVE  Encodes(OneReg(Word(\hF840, \h0000), rt, rn, imm), G!ldur(rt, rn, imm))
<1> DEFINE opcode == {31, 30, 29, 28, 27, 22}
           w == OneReg(opcode, rt, rn, imm)
<1>1. /\ FitsField(imm % 2 ^ 9, 20, 12)
      /\ Field(w, 20, 12) = imm % 2 ^ 9 => Signed(w, 20, 12) = imm
  BY Imm9Fits
<1>2. OpcodeBits(opcode, (0 .. 9) \cup (12 .. 20))
  BY DEF OpcodeBits, Bit
<1>3. Word(\hF840, \h0000) = opcode
  BY BaseWords DEF opcode
<1> HIDE DEF opcode, w
<1>4. HasOneReg(w, opcode, rt, rn, imm)
  BY <1>1, <1>2, OneRegFields DEF w
<1>5. Decode(w) = [op |-> "ldur", rt |-> rt, rn |-> rn, imm |-> imm]
  BY <1>1, <1>4, DecodeOneRegister DEF opcode, AgreeOn, HasOneReg
<1> QED  BY <1>3, <1>4, <1>5 DEF w, Encodes, HasOneReg, G!ldur

(* A word of a load or a store of a pair. *)
HasTwoRegs(w, opcode, rt, rt2, rn, imm) ==
    /\ w \subseteq Bit
    /\ AgreeOn(w, opcode, 31, 22)
    /\ Field(w, 4, 0) = rt /\ Field(w, 9, 5) = rn
    /\ Field(w, 14, 10) = rt2 /\ Field(w, 21, 15) = (imm \div 8) % 2 ^ 7

LEMMA TwoRegsFields ==
    ASSUME NEW opcode, OpcodeBits(opcode, 0 .. 21),
           NEW rt \in Bit, NEW rt2 \in Bit, NEW rn \in Bit,
           NEW imm, FitsField((imm \div 8) % 2 ^ 7, 21, 15)
    PROVE  HasTwoRegs(TwoRegs(opcode, rt, rt2, rn, imm), opcode, rt, rt2, rn, imm)
<1> DEFINE w == TwoRegs(opcode, rt, rt2, rn, imm)
<1>1. FitsField(rt, 4, 0) /\ FitsField(rn, 9, 5) /\ FitsField(rt2, 14, 10)
      /\ FitsField((imm \div 8) % 2 ^ 7, 21, 15)
  BY RegFits
<1>2. /\ \A j \in Shl(rt, 0) : j \in Bit /\ j \in 0 .. 4
      /\ \A j \in Shl(rn, 5) : j \in Bit /\ j \in 5 .. 9
      /\ \A j \in Shl(rt2, 10) : j \in Bit /\ j \in 10 .. 14
      /\ \A j \in Shl((imm \div 8) % 2 ^ 7, 15) : j \in Bit /\ j \in 15 .. 21
  BY <1>1, Placed
<1>3. \A j \in opcode : j \in Bit /\ j \notin 0 .. 21
  BY DEF OpcodeBits
<1>4. \A j : j \in w <=> \/ j \in opcode
                         \/ j \in Shl((imm \div 8) % 2 ^ 7, 15)
                         \/ j \in Shl(rt2, 10)
                         \/ j \in Shl(rn, 5)
                         \/ j \in Shl(rt, 0)
  BY DEF TwoRegs
<1> HIDE DEF w
<1>5. AgreeOn(w, Shl(rt, 0), 4, 0)
  BY <1>2, <1>3, <1>4 DEF AgreeOn
<1>6. AgreeOn(w, Shl(rn, 5), 9, 5)
  BY <1>2, <1>3, <1>4 DEF AgreeOn
<1>7. AgreeOn(w, Shl(rt2, 10), 14, 10)
  BY <1>2, <1>3, <1>4 DEF AgreeOn
<1>8. AgreeOn(w, Shl((imm \div 8) % 2 ^ 7, 15), 21, 15)
  BY <1>2, <1>3, <1>4 DEF AgreeOn
<1>9. AgreeOn(w, opcode, 31, 22)
  BY <1>2, <1>3, <1>4 DEF AgreeOn
<1>10. w \subseteq Bit
  BY <1>2, <1>3, <1>4
<1>11. Field(w, 4, 0) = rt /\ Field(w, 9, 5) = rn
       /\ Field(w, 14, 10) = rt2 /\ Field(w, 21, 15) = (imm \div 8) % 2 ^ 7
  BY <1>1, <1>5, <1>6, <1>7, <1>8, ReadBack
<1> QED  BY <1>9, <1>10, <1>11 DEF w, HasTwoRegs

(* Likewise for an offset of a pair, scaled by 8, in seven bits. *)
LEMMA Imm7Fits ==
    ASSUME NEW imm \in Int, imm7_ok(imm)
    PROVE  /\ FitsField((imm \div 8) % 2 ^ 7, 21, 15)
           /\ \A w : Field(w, 21, 15) = (imm \div 8) % 2 ^ 7 => 8 * Signed(w, 21, 15) = imm
<1> DEFINE q == imm \div 8
<1>1. TwoTo[21 + 1 - 15] = 128 /\ TwoTo[21 - 15] = 64
  BY Powers
<1>2. q \in Int /\ imm = 8 * q /\ q \in -64 .. 64 - 1
  BY DEF imm7_ok
<1> HIDE DEF q
<1>3. q % 128 \in 0 .. 127
  BY <1>2
<1>4. FitsField(q % 128, 21, 15)
  BY <1>1, <1>3 DEF FitsField
<1>5. ASSUME NEW w, Field(w, 21, 15) = q % 128 PROVE Signed(w, 21, 15) = q
  BY <1>1, <1>2, <1>5, SignedIs
<1> QED  BY <1>2, <1>4, <1>5 DEF q

(* stp_pre and ldp_post decode to the record of their operands. *)
LEMMA StpPreEncodes ==
    ASSUME NEW rt \in Bit, NEW rt2 \in Bit, NEW rn \in Bit, NEW imm \in Int, imm7_ok(imm)
    PROVE  Encodes(TwoRegs(Word(\hA980, \h0000), rt, rt2, rn, imm), G!stp_pre(rt, rt2, rn, imm))
<1> DEFINE opcode == {31, 29, 27, 24, 23}
           w == TwoRegs(opcode, rt, rt2, rn, imm)
<1>1. /\ FitsField((imm \div 8) % 2 ^ 7, 21, 15)
      /\ Field(w, 21, 15) = (imm \div 8) % 2 ^ 7 => 8 * Signed(w, 21, 15) = imm
  BY Imm7Fits
<1>2. OpcodeBits(opcode, 0 .. 21)
  BY DEF OpcodeBits, Bit
<1>3. Word(\hA980, \h0000) = opcode
  BY BaseWords DEF opcode
<1> HIDE DEF opcode, w
<1>4. HasTwoRegs(w, opcode, rt, rt2, rn, imm)
  BY <1>1, <1>2, TwoRegsFields DEF w
<1>5. Decode(w) = [op |-> "stp_pre", rt |-> rt, rt2 |-> rt2, rn |-> rn, imm |-> imm]
  BY <1>1, <1>4, DecodePair DEF opcode, AgreeOn, HasTwoRegs
<1> QED  BY <1>3, <1>4, <1>5 DEF w, Encodes, HasTwoRegs, G!stp_pre

LEMMA LdpPostEncodes ==
    ASSUME NEW rt \in Bit, NEW rt2 \in Bit, NEW rn \in Bit, NEW imm \in Int, imm7_ok(imm)
    PROVE  Encodes(TwoRegs(Word(\hA8C0, \h0000), rt, rt2, rn, imm), G!ldp_post(rt, rt2, rn, imm))
<1> DEFINE opcode == {31, 29, 27, 23, 22}
           w == TwoRegs(opcode, rt, rt2, rn, imm)
<1>1. /\ FitsField((imm \div 8) % 2 ^ 7, 21, 15)
      /\ Field(w, 21, 15) = (imm \div 8) % 2 ^ 7 => 8 * Signed(w, 21, 15) = imm
  BY Imm7Fits
<1>2. OpcodeBits(opcode, 0 .. 21)
  BY DEF OpcodeBits, Bit
<1>3. Word(\hA8C0, \h0000) = opcode
  BY BaseWords DEF opcode
<1> HIDE DEF opcode, w
<1>4. HasTwoRegs(w, opcode, rt, rt2, rn, imm)
  BY <1>1, <1>2, TwoRegsFields DEF w
<1>5. Decode(w) = [op |-> "ldp_post", rt |-> rt, rt2 |-> rt2, rn |-> rn, imm |-> imm]
  BY <1>1, <1>4, DecodePair DEF opcode, AgreeOn, HasTwoRegs
<1> QED  BY <1>3, <1>4, <1>5 DEF w, Encodes, HasTwoRegs, G!ldp_post

(* blr and ret. *)
LEMMA BlrEncodes ==
    ASSUME NEW rn \in Bit
    PROVE  Encodes(Word(\hD63F, \h0000) \cup Shl(rn, 5), G!blr(rn))
<1> DEFINE opcode == {31, 30, 28, 26, 25, 21, 20, 19, 18, 17, 16}
           w == opcode \cup Shl(rn, 5)
<1>1. FitsField(rn, 9, 5)
  BY RegFits
<1>2. \A j \in Shl(rn, 5) : j \in Bit /\ j \in 5 .. 9
  BY <1>1, Placed
<1>3. \A j : j \in w <=> j \in opcode \/ j \in Shl(rn, 5)
  OBVIOUS
<1>4. opcode \subseteq Bit /\ \A j \in opcode : j \notin 5 .. 9
  BY DEF Bit
<1>5. Word(\hD63F, \h0000) = opcode
  BY BaseWords
<1> HIDE DEF opcode, w
<1>6. AgreeOn(w, Shl(rn, 5), 9, 5)
  BY <1>2, <1>3, <1>4 DEF AgreeOn
<1>7. Field(w, 9, 5) = rn
  BY <1>1, <1>6, ReadBack
<1>8. \A j \in (0 .. 4) \cup (10 .. 31) : j \in w <=> j \in opcode
  BY <1>2, <1>3
<1>9. Decode(w) = [op |-> "blr", rn |-> rn]
  BY <1>7, <1>8, DecodeRegisterBranch DEF opcode
<1>10. w \subseteq Bit
  BY <1>2, <1>3, <1>4
<1> QED  BY <1>5, <1>9, <1>10 DEF w, Encodes, G!blr

LEMMA RetEncodes == Encodes(Word(\hD65F, \h0000) \cup Shl(30, 5), G!ret)
<1> DEFINE opcode == {31, 30, 28, 26, 25, 22, 20, 19, 18, 17, 16}
           w == opcode \cup Shl(30, 5)
<1>1. FitsField(30, 9, 5)
  BY RegFits DEF Bit
<1>2. \A j \in Shl(30, 5) : j \in Bit /\ j \in 5 .. 9
  BY <1>1, Placed
<1>3. \A j : j \in w <=> j \in opcode \/ j \in Shl(30, 5)
  OBVIOUS
<1>4. opcode \subseteq Bit /\ \A j \in opcode : j \notin 5 .. 9
  BY DEF Bit
<1>5. Word(\hD65F, \h0000) = opcode
  BY BaseWords
<1> HIDE DEF opcode, w
<1>6. AgreeOn(w, Shl(30, 5), 9, 5)
  BY <1>2, <1>3, <1>4 DEF AgreeOn
<1>7. Field(w, 9, 5) = 30
  BY <1>1, <1>6, ReadBack
<1>8. \A j \in (0 .. 4) \cup (10 .. 31) : j \in w <=> j \in opcode
  BY <1>2, <1>3
<1>9. Decode(w) = [op |-> "ret"]
  BY <1>7, <1>8, DecodeRegisterBranch DEF opcode
<1>10. w \subseteq Bit
  BY <1>2, <1>3, <1>4
<1> QED  BY <1>5, <1>9, <1>10 DEF w, Encodes, G!ret

-----------------------------------------------------------------------------
(* Branches *)

(* The opcodes of the two families. *)
Imm26Word(w) == 30 \notin w /\ 29 \notin w /\ 28 \in w /\ 27 \notin w /\ 26 \in w
(* The two kinds of word with a displacement of 19 bits, and one of either kind. *)
CondWord(w) ==
    /\ 31 \notin w /\ 30 \in w /\ 29 \notin w /\ 28 \in w /\ 27 \notin w /\ 26 \in w
    /\ 25 \notin w /\ 24 \notin w /\ 4 \notin w
CbWord(w) ==
    31 \in w /\ 30 \notin w /\ 29 \in w /\ 28 \in w /\ 27 \notin w /\ 26 \in w /\ 25 \notin w

OfKind(w, kind) ==
    \/ kind = "imm26" /\ Imm26Word(w)
    \/ kind = "imm19" /\ (CondWord(w) \/ CbWord(w))

(* The bits of a displacement. *)
DispHigh(kind) == IF kind = "imm26" THEN 25 ELSE 23
DispLow(kind) == IF kind = "imm26" THEN 0 ELSE 5
Reach(kind) == IF kind = "imm26" THEN TwoTo[25] ELSE TwoTo[18]

(* A word of a kind is decoded as a branch of that kind. *)
LEMMA DecodesAsBranch ==
    ASSUME NEW w, NEW kind, OfKind(w, kind)
    PROVE  /\ Decode(w) =
                IF kind = "imm26"
                THEN [op |-> IF 31 \in w THEN "bl" ELSE "b",
                      by |-> Signed(w, DispHigh(kind), DispLow(kind))]
                ELSE IF 31 \in w
                THEN [op |-> IF 24 \in w THEN "cbnz" ELSE "cbz", rt |-> Field(w, 4, 0),
                      by |-> Signed(w, DispHigh(kind), DispLow(kind))]
                ELSE [op |-> "b_cond", cond |-> Field(w, 3, 0),
                      by |-> Signed(w, DispHigh(kind), DispLow(kind))]
           /\ Abstract(w) = [kind |-> kind,
                             field |-> Field(w, DispHigh(kind), DispLow(kind))]
<1>1. CASE kind = "imm26" /\ Imm26Word(w)
  <2>1. Decode(w) = [op |-> IF 31 \in w THEN "bl" ELSE "b", by |-> Signed(w, 25, 0)]
    BY <1>1, DecodeB DEF Imm26Word
  <2>2. Decode(w).op \in {"b", "bl"}
    BY <2>1
  <2>3. Abstract(w) = [kind |-> "imm26", field |-> Field(w, 25, 0)]
    BY <2>2 DEF Abstract
  <2> QED  BY <1>1, <2>1, <2>3 DEF DispHigh, DispLow
<1>2. CASE kind = "imm19" /\ CondWord(w)
  <2>1. Decode(w) = [op |-> "b_cond", cond |-> Field(w, 3, 0), by |-> Signed(w, 23, 5)]
    BY <1>2, DecodeBCond DEF CondWord
  <2>2. Decode(w).op = "b_cond"
    BY <2>1
  <2>3. Abstract(w) = [kind |-> "imm19", field |-> Field(w, 23, 5)]
    BY <2>2 DEF Abstract
  <2> QED  BY <1>2, <2>1, <2>3 DEF DispHigh, DispLow, CondWord
<1>3. CASE kind = "imm19" /\ CbWord(w)
  <2>1. Decode(w) = [op |-> IF 24 \in w THEN "cbnz" ELSE "cbz", rt |-> Field(w, 4, 0),
                     by |-> Signed(w, 23, 5)]
    BY <1>3, DecodeCbz DEF CbWord
  <2>2. Decode(w).op \in {"cbz", "cbnz"}
    BY <2>1
  <2>3. Abstract(w) = [kind |-> "imm19", field |-> Field(w, 23, 5)]
    BY <2>2 DEF Abstract
  <2> QED  BY <1>3, <2>1, <2>3 DEF DispHigh, DispLow, CbWord
<1> QED  BY <1>1, <1>2, <1>3 DEF OfKind

(* Fields that have the same bits are the same. *)
LEMMA SameField ==
    ASSUME NEW v, NEW w, NEW high \in Nat, NEW low \in Nat, low <= high, high - low <= 29,
           AgreeOn(v, w, high, low)
    PROVE  Field(v, high, low) = Field(w, high, low)
<1>1. low \in 0 .. high
  OBVIOUS
<1>2. /\ Field(w, high, low) \in Nat /\ Field(w, high, low) < TwoTo[high + 1 - low]
      /\ \A j \in 0 .. high - low : j \in Bits(Field(w, high, low)) <=> low + j \in w
  BY <1>1, FieldBits
<1>3. \A j \in 0 .. high - low : low + j \in low .. high
  OBVIOUS
<1>4. \A j \in 0 .. high - low : j \in Bits(Field(w, high, low)) <=> low + j \in v
  BY <1>2, <1>3 DEF AgreeOn
<1> QED  BY <1>1, <1>2, <1>4, FieldIs

(* What finalize writes into a word. *)
LEMMA PatchedBits ==
    ASSUME NEW w, w \subseteq Bit, NEW kind, kind = "imm26" \/ kind = "imm19",
           NEW delta \in Int, Fits(delta, kind)
    PROVE  LET v == Patched(w, delta, kind)
           IN  /\ v \subseteq Bit
               /\ \A j \in Bit : j \notin DispLow(kind) .. DispHigh(kind) =>
                     (j \in v <=> j \in w)
               /\ Field(v, DispHigh(kind), DispLow(kind)) = delta % (2 * Reach(kind))
               /\ Signed(v, DispHigh(kind), DispLow(kind)) = delta
<1> DEFINE v == Patched(w, delta, kind)
           high == DispHigh(kind)
           low == DispLow(kind)
           m == Reach(kind)
           d == delta % (2 * m)
<1>1. /\ high \in 0 .. 31 /\ low \in Nat /\ low < high /\ high - low <= 29
      /\ low \in 0 .. high
      /\ m = TwoTo[high - low] /\ 2 * m = TwoTo[high + 1 - low]
      /\ m \in Nat \ {0}
  <2>1. CASE kind = "imm26"
    <3>1. TwoTo[25] \in Nat \ {0} /\ TwoTo[25 + 1] = 2 * TwoTo[25]
      BY PowerFacts
    <3> QED  BY <2>1, <3>1 DEF DispHigh, DispLow, Reach
  <2>2. CASE kind = "imm19"
    <3>1. TwoTo[18] \in Nat \ {0} /\ TwoTo[18 + 1] = 2 * TwoTo[18]
      BY PowerFacts
    <3> QED  BY <2>2, <3>1 DEF DispHigh, DispLow, Reach
  <2> QED  BY <2>1, <2>2
<1>2. v = (w \ (low .. high)) \cup Shl(d, low)
  <2>1. CASE kind = "imm26"
    <3>1. TwoTo[26] = 2 * TwoTo[25]
      BY Powers
    <3> QED  BY <2>1, <3>1 DEF Patched, DispHigh, DispLow, Reach
  <2>2. CASE kind = "imm19"
    <3>1. TwoTo[19] = 2 * TwoTo[18]
      BY Powers
    <3> QED  BY <2>2, <3>1 DEF Patched, DispHigh, DispLow, Reach
  <2> QED  BY <2>1, <2>2
<1>3. -m <= delta /\ delta < m
  BY DEF Fits, Reach
<1> HIDE DEF v, high, low, m
<1>4. d \in Nat /\ d < 2 * m
  <2> DEFINE mm == 2 * m
  <2>1. mm \in Nat \ {0}
    BY <1>1
  <2> HIDE DEF mm
  <2>2. delta % mm \in Nat /\ delta % mm < mm
    BY <2>1
  <2> QED  BY <2>2 DEF mm
<1> HIDE DEF d
<1>5. FitsField(d, high, low)
  BY <1>1, <1>4 DEF FitsField
<1>6. \A j \in Shl(d, low) : j \in Bit /\ j \in low .. high
  BY <1>5, Placed
<1>7. AgreeOn(v, Shl(d, low), high, low)
  BY <1>2 DEF AgreeOn
<1>8. Field(v, high, low) = d
  BY <1>5, <1>7, ReadBack
<1>9. Signed(v, high, low) = delta
  <2>1. high \in Nat /\ m \in Nat /\ delta \in -m .. m - 1
    BY <1>1, <1>3
  <2> QED  BY <1>1, <1>8, <2>1, SignedIs DEF d
<1>10. v \subseteq Bit /\ \A j \in Bit : j \notin low .. high => (j \in v <=> j \in w)
  BY <1>2, <1>6
<1> QED  BY <1>8, <1>9, <1>10 DEF d, v, high, low, m

-----------------------------------------------------------------------------
(* A branch as it is written, and as it is patched *)

(* The listing line of a branch. *)
BranchText(w, kind, l) ==
    IF kind = "imm26" THEN [op |-> IF 31 \in w THEN "bl" ELSE "b", to |-> l]
    ELSE IF 31 \in w
    THEN [op |-> IF 24 \in w THEN "cbnz" ELSE "cbz", rt |-> Field(w, 4, 0), to |-> l]
    ELSE [op |-> "b_cond", cond |-> Field(w, 3, 0), to |-> l]

(* A branch that has no displacement yet. *)
NewBranch(w, kind, l, text) ==
    /\ w \subseteq Bit
    /\ OfKind(w, kind)
    /\ Field(w, DispHigh(kind), DispLow(kind)) = 0
    /\ text = BranchText(w, kind, l)

(* Zero has no bits, and a field of none is 0. *)
LEMMA NoBits == \A j : j \notin Bits(0)
BY Powers DEF Bits

LEMMA EmptyField ==
    ASSUME NEW w, NEW kind, kind = "imm26" \/ kind = "imm19",
           \A j \in DispLow(kind) .. DispHigh(kind) : j \notin w
    PROVE  Field(w, DispHigh(kind), DispLow(kind)) = 0
<1> DEFINE high == DispHigh(kind)
           low == DispLow(kind)
<1>1. /\ high \in Nat /\ low \in 0 .. high /\ high - low <= 29 /\ 0 < TwoTo[high + 1 - low]
      /\ \A j \in 0 .. high - low : low + j \in low .. high
  <2>1. TwoTo[25 + 1 - 0] > 0 /\ TwoTo[23 + 1 - 5] > 0
    BY Powers
  <2> QED  BY <2>1 DEF DispHigh, DispLow
<1> HIDE DEF high, low
<1>2. \A j \in 0 .. high - low : j \in Bits(0) <=> low + j \in w
  BY <1>1, NoBits DEF high, low
<1>3. Field(w, high, low) = 0
  BY <1>1, <1>2, FieldIs
<1> QED  BY <1>3 DEF high, low

(* The words the branch operations write, each of its kind and with no displacement. *)
LEMMA BWords ==
    ASSUME NEW l
    PROVE  /\ NewBranch(Word(\h1400, \h0000), "imm26", l, G!b(l))
           /\ NewBranch(Word(\h9400, \h0000), "imm26", l, G!bl(l))
<1>1. ASSUME NEW w, w = {28, 26} PROVE NewBranch(w, "imm26", l, G!b(l))
  <2>1. OfKind(w, "imm26") /\ w \subseteq Bit /\ 31 \notin w
    BY <1>1 DEF OfKind, Imm26Word, Bit
  <2>2. Field(w, DispHigh("imm26"), DispLow("imm26")) = 0
    <3>1. \A j \in DispLow("imm26") .. DispHigh("imm26") : j \notin w
      BY <1>1 DEF DispLow, DispHigh
    <3> QED  BY <3>1, EmptyField
  <2>3. BranchText(w, "imm26", l) = [op |-> "b", to |-> l]
    BY <2>1 DEF BranchText
  <2> QED  BY <2>1, <2>2, <2>3 DEF NewBranch, G!b
<1>2. ASSUME NEW w, w = {31, 28, 26} PROVE NewBranch(w, "imm26", l, G!bl(l))
  <2>1. OfKind(w, "imm26") /\ w \subseteq Bit /\ 31 \in w
    BY <1>2 DEF OfKind, Imm26Word, Bit
  <2>2. Field(w, DispHigh("imm26"), DispLow("imm26")) = 0
    <3>1. \A j \in DispLow("imm26") .. DispHigh("imm26") : j \notin w
      BY <1>2 DEF DispLow, DispHigh
    <3> QED  BY <3>1, EmptyField
  <2>3. BranchText(w, "imm26", l) = [op |-> "bl", to |-> l]
    BY <2>1 DEF BranchText
  <2> QED  BY <2>1, <2>2, <2>3 DEF NewBranch, G!bl
<1>3. Word(\h1400, \h0000) = {28, 26} /\ Word(\h9400, \h0000) = {31, 28, 26}
  BY BaseWords
<1> QED  BY <1>1, <1>2, <1>3

LEMMA CbWords ==
    ASSUME NEW rt \in Bit, NEW l
    PROVE  /\ NewBranch(Word(\hB400, \h0000) \cup Shl(rt, 0), "imm19", l, G!cbz(rt, l))
           /\ NewBranch(Word(\hB500, \h0000) \cup Shl(rt, 0), "imm19", l, G!cbnz(rt, l))
<1>1. FitsField(rt, 4, 0)
  BY RegFits
<1>2. \A j \in Shl(rt, 0) : j \in Bit /\ j \in 0 .. 4
  BY <1>1, Placed
<1>3. ASSUME NEW opcode, \A j \in opcode : j \in Bit /\ j \notin 0 .. 23, CbWord(opcode)
      PROVE  NewBranch(opcode \cup Shl(rt, 0), "imm19", l,
                       [op |-> IF 24 \in opcode THEN "cbnz" ELSE "cbz", rt |-> rt, to |-> l])
  <2> DEFINE w == opcode \cup Shl(rt, 0)
  <2>1. \A j : j \in w <=> j \in opcode \/ j \in Shl(rt, 0)
    OBVIOUS
  <2> HIDE DEF w
  <2>2. w \subseteq Bit
    BY <1>2, <1>3, <2>1
  <2>3. \A j \in 5 .. 31 : j \in w <=> j \in opcode
    BY <1>2, <2>1
  <2>4. AgreeOn(w, Shl(rt, 0), 4, 0)
    BY <1>3, <2>1 DEF AgreeOn
  <2>5. Field(w, 4, 0) = rt
    BY <1>1, <2>4, ReadBack
  <2>6. CbWord(w) /\ OfKind(w, "imm19")
    BY <1>3, <2>3 DEF CbWord, OfKind
  <2>7. Field(w, DispHigh("imm19"), DispLow("imm19")) = 0
    <3>1. \A j \in 5 .. 23 : j \notin w
      BY <1>3, <2>3
    <3> QED  BY <3>1, EmptyField DEF DispLow, DispHigh
  <2>8. BranchText(w, "imm19", l) =
          [op |-> IF 24 \in opcode THEN "cbnz" ELSE "cbz", rt |-> rt, to |-> l]
    <3>1. 31 \in w /\ (24 \in w <=> 24 \in opcode)
      BY <1>3, <2>3 DEF CbWord
    <3> QED  BY <2>5, <3>1 DEF BranchText
  <2> QED  BY <2>2, <2>6, <2>7, <2>8 DEF NewBranch, w
<1>4. NewBranch(Word(\hB400, \h0000) \cup Shl(rt, 0), "imm19", l, G!cbz(rt, l))
  <2>1. ASSUME NEW z, z = {31, 29, 28, 26}
        PROVE  NewBranch(z \cup Shl(rt, 0), "imm19", l, [op |-> "cbz", rt |-> rt, to |-> l])
    <3>1. (\A j \in z : j \in Bit /\ j \notin 0 .. 23) /\ CbWord(z) /\ 24 \notin z
      BY <2>1 DEF Bit, CbWord
    <3>2. NewBranch(z \cup Shl(rt, 0), "imm19", l,
                    [op |-> IF 24 \in z THEN "cbnz" ELSE "cbz", rt |-> rt, to |-> l])
      BY <1>3, <3>1
    <3> QED  BY <3>1, <3>2
  <2>2. Word(\hB400, \h0000) = {31, 29, 28, 26}
    BY BaseWords
  <2> QED  BY <2>1, <2>2 DEF G!cbz
<1>5. NewBranch(Word(\hB500, \h0000) \cup Shl(rt, 0), "imm19", l, G!cbnz(rt, l))
  <2>1. ASSUME NEW z, z = {31, 29, 28, 26, 24}
        PROVE  NewBranch(z \cup Shl(rt, 0), "imm19", l, [op |-> "cbnz", rt |-> rt, to |-> l])
    <3>1. (\A j \in z : j \in Bit /\ j \notin 0 .. 23) /\ CbWord(z) /\ 24 \in z
      BY <2>1 DEF Bit, CbWord
    <3>2. NewBranch(z \cup Shl(rt, 0), "imm19", l,
                    [op |-> IF 24 \in z THEN "cbnz" ELSE "cbz", rt |-> rt, to |-> l])
      BY <1>3, <3>1
    <3> QED  BY <3>1, <3>2
  <2>2. Word(\hB500, \h0000) = {31, 29, 28, 26, 24}
    BY BaseWords
  <2> QED  BY <2>1, <2>2 DEF G!cbnz
<1> QED  BY <1>4, <1>5

LEMMA BCondWords ==
    ASSUME NEW cond \in Nat, cond <= 15, NEW l
    PROVE  NewBranch(Word(\h5400, \h0000) \cup Shl(cond, 0), "imm19", l, b_cond_record(cond, l))
<1> DEFINE opcode == {30, 28, 26}
           w == opcode \cup Shl(cond, 0)
<1>1. FitsField(cond, 3, 0)
  BY Powers DEF FitsField
<1>2. \A j \in Shl(cond, 0) : j \in Bit /\ j \in 0 .. 3
  BY <1>1, Placed
<1>3. \A j : j \in w <=> j \in opcode \/ j \in Shl(cond, 0)
  OBVIOUS
<1>4. \A j \in opcode : j \in Bit /\ j \notin 0 .. 23
  BY DEF Bit
<1>5. Word(\h5400, \h0000) = opcode
  BY BaseWords
<1> HIDE DEF opcode, w
<1>6. w \subseteq Bit
  BY <1>2, <1>3, <1>4
<1>7. \A j \in 4 .. 31 : j \in w <=> j \in opcode
  BY <1>2, <1>3
<1>8. AgreeOn(w, Shl(cond, 0), 3, 0)
  BY <1>3, <1>4 DEF AgreeOn
<1>9. Field(w, 3, 0) = cond
  BY <1>1, <1>8, ReadBack
<1>10. CondWord(w) /\ OfKind(w, "imm19") /\ 31 \notin w
  BY <1>7 DEF CondWord, OfKind, opcode
<1>11. Field(w, DispHigh("imm19"), DispLow("imm19")) = 0
  <2>1. \A j \in 5 .. 23 : j \notin w
    BY <1>4, <1>7
  <2> QED  BY <2>1, EmptyField DEF DispLow, DispHigh
<1>12. BranchText(w, "imm19", l) = [op |-> "b_cond", cond |-> cond, to |-> l]
  BY <1>9, <1>10 DEF BranchText
<1> QED  BY <1>5, <1>6, <1>10, <1>11, <1>12 DEF NewBranch, w, b_cond_record

(* Patching a branch changes where it goes and nothing else. *)
LEMMA PatchedReads ==
    ASSUME NEW w, w \subseteq Bit, NEW kind, OfKind(w, kind), NEW l,
           NEW delta \in Int, Fits(delta, kind)
    PROVE  LET v == Patched(w, delta, kind)
           IN  /\ v \subseteq Bit
               /\ OfKind(v, kind)
               /\ BranchText(v, kind, l) = BranchText(w, kind, l)
               /\ Field(v, DispHigh(kind), DispLow(kind)) = delta % (2 * Reach(kind))
<1> DEFINE v == Patched(w, delta, kind)
<1>1. kind = "imm26" \/ kind = "imm19"
  BY DEF OfKind
<1>2. /\ v \subseteq Bit
      /\ \A j \in Bit : j \notin DispLow(kind) .. DispHigh(kind) => (j \in v <=> j \in w)
      /\ Field(v, DispHigh(kind), DispLow(kind)) = delta % (2 * Reach(kind))
  BY <1>1, PatchedBits
<1> HIDE DEF v
<1>3. CASE kind = "imm26"
  <2>1. \A j \in 26 .. 31 : j \in v <=> j \in w
    BY <1>2, <1>3 DEF DispLow, DispHigh, Bit
  <2>2. OfKind(v, kind)
    BY <1>3, <2>1 DEF OfKind, Imm26Word
  <2>3. BranchText(v, kind, l) = BranchText(w, kind, l)
    BY <1>3, <2>1 DEF BranchText
  <2> QED  BY <1>2, <2>2, <2>3 DEF v
<1>4. CASE kind = "imm19"
  <2>1. \A j \in (0 .. 4) \cup (24 .. 31) : j \in v <=> j \in w
    BY <1>2, <1>4 DEF DispLow, DispHigh, Bit
  <2>2. OfKind(v, kind)
    BY <1>4, <2>1 DEF OfKind, CondWord, CbWord
  <2>3. Field(v, 4, 0) = Field(w, 4, 0) /\ Field(v, 3, 0) = Field(w, 3, 0)
    <3>1. AgreeOn(v, w, 4, 0) /\ AgreeOn(v, w, 3, 0)
      BY <2>1 DEF AgreeOn
    <3> QED  BY <3>1, SameField
  <2>4. (31 \in v <=> 31 \in w) /\ (24 \in v <=> 24 \in w)
    BY <2>1
  <2>5. BranchText(v, kind, l) = BranchText(w, kind, l)
    BY <2>3, <2>4 DEF BranchText
  <2> QED  BY <1>2, <2>2, <2>5 DEF v
<1> QED  BY <1>1, <1>3, <1>4

(* An instruction that is the one of a line but for its target. *)
ReadsAs(i, text) ==
    /\ DOMAIN i = ((DOMAIN text) \ {"to"}) \cup {"by"}
    /\ \A x \in (DOMAIN text) \ {"to"} : i[x] = text[x]

(* A branch is the instruction its line names, going where its field says. *)
LEMMA BranchReads ==
    ASSUME NEW w, NEW kind, OfKind(w, kind), NEW l, NEW text, text = BranchText(w, kind, l)
    PROVE  /\ "to" \in DOMAIN text /\ text.to = l
           /\ ReadsAs(Decode(w), text)
           /\ Decode(w).by = Signed(w, DispHigh(kind), DispLow(kind))
<1> DEFINE by == Signed(w, DispHigh(kind), DispLow(kind))
           op26 == IF 31 \in w THEN "bl" ELSE "b"
           op19 == IF 24 \in w THEN "cbnz" ELSE "cbz"
           rt == Field(w, 4, 0)
           cond == Field(w, 3, 0)
<1>1. /\ kind = "imm26" => Decode(w) = [op |-> op26, by |-> by]
      /\ kind # "imm26" /\ 31 \in w => Decode(w) = [op |-> op19, rt |-> rt, by |-> by]
      /\ kind # "imm26" /\ 31 \notin w => Decode(w) = [op |-> "b_cond", cond |-> cond, by |-> by]
  BY DecodesAsBranch
<1>2. /\ kind = "imm26" => text = [op |-> op26, to |-> l]
      /\ kind # "imm26" /\ 31 \in w => text = [op |-> op19, rt |-> rt, to |-> l]
      /\ kind # "imm26" /\ 31 \notin w => text = [op |-> "b_cond", cond |-> cond, to |-> l]
  BY DEF BranchText
<1> HIDE DEF by, op26, op19, rt, cond
<1>3. CASE kind = "imm26"
  BY <1>1, <1>2, <1>3 DEF by, ReadsAs
<1>4. CASE kind # "imm26" /\ 31 \in w
  BY <1>1, <1>2, <1>4 DEF by, ReadsAs
<1>5. CASE kind # "imm26" /\ 31 \notin w
  BY <1>1, <1>2, <1>5 DEF by, ReadsAs
<1> QED  BY <1>3, <1>4, <1>5

-----------------------------------------------------------------------------
(* Displacements and bytes *)

(* The processor's reading of a displacement is that of the emitter's model. *)
LEMMA SignedDisplacement ==
    ASSUME NEW w, NEW kind, kind = "imm26" \/ kind = "imm19"
    PROVE  LET field == Field(w, DispHigh(kind), DispLow(kind))
           IN  /\ field \in Nat
               /\ Signed(w, DispHigh(kind), DispLow(kind)) =
                    IF field < Reach(kind) THEN field ELSE field - 2 * Reach(kind)
<1> DEFINE high == DispHigh(kind)
           low == DispLow(kind)
           m == Reach(kind)
           below == Field(w, high - 1, low)
<1>1. /\ high \in Nat /\ low \in Nat /\ low < high /\ high - low <= 29
      /\ high - 1 \in Nat /\ low \in 0 .. high - 1 /\ (high - 1) - low <= 29
      /\ m = TwoTo[high - low] /\ m = TwoTo[(high - 1) + 1 - low] /\ m \in Nat
  BY PowerFacts DEF DispHigh, DispLow, Reach
<1> HIDE DEF high, low, m
<1>2. below \in Nat /\ below < m
  <2>1. below \in Nat /\ below < TwoTo[(high - 1) + 1 - low]
    BY <1>1, FieldBits
  <2> QED  BY <1>1, <2>1
<1>3. Field(w, high, low) = below + BitOf(w, high) * m
  BY <1>1, FieldTop
<1>4. Signed(w, high, low) = below - (IF high \in w THEN m ELSE 0)
  BY <1>1 DEF Signed
<1> HIDE DEF below
<1>5. CASE high \in w
  <2>1. BitOf(w, high) = 1
    BY <1>5 DEF BitOf
  <2>2. Field(w, high, low) = below + m
    BY <1>1, <1>2, <1>3, <2>1
  <2>3. Signed(w, high, low) = below - m
    BY <1>4, <1>5
  <2> QED  BY <1>1, <1>2, <2>2, <2>3 DEF high, low, m
<1>6. CASE high \notin w
  <2>1. BitOf(w, high) = 0
    BY <1>6 DEF BitOf
  <2>2. Field(w, high, low) = below
    BY <1>1, <1>2, <1>3, <2>1
  <2>3. Signed(w, high, low) = below
    BY <1>2, <1>4, <1>6
  <2> QED  BY <1>1, <1>2, <2>2, <2>3 DEF high, low, m
<1> QED  BY <1>5, <1>6

(* A byte put back where it was taken from. *)
LEMMA ByteBack ==
    ASSUME NEW w, w \subseteq Bit, NEW low \in Nat, low <= 24
    PROVE  Shl(Field(w, low + 7, low), low) = {j \in w : j \in low .. low + 7}
<1> DEFINE high == low + 7
           byte == Field(w, high, low)
<1>1. /\ high \in 0 .. 31 /\ high \in Nat /\ low \in 0 .. high /\ high - low <= 29
      /\ TwoTo[high + 1 - low] = TwoTo[8]
      /\ \A j \in low .. high : j - low \in 0 .. high - low /\ low + (j - low) = j
  OBVIOUS
<1>2. /\ byte \in Nat /\ byte < TwoTo[high + 1 - low]
      /\ \A j \in 0 .. high - low : j \in Bits(byte) <=> low + j \in w
  BY <1>1, FieldBits
<1> HIDE DEF byte
<1>3. FitsField(byte, high, low)
  BY <1>1, <1>2 DEF FitsField
<1>4. \A j \in Shl(byte, low) : j \in Bit /\ j \in low .. high
  BY <1>3, Placed
<1>5. \A j \in Bit : j \in low .. high => (j \in Shl(byte, low) <=> j \in w)
  <2> TAKE j \in Bit
  <2> HAVE j \in low .. high
  <2>1. j \in Shl(byte, low) <=> j - low \in Bits(byte)
    BY InShl
  <2>2. j - low \in Bits(byte) <=> j \in w
    BY <1>1, <1>2
  <2> QED  BY <2>1, <2>2
<1>6. \A j : j \in Shl(byte, low) <=> j \in w /\ j \in low .. high
  BY <1>4, <1>5
<1> QED  BY <1>6 DEF byte

(* The bytes that finalize hands out. *)
BytesAre(bs, ws) ==
    bs = [n \in 1 .. 4 * Len(ws) |-> BytesOf(ws[(n - 1) \div 4 + 1])[((n - 1) % 4) + 1]]

(* The bytes the code writes of a word are the bytes the processor reads as that word. *)
LEMMA BytesOfWord ==
    ASSUME NEW bs, NEW ws, Len(ws) \in Nat, BytesAre(bs, ws),
           NEW p \in 1 .. Len(ws), NEW i \in 1 .. 4
    PROVE  bs[4 * (p - 1) + i] = Field(ws[p], 8 * (i - 1) + 7, 8 * (i - 1))
<1> DEFINE n == 4 * (p - 1) + i
<1>1. n \in 1 .. 4 * Len(ws) /\ n - 1 = 4 * (p - 1) + (i - 1)
      /\ p - 1 \in Int /\ i - 1 \in Int /\ 0 <= i - 1 /\ i - 1 < 4 /\ n - 1 \in Int
  OBVIOUS
<1>2. (n - 1) \div 4 = p - 1
  BY <1>1, QuotientIs
<1>3. (n - 1) % 4 = i - 1
  BY <1>1, RemainderIs
<1>4. bs[n] = BytesOf(ws[(n - 1) \div 4 + 1])[((n - 1) % 4) + 1]
  BY <1>1 DEF BytesAre
<1> HIDE DEF n
<1>5. bs[n] = BytesOf(ws[p])[i]
  <2>1. (n - 1) \div 4 + 1 = p /\ ((n - 1) % 4) + 1 = i
    BY <1>2, <1>3
  <2> QED  BY <1>4, <2>1
<1>6. BytesOf(ws[p])[i] = Field(ws[p], 8 * (i - 1) + 7, 8 * (i - 1))
  BY DEF BytesOf
<1> QED  BY <1>5, <1>6 DEF n

(* A word read from its bytes is the word. *)
LEMMA FetchedIs ==
    ASSUME Len(code) \in Nat, BytesAre(bytes, code),
           NEW p \in 1 .. Len(code), code[p] \subseteq Bit
    PROVE  Fetched(p) = code[p]
<1> DEFINE w == code[p]
           Part(i) == Shl(bytes[4 * (p - 1) + i], 8 * (i - 1))
<1>1. ASSUME NEW i \in 1 .. 4
      PROVE  Part(i) = {j \in w : j \in 8 * (i - 1) .. 8 * (i - 1) + 7}
  <2>1. bytes[4 * (p - 1) + i] = Field(w, 8 * (i - 1) + 7, 8 * (i - 1))
    BY BytesOfWord
  <2>2. 8 * (i - 1) \in Nat /\ 8 * (i - 1) <= 24
    OBVIOUS
  <2> QED  BY <2>1, <2>2, ByteBack
<1>2. \A j \in w : \E i \in 1 .. 4 : j \in 8 * (i - 1) .. 8 * (i - 1) + 7
  <2> TAKE j \in w
  <2>1. j \in 0 .. 31
    BY DEF Bit
  <2>2. \/ j \in 8 * (1 - 1) .. 8 * (1 - 1) + 7 \/ j \in 8 * (2 - 1) .. 8 * (2 - 1) + 7
        \/ j \in 8 * (3 - 1) .. 8 * (3 - 1) + 7 \/ j \in 8 * (4 - 1) .. 8 * (4 - 1) + 7
    BY <2>1
  <2> QED  BY <2>2
<1>3. Fetched(p) = UNION {Part(i) : i \in 1 .. 4}
  BY DEF Fetched
<1> HIDE DEF Part
<1> QED  BY <1>1, <1>2, <1>3

-----------------------------------------------------------------------------
(* An operation without a label lists the instruction it writes *)

(* The instructions with a label, as the processor names them. *)
BranchOps == {"b", "bl", "b_cond", "cbz", "cbnz"}

(* A line that names an instruction without a label, and its word. *)
PlainLine(w, text) == Encodes(w, text) /\ "to" \notin DOMAIN text /\ text.op \notin BranchOps

(* What an operation without a label does, whichever it is. *)
PlainStep ==
    /\ Open
    /\ \/ Abort
       \/ \E word, text :
             /\ PlainLine(word, text)
             /\ emit(word, text)
             /\ UNCHANGED <<labelPos, fixups, status, next, bytes>>

(* One lemma for each operation: its step writes a word that decodes to its line. *)
LEMMA MovzIsPlain ==
    ASSUME NEW rd \in Regs, NEW imm16 \in Imm16, NEW hw \in Halves, movz(rd, imm16, hw)
    PROVE  PlainStep
<1> DEFINE word == Word(\hD280, \h0000) \cup Shl(hw, 21) \cup Shl(imm16, 5) \cup Shl(rd, 0)
           text == G!movz(rd, imm16, hw)
<1>1. ASSUME check_reg({rd}) /\ hw \in 0 .. 3 PROVE PlainLine(word, text)
  <2>1. rd \in Bit /\ imm16 \in Nat /\ imm16 <= 65535
    BY <1>1, OperandsHaveTypes DEF check_reg
  <2>2. word = MoveWideWord(Word(\hD280, \h0000), rd, imm16, hw)
    BY DEF MoveWideWord
  <2>3. hw \in Nat /\ hw <= 3
    BY <1>1
  <2>4. Encodes(MoveWideWord(Word(\hD280, \h0000), rd, imm16, hw), text)
    BY <2>1, <2>3, MovesEncode
  <2>5. "to" \notin DOMAIN text /\ text.op \notin BranchOps
    BY DEF BranchOps, G!movz
  <2> QED  BY <2>2, <2>4, <2>5 DEF PlainLine
<1>2. Plain(check_reg({rd}) /\ hw \in 0 .. 3, word, text)
  BY DEF movz
<1> HIDE DEF word, text
<1> QED  BY <1>1, <1>2 DEF Plain, PlainStep

LEMMA MovkIsPlain ==
    ASSUME NEW rd \in Regs, NEW imm16 \in Imm16, NEW hw \in Halves, movk(rd, imm16, hw)
    PROVE  PlainStep
<1> DEFINE word == Word(\hF280, \h0000) \cup Shl(hw, 21) \cup Shl(imm16, 5) \cup Shl(rd, 0)
           text == G!movk(rd, imm16, hw)
<1>1. ASSUME check_reg({rd}) /\ hw \in 0 .. 3 PROVE PlainLine(word, text)
  <2>1. rd \in Bit /\ imm16 \in Nat /\ imm16 <= 65535
    BY <1>1, OperandsHaveTypes DEF check_reg
  <2>2. word = MoveWideWord(Word(\hF280, \h0000), rd, imm16, hw)
    BY DEF MoveWideWord
  <2>3. hw \in Nat /\ hw <= 3
    BY <1>1
  <2>4. Encodes(MoveWideWord(Word(\hF280, \h0000), rd, imm16, hw), text)
    BY <2>1, <2>3, MovesEncode
  <2>5. "to" \notin DOMAIN text /\ text.op \notin BranchOps
    BY DEF BranchOps, G!movk
  <2> QED  BY <2>2, <2>4, <2>5 DEF PlainLine
<1>2. Plain(check_reg({rd}) /\ hw \in 0 .. 3, word, text)
  BY DEF movk
<1> HIDE DEF word, text
<1> QED  BY <1>1, <1>2 DEF Plain, PlainStep

LEMMA MovRegIsPlain ==
    ASSUME NEW rd \in Regs, NEW rm \in Regs, mov_reg(rd, rm)
    PROVE  PlainStep
<1> DEFINE word == Word(\hAA00, \h0000) \cup Shl(rm, 16) \cup Shl(31, 5) \cup Shl(rd, 0)
           text == mov_record(rd, rm)
<1>1. ASSUME check_reg({rd, rm}) PROVE PlainLine(word, text)
  <2>1. rd \in Bit /\ rm \in Bit /\ 31 \in Bit
    BY <1>1 DEF check_reg, Bit
  <2>2. word = ThreeRegs(Word(\hAA00, \h0000), rd, 31, rm)
    BY DEF ThreeRegs
  <2>3. Encodes(word, text)
    BY <2>1, <2>2, OrrEncodes DEF G!XZR, mov_record
  <2>4. "to" \notin DOMAIN text /\ text.op \notin BranchOps
    BY DEF BranchOps, mov_record
  <2> QED  BY <2>3, <2>4 DEF PlainLine
<1>2. Plain(check_reg({rd, rm}), word, text)
  BY DEF mov_reg
<1> HIDE DEF word, text
<1> QED  BY <1>1, <1>2 DEF Plain, PlainStep

LEMMA NegIsPlain ==
    ASSUME NEW rd \in Regs, NEW rm \in Regs, neg(rd, rm)
    PROVE  PlainStep
<1> DEFINE word == Word(\hCB00, \h0000) \cup Shl(rm, 16) \cup Shl(31, 5) \cup Shl(rd, 0)
           text == G!neg(rd, rm)
<1>1. ASSUME check_reg({rd, rm}) PROVE PlainLine(word, text)
  <2>1. rd \in Bit /\ rm \in Bit /\ 31 \in Bit
    BY <1>1 DEF check_reg, Bit
  <2>2. word = ThreeRegs(Word(\hCB00, \h0000), rd, 31, rm)
    BY DEF ThreeRegs
  <2>3. Encodes(word, text)
    BY <2>1, <2>2, SubEncodes DEF G!XZR, G!neg, G!sub_reg
  <2>4. "to" \notin DOMAIN text /\ text.op \notin BranchOps
    BY DEF BranchOps, G!neg, G!sub_reg
  <2> QED  BY <2>3, <2>4 DEF PlainLine
<1>2. Plain(check_reg({rd, rm}), word, text)
  BY DEF neg
<1> HIDE DEF word, text
<1> QED  BY <1>1, <1>2 DEF Plain, PlainStep

LEMMA CmpIsPlain ==
    ASSUME NEW rn \in Regs, NEW rm \in Regs, cmp(rn, rm)
    PROVE  PlainStep
<1> DEFINE word == Word(\hEB00, \h0000) \cup Shl(rm, 16) \cup Shl(rn, 5) \cup Shl(31, 0)
           text == G!cmp(rn, rm)
<1>1. ASSUME check_reg({rn, rm}) PROVE PlainLine(word, text)
  <2>1. rn \in Bit /\ rm \in Bit /\ 31 \in Bit
    BY <1>1 DEF check_reg, Bit
  <2>2. word = ThreeRegs(Word(\hEB00, \h0000), 31, rn, rm)
    BY DEF ThreeRegs
  <2>3. Encodes(word, text)
    BY <2>1, <2>2, SubsEncodes DEF G!XZR, G!cmp
  <2>4. "to" \notin DOMAIN text /\ text.op \notin BranchOps
    BY DEF BranchOps, G!cmp
  <2> QED  BY <2>3, <2>4 DEF PlainLine
<1>2. Plain(check_reg({rn, rm}), word, text)
  BY DEF cmp
<1> HIDE DEF word, text
<1> QED  BY <1>1, <1>2 DEF Plain, PlainStep

LEMMA AddRegIsPlain ==
    ASSUME NEW rd \in Regs, NEW rn \in Regs, NEW rm \in Regs, add_reg(rd, rn, rm)
    PROVE  PlainStep
<1> DEFINE word == ThreeRegs(Word(\h8B00, \h0000), rd, rn, rm)
           text == G!add_reg(rd, rn, rm)
<1>1. ASSUME check_reg({rd, rn, rm}) PROVE PlainLine(word, text)
  <2>1. rd \in Bit /\ rn \in Bit /\ rm \in Bit
    BY <1>1 DEF check_reg
  <2>2. Encodes(word, text)
    BY <2>1, AddEncodes
  <2>3. "to" \notin DOMAIN text /\ text.op \notin BranchOps
    BY DEF BranchOps, G!add_reg
  <2> QED  BY <2>2, <2>3 DEF PlainLine
<1>2. Plain(check_reg({rd, rn, rm}), word, text)
  BY DEF add_reg
<1> HIDE DEF word, text
<1> QED  BY <1>1, <1>2 DEF Plain, PlainStep

LEMMA SubRegIsPlain ==
    ASSUME NEW rd \in Regs, NEW rn \in Regs, NEW rm \in Regs, sub_reg(rd, rn, rm)
    PROVE  PlainStep
<1> DEFINE word == ThreeRegs(Word(\hCB00, \h0000), rd, rn, rm)
           text == G!sub_reg(rd, rn, rm)
<1>1. ASSUME check_reg({rd, rn, rm}) PROVE PlainLine(word, text)
  <2>1. rd \in Bit /\ rn \in Bit /\ rm \in Bit
    BY <1>1 DEF check_reg
  <2>2. Encodes(word, text)
    BY <2>1, SubEncodes
  <2>3. "to" \notin DOMAIN text /\ text.op \notin BranchOps
    BY DEF BranchOps, G!sub_reg
  <2> QED  BY <2>2, <2>3 DEF PlainLine
<1>2. Plain(check_reg({rd, rn, rm}), word, text)
  BY DEF sub_reg
<1> HIDE DEF word, text
<1> QED  BY <1>1, <1>2 DEF Plain, PlainStep

LEMMA MulIsPlain ==
    ASSUME NEW rd \in Regs, NEW rn \in Regs, NEW rm \in Regs, mul(rd, rn, rm)
    PROVE  PlainStep
<1> DEFINE word == ThreeRegs(Word(\h9B00, \h0000), rd, rn, rm) \cup Shl(31, 10)
           text == G!mul(rd, rn, rm)
<1>1. ASSUME check_reg({rd, rn, rm}) PROVE PlainLine(word, text)
  <2>1. rd \in Bit /\ rn \in Bit /\ rm \in Bit
    BY <1>1 DEF check_reg
  <2>2. Encodes(word, text)
    BY <2>1, MulEncodes
  <2>3. "to" \notin DOMAIN text /\ text.op \notin BranchOps
    BY DEF BranchOps, G!mul
  <2> QED  BY <2>2, <2>3 DEF PlainLine
<1>2. Plain(check_reg({rd, rn, rm}), word, text)
  BY DEF mul
<1> HIDE DEF word, text
<1> QED  BY <1>1, <1>2 DEF Plain, PlainStep

LEMMA SdivIsPlain ==
    ASSUME NEW rd \in Regs, NEW rn \in Regs, NEW rm \in Regs, sdiv(rd, rn, rm)
    PROVE  PlainStep
<1> DEFINE word == ThreeRegs(Word(\h9AC0, \h0C00), rd, rn, rm)
           text == G!sdiv(rd, rn, rm)
<1>1. ASSUME check_reg({rd, rn, rm}) PROVE PlainLine(word, text)
  <2>1. rd \in Bit /\ rn \in Bit /\ rm \in Bit
    BY <1>1 DEF check_reg
  <2>2. Encodes(word, text)
    BY <2>1, SdivEncodes
  <2>3. "to" \notin DOMAIN text /\ text.op \notin BranchOps
    BY DEF BranchOps, G!sdiv
  <2> QED  BY <2>2, <2>3 DEF PlainLine
<1>2. Plain(check_reg({rd, rn, rm}), word, text)
  BY DEF sdiv
<1> HIDE DEF word, text
<1> QED  BY <1>1, <1>2 DEF Plain, PlainStep

LEMMA MsubIsPlain ==
    ASSUME NEW rd \in Regs, NEW rn \in Regs, NEW rm \in Regs, NEW ra \in Regs, msub(rd, rn, rm, ra)
    PROVE  PlainStep
<1> DEFINE word == ThreeRegs(Word(\h9B00, \h8000), rd, rn, rm) \cup Shl(ra, 10)
           text == G!msub(rd, rn, rm, ra)
<1>1. ASSUME check_reg({rd, rn, rm, ra}) PROVE PlainLine(word, text)
  <2>1. rd \in Bit /\ rn \in Bit /\ rm \in Bit /\ ra \in Bit
    BY <1>1 DEF check_reg
  <2>2. Encodes(word, text)
    BY <2>1, MsubEncodes
  <2>3. "to" \notin DOMAIN text /\ text.op \notin BranchOps
    BY DEF BranchOps, G!msub
  <2> QED  BY <2>2, <2>3 DEF PlainLine
<1>2. Plain(check_reg({rd, rn, rm, ra}), word, text)
  BY DEF msub
<1> HIDE DEF word, text
<1> QED  BY <1>1, <1>2 DEF Plain, PlainStep

LEMMA CsetIsPlain ==
    ASSUME NEW rd \in Regs, NEW cond \in Conds, cset(rd, cond)
    PROVE  PlainStep
<1> DEFINE word == Word(\h9A80, \h0400) \cup Shl(31, 16)
                         \cup Shl(G!Inverted(cond), 12) \cup Shl(31, 5) \cup Shl(rd, 0)
           text == G!cset(rd, cond)
<1>1. ASSUME check_reg({rd}) PROVE PlainLine(word, text)
  <2>1. rd \in Bit /\ cond \in Nat /\ cond <= 15
    BY <1>1, OperandsHaveTypes DEF check_reg
  <2>2. Encodes(word, text)
    BY <2>1, CsetEncodes
  <2>3. "to" \notin DOMAIN text /\ text.op \notin BranchOps
    BY DEF BranchOps, G!cset
  <2> QED  BY <2>2, <2>3 DEF PlainLine
<1>2. Plain(check_reg({rd}), word, text)
  BY DEF cset
<1> HIDE DEF word, text
<1> QED  BY <1>1, <1>2 DEF Plain, PlainStep

LEMMA AddImmIsPlain ==
    ASSUME NEW rd \in Regs, NEW rn \in Regs, NEW imm \in Imm12, add_imm(rd, rn, imm)
    PROVE  PlainStep
<1> DEFINE word == Word(\h9100, \h0000) \cup Shl(imm, 10) \cup Shl(rn, 5) \cup Shl(rd, 0)
           text == G!add_imm(rd, rn, imm)
<1>1. ASSUME check_reg({rd, rn}) /\ imm12_ok(imm) PROVE PlainLine(word, text)
  <2>1. rd \in Bit /\ rn \in Bit /\ imm \in Nat
    BY <1>1, OperandsHaveTypes DEF check_reg
  <2>2. word = ImmediateWord(Word(\h9100, \h0000), rd, rn, imm)
    BY DEF ImmediateWord
  <2>3. imm <= 4095
    BY <1>1 DEF imm12_ok
  <2>4. Encodes(ImmediateWord(Word(\h9100, \h0000), rd, rn, imm), text)
    BY <2>1, <2>3, AddImmEncodes
  <2>5. "to" \notin DOMAIN text /\ text.op \notin BranchOps
    BY DEF BranchOps, G!add_imm
  <2> QED  BY <2>2, <2>4, <2>5 DEF PlainLine
<1>2. Plain(check_reg({rd, rn}) /\ imm12_ok(imm), word, text)
  BY DEF add_imm
<1> HIDE DEF word, text
<1> QED  BY <1>1, <1>2 DEF Plain, PlainStep

LEMMA SubImmIsPlain ==
    ASSUME NEW rd \in Regs, NEW rn \in Regs, NEW imm \in Imm12, sub_imm(rd, rn, imm)
    PROVE  PlainStep
<1> DEFINE word == Word(\hD100, \h0000) \cup Shl(imm, 10) \cup Shl(rn, 5) \cup Shl(rd, 0)
           text == G!sub_imm(rd, rn, imm)
<1>1. ASSUME check_reg({rd, rn}) /\ imm12_ok(imm) PROVE PlainLine(word, text)
  <2>1. rd \in Bit /\ rn \in Bit /\ imm \in Nat
    BY <1>1, OperandsHaveTypes DEF check_reg
  <2>2. word = ImmediateWord(Word(\hD100, \h0000), rd, rn, imm)
    BY DEF ImmediateWord
  <2>3. imm <= 4095
    BY <1>1 DEF imm12_ok
  <2>4. Encodes(ImmediateWord(Word(\hD100, \h0000), rd, rn, imm), text)
    BY <2>1, <2>3, SubImmEncodes
  <2>5. "to" \notin DOMAIN text /\ text.op \notin BranchOps
    BY DEF BranchOps, G!sub_imm
  <2> QED  BY <2>2, <2>4, <2>5 DEF PlainLine
<1>2. Plain(check_reg({rd, rn}) /\ imm12_ok(imm), word, text)
  BY DEF sub_imm
<1> HIDE DEF word, text
<1> QED  BY <1>1, <1>2 DEF Plain, PlainStep

LEMMA StrPreIsPlain ==
    ASSUME NEW rt \in Regs, NEW rn \in Regs, NEW imm \in Imm9, str_pre(rt, rn, imm)
    PROVE  PlainStep
<1> DEFINE word == OneReg(Word(\hF800, \h0C00), rt, rn, imm)
           text == G!str_pre(rt, rn, imm)
<1>1. ASSUME check_reg({rt, rn}) /\ imm9_ok(imm) PROVE PlainLine(word, text)
  <2>1. rt \in Bit /\ rn \in Bit /\ imm \in Int
    BY <1>1, OperandsHaveTypes DEF check_reg
  <2>2. Encodes(word, text)
    BY <2>1, <1>1, StrPreEncodes
  <2>3. "to" \notin DOMAIN text /\ text.op \notin BranchOps
    BY DEF BranchOps, G!str_pre
  <2> QED  BY <2>2, <2>3 DEF PlainLine
<1>2. Plain(check_reg({rt, rn}) /\ imm9_ok(imm), word, text)
  BY DEF str_pre
<1> HIDE DEF word, text
<1> QED  BY <1>1, <1>2 DEF Plain, PlainStep

LEMMA LdrPostIsPlain ==
    ASSUME NEW rt \in Regs, NEW rn \in Regs, NEW imm \in Imm9, ldr_post(rt, rn, imm)
    PROVE  PlainStep
<1> DEFINE word == OneReg(Word(\hF840, \h0400), rt, rn, imm)
           text == G!ldr_post(rt, rn, imm)
<1>1. ASSUME check_reg({rt, rn}) /\ imm9_ok(imm) PROVE PlainLine(word, text)
  <2>1. rt \in Bit /\ rn \in Bit /\ imm \in Int
    BY <1>1, OperandsHaveTypes DEF check_reg
  <2>2. Encodes(word, text)
    BY <2>1, <1>1, LdrPostEncodes
  <2>3. "to" \notin DOMAIN text /\ text.op \notin BranchOps
    BY DEF BranchOps, G!ldr_post
  <2> QED  BY <2>2, <2>3 DEF PlainLine
<1>2. Plain(check_reg({rt, rn}) /\ imm9_ok(imm), word, text)
  BY DEF ldr_post
<1> HIDE DEF word, text
<1> QED  BY <1>1, <1>2 DEF Plain, PlainStep

LEMMA SturIsPlain ==
    ASSUME NEW rt \in Regs, NEW rn \in Regs, NEW imm \in Imm9, stur(rt, rn, imm)
    PROVE  PlainStep
<1> DEFINE word == OneReg(Word(\hF800, \h0000), rt, rn, imm)
           text == G!stur(rt, rn, imm)
<1>1. ASSUME check_reg({rt, rn}) /\ imm9_ok(imm) PROVE PlainLine(word, text)
  <2>1. rt \in Bit /\ rn \in Bit /\ imm \in Int
    BY <1>1, OperandsHaveTypes DEF check_reg
  <2>2. Encodes(word, text)
    BY <2>1, <1>1, SturEncodes
  <2>3. "to" \notin DOMAIN text /\ text.op \notin BranchOps
    BY DEF BranchOps, G!stur
  <2> QED  BY <2>2, <2>3 DEF PlainLine
<1>2. Plain(check_reg({rt, rn}) /\ imm9_ok(imm), word, text)
  BY DEF stur
<1> HIDE DEF word, text
<1> QED  BY <1>1, <1>2 DEF Plain, PlainStep

LEMMA LdurIsPlain ==
    ASSUME NEW rt \in Regs, NEW rn \in Regs, NEW imm \in Imm9, ldur(rt, rn, imm)
    PROVE  PlainStep
<1> DEFINE word == OneReg(Word(\hF840, \h0000), rt, rn, imm)
           text == G!ldur(rt, rn, imm)
<1>1. ASSUME check_reg({rt, rn}) /\ imm9_ok(imm) PROVE PlainLine(word, text)
  <2>1. rt \in Bit /\ rn \in Bit /\ imm \in Int
    BY <1>1, OperandsHaveTypes DEF check_reg
  <2>2. Encodes(word, text)
    BY <2>1, <1>1, LdurEncodes
  <2>3. "to" \notin DOMAIN text /\ text.op \notin BranchOps
    BY DEF BranchOps, G!ldur
  <2> QED  BY <2>2, <2>3 DEF PlainLine
<1>2. Plain(check_reg({rt, rn}) /\ imm9_ok(imm), word, text)
  BY DEF ldur
<1> HIDE DEF word, text
<1> QED  BY <1>1, <1>2 DEF Plain, PlainStep

LEMMA StpPreIsPlain ==
    ASSUME NEW rt \in Regs, NEW rt2 \in Regs, NEW rn \in Regs, NEW imm \in Imm7,
            stp_pre(rt, rt2, rn, imm)
    PROVE  PlainStep
<1> DEFINE word == TwoRegs(Word(\hA980, \h0000), rt, rt2, rn, imm)
           text == G!stp_pre(rt, rt2, rn, imm)
<1>1. ASSUME check_reg({rt, rt2, rn}) /\ imm7_ok(imm) PROVE PlainLine(word, text)
  <2>1. rt \in Bit /\ rt2 \in Bit /\ rn \in Bit /\ imm \in Int
    BY <1>1, OperandsHaveTypes DEF check_reg
  <2>2. Encodes(word, text)
    BY <2>1, <1>1, StpPreEncodes
  <2>3. "to" \notin DOMAIN text /\ text.op \notin BranchOps
    BY DEF BranchOps, G!stp_pre
  <2> QED  BY <2>2, <2>3 DEF PlainLine
<1>2. Plain(check_reg({rt, rt2, rn}) /\ imm7_ok(imm), word, text)
  BY DEF stp_pre
<1> HIDE DEF word, text
<1> QED  BY <1>1, <1>2 DEF Plain, PlainStep

LEMMA LdpPostIsPlain ==
    ASSUME NEW rt \in Regs, NEW rt2 \in Regs, NEW rn \in Regs, NEW imm \in Imm7,
            ldp_post(rt, rt2, rn, imm)
    PROVE  PlainStep
<1> DEFINE word == TwoRegs(Word(\hA8C0, \h0000), rt, rt2, rn, imm)
           text == G!ldp_post(rt, rt2, rn, imm)
<1>1. ASSUME check_reg({rt, rt2, rn}) /\ imm7_ok(imm) PROVE PlainLine(word, text)
  <2>1. rt \in Bit /\ rt2 \in Bit /\ rn \in Bit /\ imm \in Int
    BY <1>1, OperandsHaveTypes DEF check_reg
  <2>2. Encodes(word, text)
    BY <2>1, <1>1, LdpPostEncodes
  <2>3. "to" \notin DOMAIN text /\ text.op \notin BranchOps
    BY DEF BranchOps, G!ldp_post
  <2> QED  BY <2>2, <2>3 DEF PlainLine
<1>2. Plain(check_reg({rt, rt2, rn}) /\ imm7_ok(imm), word, text)
  BY DEF ldp_post
<1> HIDE DEF word, text
<1> QED  BY <1>1, <1>2 DEF Plain, PlainStep

LEMMA BlrIsPlain ==
    ASSUME NEW rn \in Regs, blr(rn)
    PROVE  PlainStep
<1> DEFINE word == Word(\hD63F, \h0000) \cup Shl(rn, 5)
           text == G!blr(rn)
<1>1. ASSUME check_reg({rn}) PROVE PlainLine(word, text)
  <2>1. rn \in Bit
    BY <1>1 DEF check_reg
  <2>2. Encodes(word, text)
    BY <2>1, BlrEncodes
  <2>3. "to" \notin DOMAIN text /\ text.op \notin BranchOps
    BY DEF BranchOps, G!blr
  <2> QED  BY <2>2, <2>3 DEF PlainLine
<1>2. Plain(check_reg({rn}), word, text)
  BY DEF blr
<1> HIDE DEF word, text
<1> QED  BY <1>1, <1>2 DEF Plain, PlainStep

LEMMA RetIsPlain ==
    ASSUME ret
    PROVE  PlainStep
<1>1. Encodes(Word(\hD65F, \h0000) \cup Shl(30, 5), G!ret)
  BY RetEncodes
<1>2. "to" \notin DOMAIN G!ret /\ G!ret.op \notin BranchOps
  BY DEF BranchOps, G!ret
<1>3. PlainLine(Word(\hD65F, \h0000) \cup Shl(30, 5), G!ret)
  BY <1>1, <1>2 DEF PlainLine
<1> QED  BY <1>3 DEF ret, Plain, PlainStep

-----------------------------------------------------------------------------
(* An operation with a label; the cases of a step *)

(* What an operation with a label does, whichever it is. *)
BranchStep ==
    /\ Open
    /\ \/ Abort
       \/ \E l \in Labels : \E kind, word, text :
             /\ NewBranch(word, kind, l, text)
             /\ Issued(l)
             /\ fixups' = Append(fixups, [at |-> Len(code), label |-> l, kind |-> kind])
             /\ emit(word, text)
             /\ UNCHANGED <<labelPos, status, next, bytes>>

(* b and bl; b_cond; cbz and cbnz. *)
LEMMA JumpsAreBranches ==
    ASSUME NEW l \in Labels, b(l) \/ bl(l)
    PROVE  BranchStep
<1>1. /\ NewBranch(Word(\h1400, \h0000), "imm26", l, G!b(l))
      /\ NewBranch(Word(\h9400, \h0000), "imm26", l, G!bl(l))
  BY BWords
<1>2. CASE b(l)
  BY <1>1, <1>2 DEF b, Branch, BranchStep
<1>3. CASE bl(l)
  BY <1>1, <1>3 DEF bl, Branch, BranchStep
<1> QED  BY <1>2, <1>3

LEMMA CondIsBranch ==
    ASSUME NEW cond \in Conds, NEW l \in Labels, b_cond(cond, l)
    PROVE  BranchStep
<1>1. cond \in Nat /\ cond <= 15
  BY OperandsHaveTypes
<1>2. NewBranch(Word(\h5400, \h0000) \cup Shl(cond, 0), "imm19", l, b_cond_record(cond, l))
  BY <1>1, BCondWords
<1> QED  BY <1>2 DEF b_cond, Branch, BranchStep

LEMMA TestsAreBranches ==
    ASSUME NEW rt \in Tested, NEW l \in Labels, cbz(rt, l) \/ cbnz(rt, l)
    PROVE  BranchStep
<1> DEFINE word == Word(\hB400, \h0000) \cup Shl(rt, 0)
           other == Word(\hB500, \h0000) \cup Shl(rt, 0)
           text == G!cbz(rt, l)
           otherText == G!cbnz(rt, l)
<1>1. ASSUME check_reg({rt})
      PROVE  NewBranch(word, "imm19", l, text) /\ NewBranch(other, "imm19", l, otherText)
  <2>1. rt \in Bit
    BY <1>1 DEF check_reg
  <2> QED  BY <2>1, CbWords
<1>2. \/ Branch(check_reg({rt}), l, "imm19", word, text)
      \/ Branch(check_reg({rt}), l, "imm19", other, otherText)
  BY DEF cbz, cbnz
<1> HIDE DEF word, other, text, otherText
<1> QED  BY <1>1, <1>2 DEF Branch, BranchStep

(* Every step of the emitter is one of seven. *)
LEMMA NextCases ==
    ASSUME Next
    PROVE  \/ new_label
           \/ \E l \in Labels : bind(l)
           \/ PlainStep
           \/ BranchStep
           \/ StartFinalize
           \/ Patch
           \/ Finish
<1>1. ASSUME NEW rd \in Regs, NEW imm \in Imm16, NEW hw \in Halves,
             movz(rd, imm, hw) \/ movk(rd, imm, hw)
      PROVE  PlainStep
  BY <1>1, MovzIsPlain, MovkIsPlain
<1>2. ASSUME NEW rd \in Regs, NEW rm \in Regs, mov_reg(rd, rm) \/ neg(rd, rm) \/ cmp(rd, rm)
      PROVE  PlainStep
  BY <1>2, MovRegIsPlain, NegIsPlain, CmpIsPlain
<1>3. ASSUME NEW rd \in Regs, NEW rn \in Regs, NEW rm \in Regs,
             add_reg(rd, rn, rm) \/ sub_reg(rd, rn, rm) \/ mul(rd, rn, rm) \/ sdiv(rd, rn, rm)
      PROVE  PlainStep
  BY <1>3, AddRegIsPlain, SubRegIsPlain, MulIsPlain, SdivIsPlain
<1>4. ASSUME NEW rd \in Regs, NEW rn \in Regs, NEW rm \in Regs, NEW ra \in Regs,
             msub(rd, rn, rm, ra)
      PROVE  PlainStep
  BY <1>4, MsubIsPlain
<1>5. ASSUME NEW rd \in Regs, NEW cond \in Conds, cset(rd, cond) PROVE PlainStep
  BY <1>5, CsetIsPlain
<1>6. ASSUME NEW rd \in Regs, NEW rn \in Regs, NEW imm \in Imm12,
             add_imm(rd, rn, imm) \/ sub_imm(rd, rn, imm)
      PROVE  PlainStep
  BY <1>6, AddImmIsPlain, SubImmIsPlain
<1>7. ASSUME NEW rt \in Regs, NEW rn \in Regs, NEW imm \in Imm9,
             \/ str_pre(rt, rn, imm) \/ ldr_post(rt, rn, imm)
             \/ stur(rt, rn, imm) \/ ldur(rt, rn, imm)
      PROVE  PlainStep
  BY <1>7, StrPreIsPlain, LdrPostIsPlain, SturIsPlain, LdurIsPlain
<1>8. ASSUME NEW rt \in Regs, NEW rt2 \in Regs, NEW rn \in Regs, NEW imm \in Imm7,
             stp_pre(rt, rt2, rn, imm) \/ ldp_post(rt, rt2, rn, imm)
      PROVE  PlainStep
  BY <1>8, StpPreIsPlain, LdpPostIsPlain
<1>9. ASSUME NEW rn \in Regs, blr(rn) PROVE PlainStep
  BY <1>9, BlrIsPlain
<1>10. ret => PlainStep
  BY RetIsPlain
<1>11. ASSUME NEW l \in Labels, b(l) \/ bl(l) PROVE BranchStep
  BY <1>11, JumpsAreBranches
<1>12. ASSUME NEW cond \in Conds, NEW l \in Labels, b_cond(cond, l) PROVE BranchStep
  BY <1>12, CondIsBranch
<1>13. ASSUME NEW rt \in Tested, NEW l \in Labels, cbz(rt, l) \/ cbnz(rt, l) PROVE BranchStep
  BY <1>13, TestsAreBranches
<1> QED  BY <1>1, <1>2, <1>3, <1>4, <1>5, <1>6, <1>7, <1>8, <1>9,
         <1>10, <1>11, <1>12, <1>13 DEF Next

-----------------------------------------------------------------------------
(* The buffer and the listing as Emitter has them, and the invariant *)

(* The buffer and the listing as the emitter's model has them. *)
AbstractCode == [p \in DOMAIN code |-> Abstract(code[p])]
AbstractLine(line) ==
    [word |-> Abstract(line.word), to |-> IF "to" \in DOMAIN line.text THEN line.text.to ELSE -1]
AbstractListing == [p \in DOMAIN listing |-> AbstractLine(listing[p])]

EP == INSTANCE EmitterProofs WITH
        Half26 <- TwoTo[25], Half19 <- TwoTo[18], code <- AbstractCode, listing <- AbstractListing

(* What a line may say. *)
Texts ==
    {Decode(w) : w \in SUBSET Bit} \cup
    {BranchText(w, kind, l) : w \in SUBSET Bit, kind \in {"imm26", "imm19"}, l \in Labels}
Lines == [word : SUBSET Bit, text : Texts]

(* A word is the instruction its line names; a branch, but for its displacement. *)
LineMeans(w, text) ==
    \/ PlainLine(w, text)
    \/ \E l \in Labels : \E kind : OfKind(w, kind) /\ text = BranchText(w, kind, l)

(* The buffer and the listing go together, line by line. *)
WordsTyped ==
    /\ code \in Seq(SUBSET Bit) /\ listing \in Seq(Lines)
    /\ Len(listing) = Len(code)
    /\ Len(labelPos) <= MaxLabels

(* Each word is the instruction its line names (emitter.cc:165-619). *)
WordsMean ==
    \A p \in 1 .. Len(code) :
        listing[p].word = code[p] /\ LineMeans(code[p], listing[p].text)

(* finalize writes every word (emitter.cc:598-619). *)
BytesWritten == status = "final" => BytesAre(bytes, code)

(* The inductive invariant: Emitter's own, and the words. *)
IInv == EP!IInv /\ WordsTyped /\ WordsMean /\ BytesWritten

(* The assumptions of EmitterProofs, and one of its steps. *)
LEMMA EmitterAssumed ==
    /\ TwoTo[25] \in Nat \ {0} /\ TwoTo[18] \in Nat \ {0}
    /\ MaxWords \in Nat /\ MaxLabels \in Nat
BY PowerFacts, BoundsAreNat

LEMMA EmitterKeeps ==
    ASSUME EP!IInv, [EP!Next]_(EP!vars)
    PROVE  EP!IInv'
<1>1. EP!IInv /\ [EP!Next]_(EP!vars) => EP!IInv'
  BY EmitterAssumed, EP!NextPreserves
<1> QED  BY <1>1

(* The abstract word of a line. *)
LEMMA PlainIsPlain ==
    ASSUME NEW w, NEW text, PlainLine(w, text)
    PROVE  /\ Abstract(w) = [kind |-> "plain", field |-> 0]
           /\ AbstractLine([word |-> w, text |-> text]) = [word |-> Abstract(w), to |-> EP!NoLabel]
           /\ w \subseteq Bit /\ text \in Texts
<1>1. w \subseteq Bit /\ Decode(w) = text /\ "to" \notin DOMAIN text /\ text.op \notin BranchOps
  BY DEF PlainLine, Encodes
<1>2. Abstract(w) = [kind |-> "plain", field |-> 0]
  BY <1>1 DEF Abstract, BranchOps
<1>3. AbstractLine([word |-> w, text |-> text]) = [word |-> Abstract(w), to |-> EP!NoLabel]
  BY <1>1 DEF AbstractLine, EP!NoLabel
<1>4. text \in Texts
  BY <1>1 DEF Texts
<1> QED  BY <1>1, <1>2, <1>3, <1>4

(* The abstract word of a branch. *)
LEMMA BranchIsBranch ==
    ASSUME NEW w, w \subseteq Bit, NEW kind, OfKind(w, kind), NEW l \in Labels,
           NEW text, text = BranchText(w, kind, l)
    PROVE  /\ Abstract(w) = [kind |-> kind, field |-> Field(w, DispHigh(kind), DispLow(kind))]
           /\ AbstractLine([word |-> w, text |-> text]) = [word |-> Abstract(w), to |-> l]
           /\ text \in Texts
           /\ kind = "imm26" \/ kind = "imm19"
<1>1. kind = "imm26" \/ kind = "imm19"
  BY DEF OfKind
<1>2. Abstract(w) = [kind |-> kind, field |-> Field(w, DispHigh(kind), DispLow(kind))]
  BY DecodesAsBranch
<1>3. "to" \in DOMAIN text /\ text.to = l
  BY BranchReads
<1>4. AbstractLine([word |-> w, text |-> text]) = [word |-> Abstract(w), to |-> l]
  BY <1>3 DEF AbstractLine
<1>5. text \in Texts
  BY <1>1 DEF Texts
<1> QED  BY <1>1, <1>2, <1>4, <1>5

(* The abstract buffer, by position. *)
LEMMA AbstractWords ==
    ASSUME NEW w, w \subseteq Bit, NEW text, LineMeans(w, text)
    PROVE  Abstract(w) \in EP!Words
<1>1. CASE PlainLine(w, text)
  <2>1. Abstract(w) = [kind |-> "plain", field |-> 0]
    BY <1>1, PlainIsPlain
  <2> QED  BY <2>1 DEF EP!Words
<1>2. ASSUME NEW l \in Labels, NEW kind, OfKind(w, kind), text = BranchText(w, kind, l)
      PROVE  Abstract(w) \in EP!Words
  <2>1. /\ Abstract(w) = [kind |-> kind, field |-> Field(w, DispHigh(kind), DispLow(kind))]
        /\ kind = "imm26" \/ kind = "imm19"
    BY <1>2, BranchIsBranch
  <2>2. Field(w, DispHigh(kind), DispLow(kind)) \in Nat
    BY <2>1, SignedDisplacement
  <2>3. kind \in EP!Kinds
    BY <2>1 DEF EP!Kinds
  <2> QED  BY <2>1, <2>2, <2>3 DEF EP!Words
<1> QED  BY <1>1, <1>2 DEF LineMeans

(* What the rest uses of the invariant. *)
LEMMA Facts ==
    ASSUME IInv
    PROVE  /\ Len(code) \in Nat /\ Len(listing) = Len(code)
           /\ DOMAIN code = 1 .. Len(code) /\ DOMAIN listing = 1 .. Len(code)
           /\ \A p \in 1 .. Len(code) : code[p] \subseteq Bit /\ listing[p] \in Lines
           /\ AbstractCode \in Seq(EP!Words) /\ Len(AbstractCode) = Len(code)
           /\ AbstractListing \in Seq([word : EP!Words, to : Nat \cup {EP!NoLabel}])
           /\ Len(AbstractListing) = Len(code)
           /\ \A p \in 1 .. Len(code) : /\ AbstractCode[p] = Abstract(code[p])
                                        /\ AbstractListing[p] = AbstractLine(listing[p])
           /\ next \in Nat \ {0} /\ Len(fixups) \in Nat /\ Len(labelPos) \in Nat
<1>1. /\ Len(code) \in Nat /\ Len(listing) = Len(code)
      /\ DOMAIN code = 1 .. Len(code) /\ DOMAIN listing = 1 .. Len(code)
      /\ \A p \in 1 .. Len(code) : code[p] \subseteq Bit /\ listing[p] \in Lines
  BY LenProperties, ElementOfSeq DEF IInv, WordsTyped
<1>2. EP!TypeOK
  BY DEF IInv, EP!IInv
<1>3. /\ AbstractCode \in Seq(EP!Words)
      /\ AbstractListing \in Seq([word : EP!Words, to : Nat \cup {EP!NoLabel}])
  BY <1>2 DEF EP!TypeOK
<1>4. /\ DOMAIN AbstractCode = 1 .. Len(code) /\ DOMAIN AbstractListing = 1 .. Len(code)
      /\ \A p \in 1 .. Len(code) : /\ AbstractCode[p] = Abstract(code[p])
                                   /\ AbstractListing[p] = AbstractLine(listing[p])
  BY <1>1 DEF AbstractCode, AbstractListing
<1>5. Len(AbstractCode) = Len(code)
  <2>1. Len(AbstractCode) \in Nat /\ DOMAIN AbstractCode = 1 .. Len(AbstractCode)
    BY <1>3, LenProperties
  <2> QED  BY <1>1, <1>4, <2>1
<1>6. Len(AbstractListing) = Len(code)
  <2>1. Len(AbstractListing) \in Nat /\ DOMAIN AbstractListing = 1 .. Len(AbstractListing)
    BY <1>3, LenProperties
  <2> QED  BY <1>1, <1>4, <2>1
<1>7. next \in Nat \ {0} /\ Len(fixups) \in Nat /\ Len(labelPos) \in Nat
  BY <1>2, EmitterAssumed, EP!Typing
<1> QED  BY <1>1, <1>3, <1>4, <1>5, <1>6, <1>7

-----------------------------------------------------------------------------
(* Appending a word *)

(* The abstract buffer of an appended one. *)
LEMMA AppendIs ==
    ASSUME NEW T, NEW s \in Seq(T), NEW e \in T, NEW f,
           f = [p \in 1 .. Len(s) + 1 |-> f[p]],
           \A p \in 1 .. Len(s) : f[p] = s[p],
           f[Len(s) + 1] = e
    PROVE  f = Append(s, e)
<1> DEFINE g == Append(s, e)
<1>1. /\ g \in Seq(T) /\ Len(g) = Len(s) + 1 /\ Len(s) \in Nat
      /\ \A p \in 1 .. Len(s) : g[p] = s[p]
      /\ g[Len(s) + 1] = e
  BY AppendProperties, LenProperties
<1>2. g = [p \in 1 .. Len(s) + 1 |-> g[p]]
  BY <1>1, LenProperties
<1>3. \A p \in 1 .. Len(s) + 1 : p \in 1 .. Len(s) \/ p = Len(s) + 1
  BY <1>1
<1> HIDE DEF g
<1>4. \A p \in 1 .. Len(s) + 1 : f[p] = g[p]
  BY <1>1, <1>3
<1> QED  BY <1>2, <1>4 DEF g

(* The state that does not change keeps its meaning. *)
LEMMA SameBuffer ==
    ASSUME IInv, UNCHANGED <<code, listing>>
    PROVE  /\ AbstractCode' = AbstractCode /\ AbstractListing' = AbstractListing
           /\ WordsMean'
           /\ Len(labelPos') <= MaxLabels => WordsTyped'
BY DEF AbstractCode, AbstractListing, WordsMean, WordsTyped, IInv

(* Emission, of the words and of what they stand for. *)
LEMMA EmitIs ==
    ASSUME IInv, NEW word, word \subseteq Bit, NEW text, text \in Texts, LineMeans(word, text),
           emit(word, text), labelPos' = labelPos
    PROVE  /\ WordsTyped' /\ WordsMean'
           /\ Len(code') = Len(code) + 1
           /\ AbstractCode' = Append(AbstractCode, Abstract(word))
           /\ AbstractListing' =
                 Append(AbstractListing, AbstractLine([word |-> word, text |-> text]))
<1> DEFINE n == Len(code)
           line == [word |-> word, text |-> text]
<1>1. line \in Lines /\ line.word = word /\ line.text = text
  BY DEF Lines
<1>2. code \in Seq(SUBSET Bit) /\ listing \in Seq(Lines) /\ word \in SUBSET Bit
      /\ code' = Append(code, word) /\ listing' = Append(listing, line)
  BY DEF IInv, WordsTyped, emit
<1>3. n \in Nat /\ Len(listing) = n
  BY Facts
<1> HIDE DEF line
<1>4. /\ code' \in Seq(SUBSET Bit) /\ Len(code') = n + 1
      /\ \A p \in 1 .. n : code'[p] = code[p]
      /\ code'[n + 1] = word
      /\ DOMAIN code' = 1 .. n + 1
  BY <1>2, AppendProperties, LenProperties
<1>5. /\ listing' \in Seq(Lines) /\ Len(listing') = n + 1
      /\ \A p \in 1 .. n : listing'[p] = listing[p]
      /\ listing'[n + 1] = line
      /\ DOMAIN listing' = 1 .. n + 1
  BY <1>1, <1>2, <1>3, AppendProperties, LenProperties
<1> HIDE DEF n
<1>6. \A p \in 1 .. n + 1 : p \in 1 .. n \/ p = n + 1
  BY <1>3
<1>7. WordsTyped'
  BY <1>4, <1>5 DEF WordsTyped, IInv
<1>8. WordsMean'
  <2> SUFFICES ASSUME NEW p \in 1 .. n + 1
               PROVE  listing'[p].word = code'[p] /\ LineMeans(code'[p], listing'[p].text)
    BY <1>4 DEF WordsMean
  <2>1. CASE p = n + 1
    BY <1>1, <1>4, <1>5, <2>1
  <2>2. CASE p \in 1 .. n
    BY <1>4, <1>5, <2>2 DEF IInv, WordsMean, n
  <2> QED  BY <1>6, <2>1, <2>2
<1>9. AbstractCode' = Append(AbstractCode, Abstract(word))
  <2>1. /\ AbstractCode \in Seq(EP!Words) /\ Len(AbstractCode) = n
        /\ \A p \in 1 .. n : AbstractCode[p] = Abstract(code[p])
    BY Facts DEF n
  <2>2. Abstract(word) \in EP!Words
    BY AbstractWords
  <2>3. /\ AbstractCode' = [p \in 1 .. n + 1 |-> AbstractCode'[p]]
        /\ \A p \in 1 .. n + 1 : AbstractCode'[p] = Abstract(code'[p])
    BY <1>4 DEF AbstractCode
  <2>4. /\ (\A p \in 1 .. n : AbstractCode'[p] = AbstractCode[p])
        /\ AbstractCode'[n + 1] = Abstract(word)
    <3>1. n + 1 \in 1 .. n + 1 /\ \A p \in 1 .. n : p \in 1 .. n + 1
      BY <1>3
    <3> QED  BY <1>4, <2>1, <2>3, <3>1
  <2> QED  BY <2>1, <2>2, <2>3, <2>4, AppendIs
<1>10. AbstractListing' = Append(AbstractListing, AbstractLine(line))
  <2> DEFINE T == [word : EP!Words, to : Nat \cup {EP!NoLabel}] \cup {AbstractLine(line)}
             one == AbstractLine(line)
  <2>1. /\ AbstractListing \in Seq(T) /\ Len(AbstractListing) = n
        /\ \A p \in 1 .. n : AbstractListing[p] = AbstractLine(listing[p])
    <3>1. /\ AbstractListing \in Seq([word : EP!Words, to : Nat \cup {EP!NoLabel}])
          /\ Len(AbstractListing) = n
          /\ \A p \in 1 .. n : AbstractListing[p] = AbstractLine(listing[p])
      BY Facts DEF n
    <3>2. AbstractListing \in Seq(T)
      <4> DEFINE S == [word : EP!Words, to : Nat \cup {EP!NoLabel}]
      <4>1. AbstractListing \in Seq(S) /\ S \subseteq T
        BY <3>1
      <4> HIDE DEF S, T
      <4> QED  BY <4>1, SeqMonotonic
    <3> QED  BY <3>1, <3>2
  <2>2. one \in T
    OBVIOUS
  <2>3. /\ AbstractListing' = [p \in 1 .. n + 1 |-> AbstractListing'[p]]
        /\ \A p \in 1 .. n + 1 : AbstractListing'[p] = AbstractLine(listing'[p])
    BY <1>5 DEF AbstractListing
  <2> HIDE DEF T
  <2>4. /\ (\A p \in 1 .. n : AbstractListing'[p] = AbstractListing[p])
        /\ AbstractListing'[n + 1] = one
    <3>1. n + 1 \in 1 .. n + 1 /\ \A p \in 1 .. n : p \in 1 .. n + 1
      BY <1>3
    <3> QED  BY <1>5, <2>1, <2>3, <3>1
  <2> HIDE DEF one
  <2>5. AbstractListing' = Append(AbstractListing, one)
    BY <2>1, <2>2, <2>3, <2>4, AppendIs
  <2> QED  BY <2>5 DEF one
<1> QED  BY <1>4, <1>7, <1>8, <1>9, <1>10 DEF n, line

-----------------------------------------------------------------------------
(* A step is a step of Emitter *)

(* A step is one of the emitter's model, and the words keep their meaning. *)
Carried == EP!Next /\ WordsTyped' /\ WordsMean' /\ BytesWritten'

(* A failed check leaves the buffer, as binding no label does in Emitter. *)
LEMMA AbortLeaves ==
    ASSUME IInv, Abort
    PROVE  EP!Abort /\ WordsTyped' /\ WordsMean' /\ BytesWritten'
<1>1. /\ UNCHANGED <<code, listing, labelPos>> /\ status' = "aborted"
  BY DEF Abort
<1>2. Len(labelPos') <= MaxLabels
  BY <1>1 DEF IInv, WordsTyped
<1>3. /\ AbstractCode' = AbstractCode
      /\ AbstractListing' = AbstractListing
      /\ WordsMean'
      /\ WordsTyped'
  BY <1>1, <1>2, SameBuffer
<1>4. BytesWritten'
  BY <1>1 DEF BytesWritten
<1>5. EP!Abort
  BY <1>3 DEF EP!Abort, Abort
<1> QED  BY <1>3, <1>4, <1>5

(* The model has no range checks to fail, but labels that were not issued. *)
LEMMA AbortIsEmitter ==
    ASSUME IInv, Abort, status = "open"
    PROVE  Carried
<1>1. EP!Abort /\ WordsTyped' /\ WordsMean' /\ BytesWritten'
  BY AbortLeaves
<1>2. MaxLabels \in 0 .. MaxLabels /\ ~(MaxLabels \in 0 .. Len(labelPos) - 1)
  BY BoundsAreNat, Facts DEF IInv, WordsTyped
<1>3. EP!Bind(MaxLabels)
  BY <1>1, <1>2 DEF EP!Bind, EP!Issued
<1>4. EP!Next
  BY <1>2, <1>3 DEF EP!Next
<1> QED  BY <1>1, <1>4 DEF Carried

(* An operation without a label emits a plain word. *)
LEMMA PlainIsEmitter ==
    ASSUME IInv, PlainStep
    PROVE  Carried
<1>1. status = "open" /\ Len(code) < MaxWords
  BY DEF PlainStep, Open
<1>2. CASE Abort
  BY <1>1, <1>2, AbortIsEmitter
<1>3. ASSUME NEW word, NEW text, PlainLine(word, text), emit(word, text),
             UNCHANGED <<labelPos, fixups, status, next, bytes>>
      PROVE  Carried
  <2>1. /\ Abstract(word) = [kind |-> "plain", field |-> 0]
        /\ AbstractLine([word |-> word, text |-> text]) =
              [word |-> Abstract(word), to |-> EP!NoLabel]
        /\ word \subseteq Bit /\ text \in Texts /\ LineMeans(word, text)
    BY <1>3, PlainIsPlain DEF LineMeans
  <2>2. /\ WordsTyped' /\ WordsMean'
        /\ AbstractCode' = Append(AbstractCode, Abstract(word))
        /\ AbstractListing' =
              Append(AbstractListing, AbstractLine([word |-> word, text |-> text]))
    BY <1>3, <2>1, EmitIs
  <2>3. EP!Emit([kind |-> "plain", field |-> 0], EP!NoLabel)
    BY <2>1, <2>2 DEF EP!Emit
  <2>4. Len(AbstractCode) = Len(code)
    BY Facts
  <2>5. EP!EmitPlain
    BY <1>1, <1>3, <2>3, <2>4 DEF EP!EmitPlain
  <2>6. BytesWritten'
    BY <1>1, <1>3 DEF BytesWritten
  <2> QED  BY <2>2, <2>5, <2>6 DEF Carried, EP!Next
<1> QED  BY <1>2, <1>3 DEF PlainStep

LEMMA BranchIsEmitter ==
    ASSUME IInv, BranchStep
    PROVE  Carried
<1>1. status = "open" /\ Len(code) < MaxWords
  BY DEF BranchStep, Open
<1>2. CASE Abort
  BY <1>1, <1>2, AbortIsEmitter
<1>3. ASSUME NEW l \in Labels, NEW kind, NEW word, NEW text, NewBranch(word, kind, l, text),
             Issued(l),
             fixups' = Append(fixups, [at |-> Len(code), label |-> l, kind |-> kind]),
             emit(word, text), UNCHANGED <<labelPos, status, next, bytes>>
      PROVE  Carried
  <2>1. /\ word \subseteq Bit /\ OfKind(word, kind) /\ text = BranchText(word, kind, l)
        /\ Field(word, DispHigh(kind), DispLow(kind)) = 0
    BY <1>3 DEF NewBranch
  <2>2. /\ Abstract(word) = [kind |-> kind, field |-> 0]
        /\ AbstractLine([word |-> word, text |-> text]) = [word |-> Abstract(word), to |-> l]
        /\ text \in Texts /\ LineMeans(word, text) /\ (kind = "imm26" \/ kind = "imm19")
    BY <2>1, BranchIsBranch DEF LineMeans
  <2>3. /\ WordsTyped' /\ WordsMean'
        /\ AbstractCode' = Append(AbstractCode, Abstract(word))
        /\ AbstractListing' =
              Append(AbstractListing, AbstractLine([word |-> word, text |-> text]))
    BY <1>3, <2>1, <2>2, EmitIs
  <2>4. EP!Emit([kind |-> kind, field |-> 0], l)
    BY <2>2, <2>3 DEF EP!Emit
  <2>5. Len(AbstractCode) = Len(code)
    BY Facts
  <2>6. EP!Issued(l) /\ kind \in EP!Kinds /\ l \in 0 .. MaxLabels
    BY <1>3, <2>2 DEF EP!Issued, Issued, EP!Kinds, Labels
  <2>7. EP!Branch(l, kind)
    BY <1>1, <1>3, <2>4, <2>5, <2>6 DEF EP!Branch
  <2>8. BytesWritten'
    BY <1>1, <1>3 DEF BytesWritten
  <2> QED  BY <2>3, <2>6, <2>7, <2>8 DEF Carried, EP!Next
<1> QED  BY <1>2, <1>3 DEF BranchStep

(* make_label and bind are Emitter's. *)
LEMMA LabelsAreEmitter ==
    ASSUME IInv, new_label \/ (\E l \in Labels : bind(l)) \/ StartFinalize
    PROVE  Carried
<1>1. labelPos \in Seq(Nat \cup {kUnbound}) /\ Len(labelPos) \in Nat
  <2>1. EP!TypeOK
    BY DEF IInv, EP!IInv
  <2> QED  BY <2>1, Facts DEF EP!TypeOK, EP!kUnbound, kUnbound
<1>2. Len(AbstractCode) = Len(code) /\ Len(code) \in Nat
  BY Facts
<1>3. CASE new_label
  <2>1. Len(labelPos') = Len(labelPos) + 1 /\ Len(labelPos) < MaxLabels
        /\ UNCHANGED <<code, listing, status, bytes, fixups, next>> /\ status = "open"
        /\ labelPos' = Append(labelPos, kUnbound)
    BY <1>1, <1>3, AppendProperties DEF new_label
  <2>2. Len(labelPos') <= MaxLabels
    BY <1>1, <2>1, BoundsAreNat
  <2>3. /\ AbstractCode' = AbstractCode
        /\ AbstractListing' = AbstractListing
        /\ WordsMean'
        /\ WordsTyped'
    BY <2>1, <2>2, SameBuffer
  <2>4. BytesWritten'
    BY <2>1 DEF BytesWritten
  <2>5. EP!NewLabel
    BY <2>1, <2>3 DEF EP!NewLabel, EP!kUnbound, kUnbound
  <2> QED  BY <2>3, <2>4, <2>5 DEF Carried, EP!Next
<1>4. ASSUME NEW l \in Labels, bind(l) PROVE Carried
  <2>1. CASE Abort
    BY <1>4, <2>1, AbortIsEmitter DEF bind
  <2>2. CASE /\ Issued(l) /\ labelPos[l + 1] = kUnbound
             /\ labelPos' = [labelPos EXCEPT ![l + 1] = Len(code)]
             /\ UNCHANGED <<code, listing, fixups, status, next, bytes>>
    <3>1. l + 1 \in 1 .. Len(labelPos) /\ status = "open"
      BY <1>1, <1>4, <2>2 DEF Issued, bind
    <3>2. Len(labelPos') = Len(labelPos)
      BY <1>1, <1>2, <2>2, <3>1, ExceptSeq
    <3>3. Len(labelPos') <= MaxLabels
      BY <3>2 DEF IInv, WordsTyped
    <3>4. /\ AbstractCode' = AbstractCode
          /\ AbstractListing' = AbstractListing
          /\ WordsMean'
          /\ WordsTyped'
      BY <2>2, <3>3, SameBuffer
    <3>5. BytesWritten'
      BY <2>2, <3>1 DEF BytesWritten
    <3>6. EP!Bind(l) /\ l \in 0 .. MaxLabels
      BY <1>2, <2>2, <3>1, <3>4 DEF EP!Bind, EP!Issued, Issued, EP!kUnbound, kUnbound, Labels
    <3> QED  BY <3>4, <3>5, <3>6 DEF Carried, EP!Next
  <2> QED  BY <1>4, <2>1, <2>2 DEF bind
<1>5. CASE StartFinalize
  <2>1. DOMAIN labelPos = 1 .. Len(labelPos)
    BY <1>1, LenProperties
  <2>2. CASE Abort
    BY <1>5, <2>2, AbortIsEmitter DEF StartFinalize
  <2>3. CASE /\ ~\E i \in DOMAIN labelPos : labelPos[i] = kUnbound
             /\ status' = "patching"
             /\ UNCHANGED <<code, listing, labelPos, fixups, next, bytes>>
    <3>1. Len(labelPos') <= MaxLabels
      BY <2>3 DEF IInv, WordsTyped
    <3>2. /\ AbstractCode' = AbstractCode
          /\ AbstractListing' = AbstractListing
          /\ WordsMean'
          /\ WordsTyped'
      BY <2>3, <3>1, SameBuffer
    <3>3. BytesWritten'
      BY <2>3 DEF BytesWritten
    <3>4. EP!StartFinalize
      BY <1>5, <2>1, <2>3, <3>2 DEF EP!StartFinalize, EP!kUnbound, kUnbound, StartFinalize
    <3> QED  BY <3>2, <3>3, <3>4 DEF Carried, EP!Next
  <2> QED  BY <1>5, <2>2, <2>3 DEF StartFinalize
<1> QED  BY <1>3, <1>4, <1>5

(* The last write of finalize ends Emitter's patching. *)
LEMMA FinishIsEmitter ==
    ASSUME IInv, Finish
    PROVE  Carried
<1>1. /\ status = "patching" /\ next = Len(fixups) + 1 /\ status' = "final"
      /\ UNCHANGED <<code, listing, labelPos, fixups, next>>
  BY DEF Finish
<1>2. Len(labelPos') <= MaxLabels
  BY <1>1 DEF IInv, WordsTyped
<1>3. /\ AbstractCode' = AbstractCode
      /\ AbstractListing' = AbstractListing
      /\ WordsMean'
      /\ WordsTyped'
  BY <1>1, <1>2, SameBuffer
<1>4. BytesAre(bytes', code)
  BY DEF Finish, BytesAre
<1>5. BytesWritten'
  BY <1>1, <1>4 DEF BytesWritten
<1>6. EP!Finish
  BY <1>1, <1>3 DEF EP!Finish
<1> QED  BY <1>3, <1>5, <1>6 DEF Carried, EP!Next

-----------------------------------------------------------------------------
(* Patching a branch is Emitter's patch *)

(* A displacement in reach, cut to its field, is what the model has in it. *)
LEMMA FieldOfDelta ==
    ASSUME NEW kind, kind = "imm26" \/ kind = "imm19", NEW delta \in Int
    PROVE  /\ EP!Half(kind) = Reach(kind)
           /\ Fits(delta, kind) <=> -EP!Half(kind) <= delta /\ delta < EP!Half(kind)
           /\ Fits(delta, kind) => EP!Field(delta, kind) = delta % (2 * Reach(kind))
<1>1. EP!Half(kind) = Reach(kind) /\ Reach(kind) \in Nat \ {0}
  BY EmitterAssumed DEF EP!Half, Reach
<1>2. Fits(delta, kind) <=> -EP!Half(kind) <= delta /\ delta < EP!Half(kind)
  BY <1>1 DEF Fits, Reach
<1>3. ASSUME Fits(delta, kind) PROVE EP!Field(delta, kind) = delta % (2 * Reach(kind))
  <2> DEFINE m == Reach(kind)
             mm == 2 * m
  <2>1. m \in Nat \ {0} /\ mm \in Nat \ {0} /\ mm = m + m /\ -m <= delta /\ delta < m
    BY <1>1, <1>2, <1>3
  <2>2. EP!Field(delta, kind) = IF delta >= 0 THEN delta ELSE delta + mm
    BY <1>1 DEF EP!Field
  <2> HIDE DEF m, mm
  <2>3. CASE delta >= 0
    <3>1. 0 <= delta /\ delta < mm /\ delta = mm * 0 + delta
      BY <2>1, <2>3
    <3>2. delta % mm = delta
      BY <2>1, <3>1, RemainderIs
    <3> QED  BY <2>2, <2>3, <3>2 DEF mm, m
  <2>4. CASE delta < 0
    <3> DEFINE r == delta + mm
    <3>1. 0 <= r /\ r < mm /\ r \in Int /\ delta = mm * (0 - 1) + r /\ 0 - 1 \in Int
      BY <2>1, <2>4
    <3> HIDE DEF r
    <3>2. delta % mm = r
      BY <2>1, <3>1, RemainderIs
    <3>3. ~(delta >= 0)
      BY <2>1, <2>4
    <3> QED  BY <2>2, <3>2, <3>3 DEF mm, m, r
  <2> QED  BY <2>3, <2>4
<1> QED  BY <1>1, <1>2, <1>3

(* The branch that a fixup is for, and how far it is to go. *)
LEMMA FixupFacts ==
    ASSUME IInv, status = "patching", NEW i \in 1 .. Len(fixups)
    PROVE  LET f == fixups[i]
           IN  /\ f.at + 1 \in 1 .. Len(code)
               /\ f.at < Len(code)
               /\ labelPos[f.label + 1] - f.at \in Int
               /\ \E l \in Labels : /\ OfKind(code[f.at + 1], f.kind)
                                    /\ listing[f.at + 1].text = BranchText(code[f.at + 1], f.kind, l)
<1> DEFINE f == fixups[i]
           w == code[f.at + 1]
<1>1. EP!TypeOK /\ EP!FixupsDescribe /\ EP!StatusOK
  BY DEF IInv, EP!IInv
<1>2. /\ f.at \in Nat /\ f.label \in Nat /\ f.kind \in EP!Kinds
      /\ \A k \in 1 .. Len(labelPos) : labelPos[k] \in Nat \cup {EP!kUnbound}
  BY <1>1, EmitterAssumed, EP!Typing
<1>3. /\ f.at < Len(AbstractCode) /\ AbstractCode[f.at + 1].kind = f.kind
      /\ EP!Issued(f.label)
  BY <1>1 DEF EP!FixupsDescribe
<1>4. /\ Len(code) \in Nat /\ Len(AbstractCode) = Len(code) /\ Len(labelPos) \in Nat
      /\ \A p \in 1 .. Len(code) : AbstractCode[p] = Abstract(code[p])
  BY Facts
<1>5. f.at + 1 \in 1 .. Len(code) /\ f.at < Len(code)
  BY <1>2, <1>3, <1>4
<1>6. labelPos[f.label + 1] - f.at \in Int
  <2>1. f.label + 1 \in 1 .. Len(labelPos)
    BY <1>2, <1>3, <1>4 DEF EP!Issued
  <2>2. labelPos[f.label + 1] \in Nat
    BY <1>1, <1>2, <2>1 DEF EP!StatusOK
  <2> QED  BY <1>2, <2>2
<1>7. Abstract(w).kind = f.kind /\ f.kind # "plain"
  BY <1>2, <1>3, <1>4, <1>5 DEF EP!Kinds
<1>8. LineMeans(w, listing[f.at + 1].text) /\ w \subseteq Bit
  BY <1>5, Facts DEF IInv, WordsMean
<1>9. ASSUME PlainLine(w, listing[f.at + 1].text) PROVE FALSE
  <2>1. Abstract(w) = [kind |-> "plain", field |-> 0]
    BY <1>9, PlainIsPlain
  <2> QED  BY <1>7, <2>1
<1>10. PICK l, kind : /\ l \in Labels /\ OfKind(w, kind)
                      /\ listing[f.at + 1].text = BranchText(w, kind, l)
  BY <1>8, <1>9 DEF LineMeans
<1>11. Abstract(w) = [kind |-> kind, field |-> Field(w, DispHigh(kind), DispLow(kind))]
  BY <1>10, DecodesAsBranch
<1>12. kind = f.kind
  BY <1>7, <1>11
<1> QED  BY <1>5, <1>6, <1>10, <1>12

(* One fixup, patched or out of reach. *)
LEMMA PatchIsEmitter ==
    ASSUME IInv, Patch
    PROVE  Carried
<1> DEFINE f == fixups[next]
           i == f.at + 1
           delta == labelPos[f.label + 1] - f.at
           w == code[i]
           v == Patched(w, delta, f.kind)
<1>1. status = "patching" /\ next <= Len(fixups) /\ next \in 1 .. Len(fixups)
  BY Facts DEF Patch
<1>2. i \in 1 .. Len(code) /\ f.at < Len(code) /\ delta \in Int
  BY <1>1, FixupFacts
<1>3. PICK l \in Labels : OfKind(w, f.kind) /\ listing[i].text = BranchText(w, f.kind, l)
  BY <1>1, FixupFacts
<1>4. f.kind = "imm26" \/ f.kind = "imm19"
  BY <1>3 DEF OfKind
<1>5. EP!Delta(f) = delta
  BY DEF EP!Delta
<1>6. /\ EP!Fits(f) <=> Fits(delta, f.kind)
      /\ Fits(delta, f.kind) => EP!Field(delta, f.kind) = delta % (2 * Reach(f.kind))
  BY <1>2, <1>4, <1>5, FieldOfDelta DEF EP!Fits
<1>7. /\ Len(AbstractCode) = Len(code) /\ Len(code) \in Nat /\ Len(listing) = Len(code)
      /\ DOMAIN code = 1 .. Len(code) /\ DOMAIN listing = 1 .. Len(code)
      /\ \A p \in 1 .. Len(code) : /\ AbstractCode[p] = Abstract(code[p])
                                   /\ AbstractListing[p] = AbstractLine(listing[p])
                                   /\ code[p] \subseteq Bit /\ listing[p] \in Lines
  BY Facts
<1>8. CASE ~Fits(delta, f.kind)
  <2>1. Abort
    BY <1>8 DEF Patch
  <2>2. EP!Abort /\ WordsTyped' /\ WordsMean' /\ BytesWritten'
    BY <2>1, AbortLeaves
  <2>3. EP!Patch
    BY <1>1, <1>6, <1>8, <2>2 DEF EP!Patch
  <2> QED  BY <2>2, <2>3 DEF Carried, EP!Next
<1>9. CASE Fits(delta, f.kind)
  <2>1. /\ code' = [code EXCEPT ![i] = v]
        /\ listing' = [listing EXCEPT ![i].word = v]
        /\ next' = next + 1
        /\ UNCHANGED <<labelPos, fixups, status, bytes>>
    BY <1>2, <1>9 DEF Patch
  <2>2. w \subseteq Bit
    BY <1>2, <1>7
  <2>3. /\ v \subseteq Bit /\ OfKind(v, f.kind)
        /\ BranchText(v, f.kind, l) = BranchText(w, f.kind, l)
        /\ Field(v, DispHigh(f.kind), DispLow(f.kind)) = delta % (2 * Reach(f.kind))
    BY <1>2, <1>3, <1>9, <2>2, PatchedReads
  <2>4. /\ Abstract(w) = [kind |-> f.kind, field |-> Field(w, DispHigh(f.kind), DispLow(f.kind))]
        /\ Abstract(v) = [kind |-> f.kind, field |-> Field(v, DispHigh(f.kind), DispLow(f.kind))]
    BY <1>3, <2>3, DecodesAsBranch
  <2>5. Abstract(v) = EP!Patched(Abstract(w), f)
    BY <1>5, <1>6, <1>9, <2>3, <2>4 DEF EP!Patched
  <2>6. LineMeans(v, listing[i].text)
    BY <1>3, <2>3 DEF LineMeans
  <2> HIDE DEF v, w, delta
  <2> DEFINE line == [listing[i] EXCEPT !.word = v]
  <2>7. line \in Lines /\ line.word = v /\ line.text = listing[i].text
    BY <1>2, <1>7, <2>3 DEF Lines
  <2>8. listing' = [listing EXCEPT ![i] = line]
    BY <2>1
  <2>9. AbstractLine(line) = [AbstractLine(listing[i]) EXCEPT !.word = Abstract(v)]
    BY <2>7 DEF AbstractLine
  <2> HIDE DEF line, f
  <2>10. /\ code' \in Seq(SUBSET Bit) /\ Len(code') = Len(code)
         /\ \A p \in 1 .. Len(code) : code'[p] = IF p = i THEN v ELSE code[p]
    BY <1>2, <2>1, <2>3, ExceptSeq DEF IInv, WordsTyped
  <2>11. /\ listing' \in Seq(Lines) /\ Len(listing') = Len(code)
         /\ \A p \in 1 .. Len(code) : listing'[p] = IF p = i THEN line ELSE listing[p]
    BY <1>2, <1>7, <2>7, <2>8, ExceptSeq DEF IInv, WordsTyped
  <2> HIDE DEF i
  <2>12. DOMAIN code' = 1 .. Len(code) /\ DOMAIN listing' = 1 .. Len(code)
    BY <1>7, <2>1, <2>8
  <2>13. WordsTyped'
    BY <2>1, <2>10, <2>11 DEF WordsTyped, IInv
  <2>14. WordsMean'
    <3> SUFFICES ASSUME NEW p \in 1 .. Len(code)
                 PROVE  listing'[p].word = code'[p] /\ LineMeans(code'[p], listing'[p].text)
      BY <2>10 DEF WordsMean
    <3>1. CASE p = i
      BY <2>6, <2>7, <2>10, <2>11, <3>1
    <3>2. CASE p # i
      BY <2>10, <2>11, <3>2 DEF IInv, WordsMean
    <3> QED  BY <3>1, <3>2
  <2>15. BytesWritten'
    BY <1>1, <2>1 DEF BytesWritten
  <2>16. AbstractCode' = [AbstractCode EXCEPT ![i] = Abstract(v)]
    <3>1. AbstractCode' = [p \in 1 .. Len(code) |-> Abstract(code'[p])]
      BY <2>12 DEF AbstractCode
    <3>2. AbstractCode = [p \in 1 .. Len(code) |-> Abstract(code[p])]
      BY <1>7 DEF AbstractCode
    <3> QED  BY <2>10, <3>1, <3>2
  <2>17. AbstractListing' = [AbstractListing EXCEPT ![i].word = Abstract(v)]
    <3>1. AbstractListing' = [p \in 1 .. Len(code) |-> AbstractLine(listing'[p])]
      BY <2>12 DEF AbstractListing
    <3>2. AbstractListing = [p \in 1 .. Len(code) |-> AbstractLine(listing[p])]
      BY <1>7 DEF AbstractListing
    <3> QED  BY <1>2, <2>9, <2>11, <3>1, <3>2
  <2>18. EP!Patch
    <3>1. AbstractCode[i] = Abstract(w)
      BY <1>2, <1>7 DEF w
    <3>2. /\ AbstractCode' = [AbstractCode EXCEPT ![i] = EP!Patched(@, f)]
          /\ AbstractListing' = [AbstractListing EXCEPT ![i].word = EP!Patched(AbstractCode[i], f)]
      BY <2>5, <2>16, <2>17, <3>1
    <3> QED  BY <1>1, <1>2, <1>6, <1>7, <1>9, <2>1, <3>2 DEF EP!Patch, f, i
  <2> QED  BY <2>13, <2>14, <2>15, <2>18 DEF Carried, EP!Next
<1> QED  BY <1>8, <1>9

-----------------------------------------------------------------------------
(* The invariant, and the refinement *)

(* The first state. *)
LEMMA InitEstablishes == Init => IInv /\ EP!Init
<1> SUFFICES ASSUME Init PROVE IInv /\ EP!Init
  OBVIOUS
<1>1. /\ code = <<>> /\ listing = <<>> /\ labelPos = <<>> /\ fixups = <<>>
      /\ status = "open" /\ next = 1 /\ Len(code) = 0 /\ Len(listing) = 0 /\ Len(labelPos) = 0
  BY EmptySeq DEF Init
<1>2. AbstractCode = <<>> /\ AbstractListing = <<>>
  BY <1>1 DEF AbstractCode, AbstractListing
<1>3. EP!Init
  BY <1>1, <1>2 DEF EP!Init
<1>4. EP!IInv
  BY <1>3, EmitterAssumed, EP!InitEstablishes
<1>5. WordsTyped
  BY <1>1, EmptySeq, BoundsAreNat DEF WordsTyped
<1>6. WordsMean /\ BytesWritten
  BY <1>1 DEF WordsMean, BytesWritten
<1> QED  BY <1>3, <1>4, <1>5, <1>6 DEF IInv

(* Every step is one of the emitter's model, and keeps the invariant. *)
LEMMA NextKeeps ==
    ASSUME IInv, [Next]_vars
    PROVE  IInv' /\ [EP!Next]_(EP!vars)
<1>1. CASE Next
  <2>1. Carried
    <3>1. CASE new_label \/ (\E l \in Labels : bind(l)) \/ StartFinalize
      BY <3>1, LabelsAreEmitter
    <3>2. CASE PlainStep
      BY <3>2, PlainIsEmitter
    <3>3. CASE BranchStep
      BY <3>3, BranchIsEmitter
    <3>4. CASE Patch
      BY <3>4, PatchIsEmitter
    <3>5. CASE Finish
      BY <3>5, FinishIsEmitter
    <3> QED  BY <1>1, <3>1, <3>2, <3>3, <3>4, <3>5, NextCases
  <2>2. EP!IInv'
    BY <2>1, EmitterKeeps DEF Carried, IInv
  <2> QED  BY <2>1, <2>2 DEF Carried, IInv
<1>2. CASE UNCHANGED vars
  <2>1. UNCHANGED <<code, listing, labelPos, fixups, status, next, bytes>>
    BY <1>2 DEF vars
  <2>2. AbstractCode' = AbstractCode /\ AbstractListing' = AbstractListing
    BY <2>1 DEF AbstractCode, AbstractListing
  <2>3. UNCHANGED EP!vars
    BY <2>1, <2>2 DEF EP!vars
  <2>4. EP!IInv'
    BY <2>3, EmitterKeeps DEF IInv
  <2>5. WordsTyped' /\ WordsMean' /\ BytesWritten'
    BY <2>1 DEF IInv, WordsTyped, WordsMean, BytesWritten
  <2> QED  BY <2>3, <2>4, <2>5 DEF IInv
<1> QED  BY <1>1, <1>2

(***************************************************************************)
(* Between any two operations the buffer and the listing agree line by     *)
(* line: a word decodes to the instruction its line names, a branch to one *)
(* of its kind with its register or condition, and Emitter's invariant     *)
(* holds of the words as Emitter has them (emitter.cc:165-619).            *)
(***************************************************************************)
THEOREM Invariance == Spec => []IInv
<1>1. Init => IInv
  BY InitEstablishes
<1>2. IInv /\ [Next]_vars => IInv'
  BY NextKeeps
<1> QED  BY <1>1, <1>2, PTL DEF Spec

(* The emitter's model under its two names. *)
LEMMA SameEmitter ==
    /\ EP!Init => E!Init
    /\ [EP!Next]_(EP!vars) => [E!Next]_(E!vars)
<1>1. /\ AbstractCode = [p \in DOMAIN code |-> Abstract(code[p])]
      /\ AbstractListing = [p \in DOMAIN listing |->
                              [word |-> Abstract(listing[p].word),
                               to |-> IF "to" \in DOMAIN listing[p].text
                                      THEN listing[p].text.to ELSE -1]]
  BY DEF AbstractCode, AbstractListing, AbstractLine
<1>2. EP!Init => E!Init
  BY DEF EP!Init, E!Init, AbstractCode, AbstractListing, AbstractLine
<1>3. UNCHANGED EP!vars => UNCHANGED E!vars
  BY DEF EP!vars, E!vars, AbstractCode, AbstractListing, AbstractLine
<1>4. EP!Next => E!Next
  BY DEF EP!Next, E!Next, EP!NewLabel, E!NewLabel, EP!Bind, E!Bind, EP!EmitPlain, E!EmitPlain,
         EP!Emit, E!Emit, EP!Branch, E!Branch, EP!StartFinalize, E!StartFinalize,
         EP!Patch, E!Patch, EP!Finish, E!Finish, EP!Abort, E!Abort, EP!Issued, E!Issued,
         EP!Fits, E!Fits, EP!Delta, E!Delta, EP!Half, E!Half, EP!Field, E!Field,
         EP!Patched, E!Patched, EP!kUnbound, E!kUnbound, EP!NoLabel, E!NoLabel,
         EP!Kinds, E!Kinds, AbstractCode, AbstractListing, AbstractLine
<1> QED  BY <1>2, <1>3, <1>4

(***************************************************************************)
(* The masks and shifts of the code do to the words what Emitter says of   *)
(* their fields: each operation is one step of Emitter, a failed range     *)
(* check changes neither buffer nor fixups, and patching a branch writes   *)
(* its displacement and keeps every other bit (emitter.cc:548-596).        *)
(***************************************************************************)
THEOREM Refinement == Spec => ImplementsEmitter
<1>1. Init => E!Init
  BY InitEstablishes, SameEmitter
<1>2. IInv /\ [Next]_vars => [E!Next]_(E!vars)
  BY NextKeeps, SameEmitter
<1> QED  BY <1>1, <1>2, Invariance, PTL DEF Spec, ImplementsEmitter, E!Spec

-----------------------------------------------------------------------------
(* The bytes *)

(* The invariant is enough for the bytes. *)
LEMMA FinalBytesMean == IInv => BytesMeanTheListing
<1> SUFFICES ASSUME IInv, status = "final" PROVE BytesMeanTheListing
  BY DEF BytesMeanTheListing
<1>1. /\ Len(code) \in Nat /\ Len(listing) = Len(code) /\ DOMAIN listing = 1 .. Len(code)
      /\ \A p \in 1 .. Len(code) : code[p] \subseteq Bit
      /\ Len(AbstractCode) = Len(code)
      /\ \A p \in 1 .. Len(code) : /\ AbstractCode[p] = Abstract(code[p])
                                   /\ AbstractListing[p] = AbstractLine(listing[p])
  BY Facts
<1>2. BytesAre(bytes, code)
  BY DEF IInv, BytesWritten
<1>3. Len(bytes) = 4 * Len(listing)
  BY <1>1, <1>2 DEF BytesAre
<1>4. EP!BranchesLand
  BY EmitterAssumed, EP!FinalBranchesLand DEF IInv
<1>5. ASSUME NEW p \in DOMAIN listing
      PROVE  LET i == Decode(Fetched(p))
                 text == listing[p].text
             IN  IF "to" \in DOMAIN text
                 THEN /\ DOMAIN i = ((DOMAIN text) \ {"to"}) \cup {"by"}
                      /\ \A x \in (DOMAIN text) \ {"to"} : i[x] = text[x]
                      /\ p - 1 + i.by = labelPos[text.to + 1]
                 ELSE i = text
  <2> DEFINE w == code[p]
             text == listing[p].text
  <2>1. p \in 1 .. Len(code)
    BY <1>1
  <2>2. Fetched(p) = w
    BY <1>1, <1>2, <2>1, FetchedIs
  <2>3. LineMeans(w, text) /\ listing[p].word = w
    BY <2>1 DEF IInv, WordsMean
  <2>4. AbstractCode[p] = Abstract(w) /\ ("to" \in DOMAIN text => AbstractListing[p].to = text.to)
    <3>1. AbstractCode[p] = Abstract(w) /\ AbstractListing[p] = AbstractLine(listing[p])
      BY <1>1, <2>1
    <3>2. "to" \in DOMAIN text => AbstractLine(listing[p]).to = text.to
      BY DEF AbstractLine
    <3> QED  BY <3>1, <3>2
  <2> HIDE DEF w, text
  <2>5. CASE PlainLine(w, text)
    <3>1. Decode(w) = text /\ "to" \notin DOMAIN text
      BY <2>5 DEF PlainLine, Encodes
    <3> QED  BY <2>2, <3>1 DEF text
  <2>6. ASSUME NEW l \in Labels, NEW kind, OfKind(w, kind), text = BranchText(w, kind, l)
        PROVE  /\ "to" \in DOMAIN text
               /\ ReadsAs(Decode(w), text)
               /\ p - 1 + Decode(w).by = labelPos[text.to + 1]
    <3> DEFINE field == Field(w, DispHigh(kind), DispLow(kind))
               m == Reach(kind)
    <3>1. /\ "to" \in DOMAIN text /\ text.to = l /\ ReadsAs(Decode(w), text)
          /\ Decode(w).by = Signed(w, DispHigh(kind), DispLow(kind))
      BY <2>6, BranchReads
    <3>2. kind = "imm26" \/ kind = "imm19"
      BY <2>6 DEF OfKind
    <3>3. /\ Abstract(w) = [kind |-> kind, field |-> field]
      BY <2>6, DecodesAsBranch
    <3>4. field \in Nat /\ Decode(w).by = IF field < m THEN field ELSE field - 2 * m
      BY <3>1, <3>2, SignedDisplacement
    <3>5. EP!Half(kind) = m
      BY <3>2 DEF EP!Half, Reach
    <3> HIDE DEF field, m
    <3>6. EP!Displacement(Abstract(w)) = Decode(w).by
      BY <3>3, <3>4, <3>5 DEF EP!Displacement
    <3>7. p - 1 \in 0 .. Len(AbstractCode) - 1 /\ (p - 1) + 1 = p
      BY <1>1, <2>1
    <3>8. (p - 1) + EP!Displacement(AbstractCode[(p - 1) + 1])
            = labelPos[AbstractListing[(p - 1) + 1].to + 1]
      <4>1. AbstractCode[(p - 1) + 1].kind # "plain"
        BY <2>4, <3>2, <3>3, <3>7
      <4> QED  BY <1>4, <3>7, <4>1 DEF EP!BranchesLand
    <3>9. AbstractListing[p].to = l
      BY <2>4, <3>1
    <3> QED  BY <2>4, <3>1, <3>6, <3>7, <3>8, <3>9
  <2>7. CASE ~PlainLine(w, text)
    <3>1. /\ "to" \in DOMAIN text
          /\ ReadsAs(Decode(w), text)
          /\ p - 1 + Decode(w).by = labelPos[text.to + 1]
      BY <2>3, <2>6, <2>7 DEF LineMeans
    <3> QED  BY <2>2, <3>1 DEF text, ReadsAs
  <2> QED  BY <2>5, <2>7
<1> QED  BY <1>3, <1>5 DEF BytesMeanTheListing

(***************************************************************************)
(* The instruction the processor decodes from the bytes of a finalized     *)
(* buffer is the one its listing line names, with its operands, and a      *)
(* branch goes where the label of that line is bound, however many words,  *)
(* labels and fixups there are and in whatever order the operations come   *)
(* (emitter.cc:165-619).                                                   *)
(***************************************************************************)
THEOREM FinalBytes == Spec => []BytesMeanTheListing
<1>1. IInv => BytesMeanTheListing
  BY FinalBytesMean
<1> QED  BY <1>1, Invariance, PTL
=============================================================================
