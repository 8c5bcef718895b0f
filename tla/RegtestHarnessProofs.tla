------------------------ MODULE RegtestHarnessProofs ------------------------
(***************************************************************************)
(* For any table of testable instructions, any JIT buffer they fit in and  *)
(* any lane functions: the test program's verdicts are right. A stub whose *)
(* registers are a legal choice computes what the instruction is meant to  *)
(* compute, whatever earlier stubs and rounds left behind (LegalStub), so  *)
(* that a wrong result is an overlap the declared class excludes.          *)
(*                                                                         *)
(* The proof goes from the registers (where the elements of a number lie)  *)
(* to the operands, the passes, the run of a stub, the patching of the     *)
(* buffer, and the loops, with the inductive invariant HarnessInv. The     *)
(* last part counts what the loops try, with SweepInv on top of it.        *)
(***************************************************************************)
EXTENDS RegtestHarness, WellFoundedInduction, FiniteSetTheorems, TLAPS

-----------------------------------------------------------------------------
(* The registers: where the elements of a number lie.                       *)

\* The cases of a register, apart.
LEMMA SubRegsCases ==
  /\ \A n, r : SubRegs("single", n, r) = [k \in {0} |-> r]
  /\ \A r : SubRegs("vector", 1, r) = [k \in {0} |-> r]
  /\ \A n \in 2..4 : \A r : SubRegs("vector", n, r) = VectorElements(n, r)
  /\ \A n, r : SubRegs("matrix", n, r) = MatrixElements(n, r)
<1>1. \A n, r : SubRegs("single", n, r) = [k \in {0} |-> r]
  BY DEF SubRegs
<1>2. \A r : SubRegs("vector", 1, r) = [k \in {0} |-> r]
  BY DEF SubRegs
<1>3. \A n \in 2..4 : \A r : SubRegs("vector", n, r) = VectorElements(n, r)
  <2> SUFFICES ASSUME NEW n \in 2..4, NEW r PROVE SubRegs("vector", n, r) = VectorElements(n, r)
    OBVIOUS
  <2>1. n > 1 /\ n # 1
    OBVIOUS
  <2> QED BY <2>1 DEF SubRegs
<1>4. \A n, r : SubRegs("matrix", n, r) = MatrixElements(n, r)
  BY DEF SubRegs
<1> QED BY <1>1, <1>2, <1>3, <1>4

\* The elements of an operand.
LEMMA CountCases ==
  /\ \A opd : opd.kind = "single" => Count(opd) = 1
  /\ \A opd : opd.kind = "vector" => Count(opd) = opd.n
  /\ \A opd : opd.kind = "matrix" => Count(opd) = opd.n * opd.n
BY DEF Count

\* A register number is a column, a matrix, a direction and a half.
LEMMA NumberParts ==
  ASSUME NEW r \in 0..127
  PROVE  /\ Column(r) \in 0..3 /\ Matrix(r) \in 0..7 /\ Direction(r) \in 0..1 /\ Half(r) \in 0..1
         /\ r = Column(r) + 4 * Matrix(r) + 32 * Direction(r) + 64 * Half(r)
         /\ r % 32 = Column(r) + 4 * Matrix(r)
BY DEF Column, Matrix, Direction, Half

\* The element in column x, matrix m and row y.
Place(x, m, y) == x + 4 * m + 32 * y

\* Different columns and rows are different elements of a matrix.
LEMMA Places ==
  ASSUME NEW x \in 0..3, NEW m \in 0..7, NEW y \in 0..3
  PROVE  /\ Place(x, m, y) \in 0..127 /\ Matrix(Place(x, m, y)) = m
         /\ \A u, v \in 0..3 : Place(u, m, v) = Place(x, m, y) => u = x /\ v = y
BY DEF Place, Matrix

\* Where element k of a vector lies in its line, and element k of a matrix.
Along(n, r, k) == k + (4 - n) * Half(r)
Over(n, r, k)  == Column(r) + (k % n)
Down(n, r, k)  == (4 - n) * Half(r) + (k \div n)

\* The elements of a vector lie in a column or a row of a matrix.
LEMMA VectorPlaces ==
  ASSUME NEW n \in 2..4, NEW r \in 0..127, NEW k \in 0..n - 1
  PROVE  /\ Along(n, r, k) \in 0..3
         /\ Direction(r) = 0 =>
              VectorElements(n, r)[k] = Place(Column(r), Matrix(r), Along(n, r, k))
         /\ Direction(r) # 0 =>
              VectorElements(n, r)[k] = Place(Along(n, r, k), Matrix(r), Column(r))
<1> DEFINE c == Column(r)
           m == Matrix(r)
           j == Along(n, r, k)
<1>1. c \in 0..3 /\ m \in 0..7 /\ r % 32 = c + 4 * m /\ Half(r) \in 0..1
  BY NumberParts
<1>2. j \in 0..3
  <2>1. CASE Half(r) = 0
    BY <2>1 DEF Along
  <2>2. CASE Half(r) = 1
    BY <2>2 DEF Along
  <2> QED BY <1>1, <2>1, <2>2
<1>3. VectorElements(n, r)[k] = IF Direction(r) = 0 THEN (r % 32) + 32 * j
                                                   ELSE RowStart(r % 32) + j
  BY DEF VectorElements, Along
<1> HIDE DEF c, m, j
<1>4. RowStart(r % 32) = 4 * m + c * 32
  <2>1. (c + 4 * m) % 4 = c
    BY <1>1
  <2>2. Column(r % 32) = c
    BY <1>1, <2>1 DEF Column
  <2>3. RowStart(r % 32) = ((r % 32) - c) + c * 32
    BY <2>2 DEF RowStart
  <2> QED BY <1>1, <2>3
<1>5. VectorElements(n, r)[k] = IF Direction(r) = 0 THEN Place(c, m, j) ELSE Place(j, m, c)
  BY <1>1, <1>2, <1>3, <1>4 DEF Place
<1> QED BY <1>2, <1>5 DEF c, m, j

\* The elements of a matrix are a square of it.
LEMMA MatrixPlaces ==
  ASSUME NEW n \in 2..4, NEW r \in 0..127, Column(r) \in {0, 4 - n}, NEW k \in 0..n * n - 1
  PROVE  /\ Over(n, r, k) \in 0..3 /\ Down(n, r, k) \in 0..3
         /\ Direction(r) = 0 =>
              MatrixElements(n, r)[k] = Place(Over(n, r, k), Matrix(r), Down(n, r, k))
         /\ Direction(r) # 0 =>
              MatrixElements(n, r)[k] = Place(Down(n, r, k), Matrix(r), Over(n, r, k))
<1> DEFINE c == Column(r)
           m == Matrix(r)
           f == (4 - n) * Half(r)
           p == k % n
           q == k \div n
<1>1. c \in 0..3 /\ m \in 0..7 /\ Half(r) \in 0..1
  BY NumberParts
<1>2. p \in 0..n - 1 /\ q \in 0..n - 1
  <2>1. CASE n = 2
    BY <2>1
  <2>2. CASE n = 3
    BY <2>2
  <2>3. CASE n = 4
    BY <2>3
  <2> QED BY <2>1, <2>2, <2>3
<1>3. f \in {0, 4 - n}
  <2>1. CASE Half(r) = 0
    BY <2>1
  <2>2. CASE Half(r) = 1
    BY <2>2
  <2> QED BY <1>1, <2>1, <2>2
<1>4. MatrixElements(n, r)[k] =
        IF Direction(r) = 0 THEN ((4 * m + c + 32 * f) + p) + 32 * q
                            ELSE ((4 * m + f + 32 * c) + q) + 32 * p
  BY DEF MatrixElements
<1>5. Over(n, r, k) = c + p
  BY DEF Over
<1>6. Down(n, r, k) = f + q
  BY DEF Down
<1>7. c \in {0, 4 - n}
  OBVIOUS
<1> HIDE DEF c, m, f, p, q
<1>8. c + p \in 0..3 /\ f + q \in 0..3
  BY <1>2, <1>3, <1>7
<1>9. MatrixElements(n, r)[k] =
        IF Direction(r) = 0 THEN Place(c + p, m, f + q) ELSE Place(f + q, m, c + p)
  BY <1>1, <1>2, <1>3, <1>4 DEF Place
<1> QED BY <1>5, <1>6, <1>8, <1>9 DEF m

\* The three forms of an operand: one element, a line, a square.
LEMMA SizeCases ==
  ASSUME NEW d, <<d.kind, d.n>> \in Sizes
  PROVE  \/ d.kind \in {"single", "vector"} /\ d.n = 1 /\ Count(d) = 1
         \/ d.kind = "vector" /\ d.n \in 2..4 /\ Count(d) = d.n
         \/ d.kind = "matrix" /\ d.n \in 2..4 /\ Count(d) = d.n * d.n
<1>1. \/ d.kind = "single" /\ d.n = 1
      \/ d.kind = "vector" /\ d.n = 1
      \/ d.kind = "vector" /\ d.n \in 2..4
      \/ d.kind = "matrix" /\ d.n \in 2..4
  BY DEF Sizes
<1> QED BY <1>1, CountCases

\* What is known of the numbers of an operand's registers.
LEMMA NumbersOf ==
  ASSUME NEW d, <<d.kind, d.n>> \in Sizes, NEW r \in RegNumbers(d.kind, d.n)
  PROVE  /\ r \in 0..127 /\ Matrix(r) < NumMatrices
         /\ d.kind = "matrix" => Column(r) \in {0, 4 - d.n}
<1>1. CASE d.kind \in {"single", "vector"} /\ d.n = 1
  BY <1>1 DEF RegNumbers
<1>2. CASE d.kind = "vector" /\ d.n \in 2..3
  BY <1>2 DEF RegNumbers
<1>3. CASE d.kind = "vector" /\ d.n = 4
  BY <1>3 DEF RegNumbers
<1>4. CASE d.kind = "matrix"
  BY <1>4 DEF RegNumbers
<1> QED BY <1>1, <1>2, <1>3, <1>4, SizeCases

\* The elements of a vector are different ones of its matrix.
LEMMA VectorRegs ==
  ASSUME NEW n \in 2..4, NEW r \in 0..127
  PROVE  /\ DOMAIN VectorElements(n, r) = 0..n - 1
         /\ \A k \in 0..n - 1 : /\ VectorElements(n, r)[k] \in 0..127
                                /\ Matrix(VectorElements(n, r)[k]) = Matrix(r)
         /\ \A k, l \in 0..n - 1 : VectorElements(n, r)[k] = VectorElements(n, r)[l] => k = l
<1>1. DOMAIN VectorElements(n, r) = 0..n - 1
  BY DEF VectorElements
<1>2. Column(r) \in 0..3 /\ Matrix(r) \in 0..7 /\ Half(r) \in 0..1
  BY NumberParts
<1>3. ASSUME NEW k \in 0..n - 1
      PROVE  /\ VectorElements(n, r)[k] \in 0..127
             /\ Matrix(VectorElements(n, r)[k]) = Matrix(r)
  <2>1. Along(n, r, k) \in 0..3
    BY VectorPlaces
  <2>2. \/ VectorElements(n, r)[k] = Place(Column(r), Matrix(r), Along(n, r, k))
        \/ VectorElements(n, r)[k] = Place(Along(n, r, k), Matrix(r), Column(r))
    BY VectorPlaces
  <2> QED BY <1>2, <2>1, <2>2, Places
<1>4. ASSUME NEW k \in 0..n - 1, NEW l \in 0..n - 1,
             VectorElements(n, r)[k] = VectorElements(n, r)[l]
      PROVE  k = l
  <2>1. Along(n, r, k) \in 0..3 /\ Along(n, r, l) \in 0..3
    BY VectorPlaces
  <2>2. Along(n, r, k) = Along(n, r, l)
    <3>1. CASE Direction(r) = 0
      <4>1. Place(Column(r), Matrix(r), Along(n, r, k)) = Place(Column(r), Matrix(r), Along(n, r, l))
        <5>1. Direction(r) = 0 => VectorElements(n, r)[k] = Place(Column(r), Matrix(r), Along(n, r, k))
          BY VectorPlaces
        <5>2. Direction(r) = 0 => VectorElements(n, r)[l] = Place(Column(r), Matrix(r), Along(n, r, l))
          BY VectorPlaces
        <5> QED BY <1>4, <3>1, <5>1, <5>2
      <4> QED BY <1>2, <2>1, <4>1, Places
    <3>2. CASE Direction(r) # 0
      <4>1. Place(Along(n, r, k), Matrix(r), Column(r)) = Place(Along(n, r, l), Matrix(r), Column(r))
        BY <1>4, <3>2, VectorPlaces
      <4> QED BY <1>2, <2>1, <4>1, Places
    <3> QED BY <3>1, <3>2
  <2>3. (4 - n) * Half(r) \in Int
    BY <1>2
  <2> DEFINE f == (4 - n) * Half(r)
  <2>4. k + f = l + f
    BY <2>2 DEF Along
  <2> HIDE DEF f
  <2>5. f \in Int
    BY <2>3 DEF f
  <2> QED BY <2>4, <2>5
<1> QED BY <1>1, <1>3, <1>4

\* The elements of a matrix register are different ones of its matrix.
LEMMA MatrixRegs ==
  ASSUME NEW n \in 2..4, NEW r \in 0..127, Column(r) \in {0, 4 - n}
  PROVE  /\ DOMAIN MatrixElements(n, r) = 0..n * n - 1
         /\ \A k \in 0..n * n - 1 : /\ MatrixElements(n, r)[k] \in 0..127
                                    /\ Matrix(MatrixElements(n, r)[k]) = Matrix(r)
         /\ \A k, l \in 0..n * n - 1 : MatrixElements(n, r)[k] = MatrixElements(n, r)[l] => k = l
<1>1. DOMAIN MatrixElements(n, r) = 0..n * n - 1
  BY DEF MatrixElements
<1>2. Column(r) \in 0..3 /\ Matrix(r) \in 0..7 /\ Half(r) \in 0..1
  BY NumberParts
<1>3. ASSUME NEW k \in 0..n * n - 1
      PROVE  /\ MatrixElements(n, r)[k] \in 0..127
             /\ Matrix(MatrixElements(n, r)[k]) = Matrix(r)
  <2>1. Over(n, r, k) \in 0..3 /\ Down(n, r, k) \in 0..3
    BY MatrixPlaces
  <2>2. \/ MatrixElements(n, r)[k] = Place(Over(n, r, k), Matrix(r), Down(n, r, k))
        \/ MatrixElements(n, r)[k] = Place(Down(n, r, k), Matrix(r), Over(n, r, k))
    BY MatrixPlaces
  <2> QED BY <1>2, <2>1, <2>2, Places, SMTT(30)
<1>4. ASSUME NEW k \in 0..n * n - 1, NEW l \in 0..n * n - 1,
             MatrixElements(n, r)[k] = MatrixElements(n, r)[l]
      PROVE  k = l
  <2>1. /\ Over(n, r, k) \in 0..3 /\ Down(n, r, k) \in 0..3
        /\ Over(n, r, l) \in 0..3 /\ Down(n, r, l) \in 0..3
    BY MatrixPlaces
  <2>2. Over(n, r, k) = Over(n, r, l) /\ Down(n, r, k) = Down(n, r, l)
    <3>1. CASE Direction(r) = 0
      <4>1. Place(Over(n, r, k), Matrix(r), Down(n, r, k))
              = Place(Over(n, r, l), Matrix(r), Down(n, r, l))
        <5>1. Direction(r) = 0 => MatrixElements(n, r)[k] = Place(Over(n, r, k), Matrix(r), Down(n, r, k))
          BY MatrixPlaces
        <5>2. Direction(r) = 0 => MatrixElements(n, r)[l] = Place(Over(n, r, l), Matrix(r), Down(n, r, l))
          BY MatrixPlaces
        <5> QED BY <1>4, <3>1, <5>1, <5>2
      <4> QED BY <1>2, <2>1, <4>1, Places, SMTT(30)
    <3>2. CASE Direction(r) # 0
      <4>1. Place(Down(n, r, k), Matrix(r), Over(n, r, k))
              = Place(Down(n, r, l), Matrix(r), Over(n, r, l))
        BY <1>4, <3>2, MatrixPlaces
      <4> QED BY <1>2, <2>1, <4>1, Places, SMTT(30)
    <3> QED BY <3>1, <3>2
  <2>3. k % n = l % n /\ k \div n = l \div n
    <3>1. (4 - n) * Half(r) \in Int /\ Column(r) \in Int
      BY <1>2
    <3>2. k % n \in Int /\ l % n \in Int /\ k \div n \in Int /\ l \div n \in Int
      OBVIOUS
    <3> DEFINE f == (4 - n) * Half(r)
               a == k % n
               b == l % n
               c == k \div n
               d == l \div n
    <3>3. Column(r) + a = Column(r) + b /\ f + c = f + d
      BY <2>2 DEF Over, Down
    <3>4. f \in Int /\ a \in Int /\ b \in Int /\ c \in Int /\ d \in Int
      BY <3>1, <3>2
    <3> HIDE DEF a, b, c, d, f
    <3>5. a = b /\ c = d
      BY <3>1, <3>3, <3>4
    <3> QED BY <3>5 DEF a, b, c, d
  <2>4. CASE n = 2
    BY <2>3, <2>4
  <2>5. CASE n = 3
    BY <2>3, <2>5
  <2>6. CASE n = 4
    BY <2>3, <2>6
  <2> QED BY <2>4, <2>5, <2>6
<1> QED BY <1>1, <1>3, <1>4

\* The elements a register names: as many as the operand counts, different
\* ones, in the matrix of the number.
LEMMA Registers ==
  ASSUME NEW d, <<d.kind, d.n>> \in Sizes, NEW r \in RegNumbers(d.kind, d.n)
  PROVE  LET s == SubRegs(d.kind, d.n, r)
         IN /\ DOMAIN s = 0..Count(d) - 1
            /\ \A k \in 0..Count(d) - 1 : s[k] \in Elements /\ Matrix(s[k]) = Matrix(r)
            /\ \A k, l \in 0..Count(d) - 1 : s[k] = s[l] => k = l
<1> DEFINE s == SubRegs(d.kind, d.n, r)
<1>1. r \in 0..127 /\ Matrix(r) < NumMatrices
  BY NumbersOf
<1>2. \A x \in 0..127 : Matrix(x) = Matrix(r) => x \in Elements
  BY <1>1 DEF Elements
<1>3. CASE d.kind \in {"single", "vector"} /\ d.n = 1 /\ Count(d) = 1
  <2>1. s = [k \in {0} |-> r]
    BY <1>3, SubRegsCases
  <2>2. 0..Count(d) - 1 = {0}
    BY <1>3
  <2> HIDE DEF s
  <2>3. r \in Elements
    BY <1>1, <1>2
  <2>4. QED BY <2>1, <2>2, <2>3 DEF s
<1>4. CASE d.kind = "vector" /\ d.n \in 2..4 /\ Count(d) = d.n
  <2>1. s = VectorElements(d.n, r)
    BY <1>4, SubRegsCases, SMTT(30)
  <2> HIDE DEF s
  <2>3. /\ DOMAIN s = 0..d.n - 1
        /\ \A k \in 0..d.n - 1 : s[k] \in 0..127 /\ Matrix(s[k]) = Matrix(r)
        /\ \A k, l \in 0..d.n - 1 : s[k] = s[l] => k = l
    BY <1>1, <1>4, <2>1, VectorRegs, ZenonT(60)
  <2>4. \A k \in 0..d.n - 1 : s[k] \in Elements
    BY <1>2, <2>3
  <2> QED BY <1>4, <2>3, <2>4 DEF s
<1>5. CASE d.kind = "matrix" /\ d.n \in 2..4 /\ Count(d) = d.n * d.n
  <2>1. s = MatrixElements(d.n, r)
    BY <1>5, SubRegsCases
  <2>2. Column(r) \in {0, 4 - d.n}
    BY <1>5, NumbersOf
  <2> HIDE DEF s
  <2>3. /\ DOMAIN s = 0..d.n * d.n - 1
        /\ \A k \in 0..d.n * d.n - 1 : s[k] \in 0..127 /\ Matrix(s[k]) = Matrix(r)
        /\ \A k, l \in 0..d.n * d.n - 1 : s[k] = s[l] => k = l
    BY <1>1, <1>5, <2>1, <2>2, MatrixRegs, ZenonT(60)
  <2>4. \A k \in 0..d.n * d.n - 1 : s[k] \in Elements
    BY <1>2, <2>3
  <2> QED BY <1>5, <2>3, <2>4 DEF s
<1> QED BY <1>3, <1>4, <1>5, SizeCases

\* The registers of the reference run have numbers of every size, in
\* different matrices.
LEMMA ReferenceNumbers ==
  ASSUME NEW d, <<d.kind, d.n>> \in Sizes, NumMatrices >= 3, NEW k \in 1..3
  PROVE  /\ ReferenceNumber(k) \in RegNumbers(d.kind, d.n)
         /\ Matrix(ReferenceNumber(k)) = k - 1
<1> DEFINE r == ReferenceNumber(k)
<1>1. r \in 0..127 /\ r < 64 /\ Matrix(r) = k - 1 /\ Column(r) = 0
  BY DEF ReferenceNumber, Matrix, Column
<1>2. Matrix(r) < NumMatrices
  BY <1>1, NumMatricesAssumption
<1> HIDE DEF r
<1>3. r \in RegNumbers(d.kind, d.n)
  <2>1. CASE d.kind \in {"single", "vector"} /\ d.n = 1
    BY <1>1, <1>2, <2>1 DEF RegNumbers
  <2>2. CASE d.kind = "vector" /\ d.n \in 2..3
    BY <1>1, <1>2, <2>2 DEF RegNumbers
  <2>3. CASE d.kind = "vector" /\ d.n = 4
    BY <1>1, <1>2, <2>3 DEF RegNumbers
  <2>4. CASE d.kind = "matrix"
    <3>1. RegNumbers(d.kind, d.n)
            = {x \in {y \in 0..127 : Matrix(y) < NumMatrices} :
                 Column(x) \in {0, 4 - d.n} /\ (d.n = 4 => x < 64)}
      BY <2>4 DEF RegNumbers
    <3> QED BY <1>1, <1>2, <3>1
  <2> QED BY <2>1, <2>2, <2>3, <2>4, SizeCases
<1> QED BY <1>1, <1>3 DEF r

(* Induction on natural numbers, stated of a set in place of a predicate.   *)

\* A set of natural numbers that has one has a least one.
LEMMA LeastNat ==
  ASSUME NEW T \in SUBSET Nat, T # {}
  PROVE  \E n \in T : \A m \in T : n <= m
<1> DEFINE R == {ss \in Nat \X Nat : ss[1] < ss[2]}
<1>1. OpToRel(<, Nat) = R
  BY Zenon DEF OpToRel
<1>2. PICK n \in T : \A m \in T : ~(<<m, n>> \in R)
  BY <1>1, NatLessThanWellFounded, WFMin
<1>3. \A m, k \in Nat : m < k => <<m, k>> \in R
  OBVIOUS
<1> HIDE DEF R
<1>4. ASSUME NEW m \in T PROVE n <= m
  <2>1. m \in Nat /\ n \in Nat /\ ~(m < n)
    BY <1>2, <1>3
  <2> QED BY <2>1
<1> QED BY <1>4

\* Induction, for a set in place of a predicate.
LEMMA NatInd ==
  ASSUME NEW T, 0 \in T, \A n \in Nat : n \in T => n + 1 \in T
  PROVE  Nat \subseteq T
<1> SUFFICES ASSUME Nat \ T # {} PROVE FALSE
  OBVIOUS
<1>1. PICK n \in Nat \ T : \A m \in Nat \ T : n <= m
  BY LeastNat
<1>2. n # 0 /\ n - 1 \in Nat /\ ~(n <= n - 1) /\ (n - 1) + 1 = n
  BY <1>1
<1>3. n - 1 \in T
  BY <1>1, <1>2
<1> QED BY <1>1, <1>2, <1>3

\* A set of register numbers is finite.
LEMMA NumbersFinite ==
  ASSUME NEW S \in SUBSET (0..127)
  PROVE  IsFiniteSet(S) /\ Cardinality(S) \in Nat /\ Cardinality(S) <= 128
<1>1. \A hi \in Nat : IsFiniteSet(0..hi) /\ Cardinality(0..hi) = hi + 1
  BY FS_Interval
<1>2. IsFiniteSet(0..127) /\ Cardinality(0..127) = 128
  <2>1. PICK hi \in Nat : hi = 127
    OBVIOUS
  <2>2. IsFiniteSet(0..hi) /\ Cardinality(0..hi) = hi + 1
    BY <1>1
  <2>3. Cardinality(0..hi) = 128
    BY <2>1, <2>2
  <2> QED BY <2>1, <2>2, <2>3, Zenon
<1>3. IsFiniteSet(S) /\ Cardinality(S) <= Cardinality(0..127)
  BY <1>2, FS_Subset
<1> QED BY <1>2, <1>3, FS_CardinalityType

\* The members of a set of register numbers in order, one by one: the k-th
\* has k - 1 of them before it.
LEMMA AscendingMember ==
  ASSUME NEW S \in SUBSET (0..127), NEW k \in 1..Cardinality(S)
  PROVE  /\ Ascending(S)[k] \in S
         /\ Cardinality({q \in S : q < Ascending(S)[k]}) = k - 1
<1> DEFINE below(b) == {q \in S : q < b}
           T        == {b \in Nat : Cardinality(below(b)) >= k}
<1>1. IsFiniteSet(S) /\ Cardinality(S) \in Nat
  BY NumbersFinite
<1>0. \A q \in S : q \in Int /\ 0 <= q /\ q < 128
  OBVIOUS
<1>2. ASSUME NEW b \in Nat PROVE IsFiniteSet(below(b)) /\ Cardinality(below(b)) \in Nat
  BY <1>1, FS_Subset, FS_CardinalityType
<1>3. 128 \in T
  <2>1. below(128) = S
    BY <1>0
  <2> QED BY <1>1, <2>1
<1>4. PICK b \in T : \A c \in T : b <= c
  <2>1. T \in SUBSET Nat /\ T # {}
    BY <1>3
  <2> HIDE DEF T
  <2> QED BY <2>1, LeastNat
<1>5. b \in Nat /\ Cardinality(below(b)) >= k
  BY <1>4
<1>6. b # 0
  <2>0. \A q \in S : ~(q < 0)
    BY <1>0
  <2>1. below(0) = {}
    BY <2>0
  <2>2. Cardinality(below(0)) = 0
    BY <2>1, FS_EmptySet
  <2> QED BY <1>5, <2>2
<1> DEFINE r == b - 1
<1>7. r \in Nat /\ r < b /\ b = r + 1
  BY <1>5, <1>6
<1>8. Cardinality(below(r)) <= k - 1
  <2>1. r \notin T
    BY <1>4, <1>7
  <2> HIDE DEF r, below
  <2> QED BY <1>2, <1>7, <2>1
<1>9. r \in S /\ below(b) = below(r) \cup {r}
  <2>1. ASSUME r \notin S PROVE FALSE
    <3>1. \A q \in S : q < b <=> q < r
      <4>1. \A q \in S : q # r
        BY <2>1
      <4> HIDE DEF r
      <4> QED BY <1>0, <1>7, <4>1
    <3>2. below(b) = below(r)
      BY <3>1
    <3> HIDE DEF r, below
    <3> QED BY <1>2, <1>5, <1>7, <1>8, <3>2
  <2>2. r \in S
    BY <2>1
  <2>3. \A q \in S : q < b <=> (q < r \/ q = r)
    <3> HIDE DEF r
    <3> QED BY <1>0, <1>7
  <2> QED BY <2>2, <2>3
<1>10. Cardinality(below(r)) = k - 1
  <2>1. r \notin below(r)
    OBVIOUS
  <2>2. IsFiniteSet(below(r)) /\ Cardinality(below(r)) \in Nat
    BY <1>2, <1>7
  <2> HIDE DEF r, below
  <2>3. Cardinality(below(b)) = Cardinality(below(r)) + 1
    BY <1>9, <2>1, <2>2, FS_AddElement
  <2> QED BY <1>5, <1>8, <2>2, <2>3
<1>11. Ascending(S)[k] = CHOOSE x \in S : Cardinality(below(x)) = k - 1
  BY DEF Ascending
<1> HIDE DEF r, below
<1>12. Ascending(S)[k] \in S /\ Cardinality(below(Ascending(S)[k])) = k - 1
  BY <1>9, <1>10, <1>11
<1> QED BY <1>12 DEF below

\* A sorted table has every number once: its length is the set's size.
LEMMA AscendingSeq ==
  ASSUME NEW S \in SUBSET (0..127)
  PROVE  Len(Ascending(S)) = Cardinality(S) /\ Cardinality(S) \in 0..128
<1>1. Cardinality(S) \in Nat /\ Cardinality(S) <= 128
  BY NumbersFinite
<1> DEFINE n == Cardinality(S)
           a == Ascending(S)
<1>2. \A k \in 1..n : a[k] \in S
  BY AscendingMember
<1>5. a \in [1..n -> S]
  <2> DEFINE e(k) == CHOOSE r \in S : Cardinality({q \in S : q < r}) = k - 1
  <2>1. a = [k \in 1..n |-> e(k)]
    BY DEF Ascending
  <2> HIDE DEF a, n, e
  <2>2. \A k \in 1..n : a[k] = e(k)
    BY <2>1
  <2> QED BY <1>2, <2>1, <2>2
<1>6. n \in Nat /\ n <= 128
  BY <1>1 DEF n
<1>7. a \in Seq(S) /\ Len(a) = n
  BY <1>5, <1>6
<1>8. Len(a) = n /\ n \in 0..128
  <2>1. n \in 0..128
    BY <1>6
  <2> QED BY <1>7, <2>1
<1> QED BY <1>8 DEF n, a

-----------------------------------------------------------------------------
(* The operands of an instruction under test.                               *)

\* The numbers an operand may have.
Choice(t, f) == RegNumbers(Operand(t, f).kind, Operand(t, f).n)

\* Every operand has one of the generated tables, and at least an element.
LEMMA OperandSizes ==
  ASSUME NEW t, Testable(t), NEW f \in allregs(t)
  PROVE  /\ <<Operand(t, f).kind, Operand(t, f).n>> \in Sizes
         /\ Size(t, f) = <<Operand(t, f).kind, Operand(t, f).n>>
         /\ Count(Operand(t, f)) \in Nat /\ Count(Operand(t, f)) >= 1
         /\ Choice(t, f) \in SUBSET (0..127)
<1>1. <<Operand(t, f).kind, Operand(t, f).n>> \in Sizes
  BY DEF Testable, Size
<1> DEFINE d == Operand(t, f)
<1>2. Count(d) \in Nat /\ Count(d) >= 1
  <2> HIDE DEF d
  <2>1. CASE d.n \in 2..4 /\ Count(d) = d.n * d.n
    BY <2>1
  <2>2. (d.n \in 2..4 /\ Count(d) = d.n * d.n) \/ Count(d) \in 1..4
    BY <1>1, SizeCases DEF d
  <2> QED BY <2>1, <2>2
<1>3. Choice(t, f) \in SUBSET (0..127)
  BY <1>1, NumbersOf DEF Choice
<1> QED BY <1>1, <1>2, <1>3 DEF Size

\* An operand's table has the numbers of its registers in order.
LEMMA SortedNumbers ==
  ASSUME NEW t, Testable(t), NEW f \in allregs(t)
  PROVE  Numbers(t, f) = Ascending(Choice(t, f))
<1> DEFINE k == Operand(t, f).kind
           n == Operand(t, f).n
<1>1. <<k, n>> \in Sizes /\ Size(t, f) = <<k, n>>
  BY OperandSizes
<1>2. rmap[<<k, n>>] = Ascending(RegNumbers(k, n))
  BY <1>1 DEF rmap
<1> HIDE DEF k, n
<1>3. Numbers(t, f) = Ascending(RegNumbers(k, n))
  BY <1>1, <1>2 DEF Numbers
<1> QED BY <1>3 DEF Choice, k, n

\* A loop over an operand's table goes through numbers of its registers.
LEMMA OperandNumbers ==
  ASSUME NEW t, Testable(t), NEW f \in allregs(t)
  PROVE  /\ Len(Numbers(t, f)) \in 0..128
         /\ \A k \in 1..Len(Numbers(t, f)) : Numbers(t, f)[k] \in Choice(t, f)
<1>1. Numbers(t, f) = Ascending(Choice(t, f)) /\ Choice(t, f) \in SUBSET (0..127)
  BY SortedNumbers, OperandSizes
<1> HIDE DEF Choice
<1> QED BY <1>1, AscendingSeq, AscendingMember

\* What Registers says of the operands of a test.
LEMMA OperandRegs ==
  ASSUME NEW t, Testable(t), NEW f \in allregs(t), NEW r \in Choice(t, f)
  PROVE  LET s == Subregs(t, f, r)
             n == Count(Operand(t, f))
         IN /\ s = SubRegs(Operand(t, f).kind, Operand(t, f).n, r)
            /\ DOMAIN s = 0..n - 1
            /\ \A k \in 0..n - 1 : s[k] \in Elements /\ Matrix(s[k]) = Matrix(r)
            /\ \A k, l \in 0..n - 1 : s[k] = s[l] => k = l
<1> DEFINE d == Operand(t, f)
<1>1. <<d.kind, d.n>> \in Sizes /\ Size(t, f) = <<d.kind, d.n>>
  BY OperandSizes
<1>2. r \in RegNumbers(d.kind, d.n)
  BY DEF Choice
<1>3. Subregs(t, f, r) = SubRegs(d.kind, d.n, r)
  <2>1. subreg_map[<<d.kind, d.n>>] = [x \in RegNumbers(d.kind, d.n) |-> SubRegs(d.kind, d.n, x)]
    BY <1>1 DEF subreg_map
  <2> HIDE DEF d
  <2> QED BY <1>1, <1>2, <2>1 DEF Subregs
<1> HIDE DEF d
<1> QED BY <1>1, <1>2, <1>3, Registers DEF d

-----------------------------------------------------------------------------
(* The words of the stub and the nest of the loops.                         *)

\* The operands by their names, and the loops in their order.
LEMMA InputCases ==
  ASSUME NEW t, Testable(t)
  PROVE  \/ Inputs(t) = {} /\ itregs(t) = <<"rd">>
         \/ Inputs(t) = {"rs"} /\ itregs(t) = <<"rs", "rd">>
         \/ Inputs(t) = {"rs", "rt"} /\ itregs(t) = <<"rs", "rt", "rd">>
<1>1. DOMAIN t.shape.in \in {{}, {"rs"}, {"rs", "rt"}}
  BY DEF Testable, Inputs
<1>2. CASE DOMAIN t.shape.in = {}
  BY <1>2 DEF Inputs, itregs
<1>3. CASE DOMAIN t.shape.in = {"rs"}
  BY <1>3 DEF Inputs, itregs
<1>4. CASE DOMAIN t.shape.in = {"rs", "rt"}
  <2>1. {"rs", "rt"} # {} /\ {"rs", "rt"} # {"rs"}
    OBVIOUS
  <2> QED BY <1>4, <2>1 DEF Inputs, itregs
<1> QED BY <1>1, <1>2, <1>3, <1>4

\* The loop nest: every operand once, the output innermost.
LEMMA NestFacts ==
  ASSUME NEW t, Testable(t)
  PROVE  LET s == itregs(t)
             n == Len(s)
         IN /\ n \in 1..3 /\ DOMAIN s = 1..n /\ s[n] = "rd"
            /\ \A j \in 1..n : s[j] \in allregs(t) /\ s[j] \in Fields
            /\ \A j \in 1..n : s[j] = "rd" => j = n
            /\ \A j \in 1..n : j < n => s[j] \in Inputs(t)
            /\ \A j, k \in 1..n : s[j] = s[k] => j = k
            /\ \A f \in allregs(t) : \E j \in 1..n : s[j] = f
            /\ \A f \in Inputs(t) : \E j \in 1..n - 1 : s[j] = f
            /\ "rd" \notin Inputs(t) /\ allregs(t) \subseteq Fields
<1>1. CASE Inputs(t) = {} /\ itregs(t) = <<"rd">>
  BY <1>1 DEF allregs, Fields
<1>2. CASE Inputs(t) = {"rs"} /\ itregs(t) = <<"rs", "rd">>
  BY <1>2 DEF allregs, Fields
<1>3. CASE Inputs(t) = {"rs", "rt"} /\ itregs(t) = <<"rs", "rt", "rd">>
  BY <1>3 DEF allregs, Fields
<1> QED BY <1>1, <1>2, <1>3, InputCases

\* Where the loads and stores of a test lie.
LEMMA SlotFacts ==
  ASSUME NEW t, Testable(t)
  PROVE  LET P == prolsize(t)
             C == Count(t.shape.out)
         IN /\ P \in Nat /\ C \in Nat /\ C >= 1 /\ stubsize(t) = P + C
            /\ P + C + 3 <= JitSlots
            /\ Count(Operand(t, "rd")) = C
            /\ Slots(t, "rd") = P + 1..P + C /\ Base(t, "rd") = P + 1
            /\ \A f \in Inputs(t) : /\ Base(t, f) \in Nat
                                    /\ Base(t, f) + Count(Operand(t, f)) <= P
            /\ \A f \in Inputs(t) : Slots(t, f) \subseteq 0..P - 1
            /\ \A f, g \in Inputs(t) : Slots(t, f) \cap Slots(t, g) # {} => f = g
            /\ \A s \in 0..P - 1 : \E f \in Inputs(t) : s \in Slots(t, f)
<1> DEFINE P == prolsize(t)
           C == Count(t.shape.out)
           N(f) == Count(Operand(t, f))
<1>1. "rd" \in allregs(t) /\ Inputs(t) \subseteq allregs(t)
  BY DEF allregs
<1>2. N("rd") = C
  BY DEF Operand
<1>3. \A f \in allregs(t) : N(f) \in Nat /\ N(f) >= 1
  BY OperandSizes
<1>4. C \in Nat /\ C >= 1
  BY <1>1, <1>2, <1>3
<1>5. stubsize(t) = P + C /\ stubsize(t) + 3 <= JitSlots
  BY DEF stubsize, Testable
<1>6. Base(t, "rs") = 0
  BY DEF Base
<1>7. Base(t, "rt") = Loads(t, "rs")
  BY DEF Base
<1>8. Base(t, "rd") = P + 1
  BY DEF Base
<1>9. \A f : Slots(t, f) = Base(t, f)..Base(t, f) + N(f) - 1
  BY DEF Slots
<1> DEFINE L(f) == Loads(t, f)
<1>10. \A f : L(f) = IF f \in Inputs(t) THEN N(f) ELSE 0
  BY DEF Loads
<1>11. P = L("rs") + L("rt")
  BY DEF prolsize
<1> HIDE DEF P, C, N, L
<1>12. P \in Nat
  BY <1>1, <1>3, <1>10, <1>11
<1>13. Slots(t, "rd") = P + 1..P + C
  BY <1>2, <1>4, <1>8, <1>9, <1>12
<1>14. /\ \A f \in Inputs(t) : Base(t, f) \in Nat /\ Base(t, f) + N(f) <= P
       /\ \A f, g \in Inputs(t) : Slots(t, f) \cap Slots(t, g) # {} => f = g
       /\ \A s \in 0..P - 1 : \E f \in Inputs(t) : s \in Slots(t, f)
  <2>1. CASE Inputs(t) = {}
    <3>1. P = 0
      BY <1>10, <1>11, <2>1
    <3> QED BY <2>1, <3>1
  <2>2. CASE Inputs(t) = {"rs"}
    <3>1. P = N("rs") /\ N("rs") \in Nat /\ Slots(t, "rs") = 0..N("rs") - 1
      BY <1>1, <1>3, <1>6, <1>9, <1>10, <1>11, <2>2
    <3> QED BY <1>6, <2>2, <3>1
  <2>3. CASE Inputs(t) = {"rs", "rt"}
    <3>1. N("rs") \in Nat /\ N("rt") \in Nat /\ L("rs") = N("rs") /\ L("rt") = N("rt")
      BY <1>1, <1>3, <1>10, <2>3
    <3>2. P = N("rs") + N("rt") /\ Base(t, "rt") = N("rs")
      BY <1>7, <1>11, <3>1 DEF L
    <3>3. Slots(t, "rs") = 0..N("rs") - 1 /\ Slots(t, "rt") = N("rs")..N("rs") + N("rt") - 1
      BY <1>6, <1>9, <3>1, <3>2
    <3> QED BY <1>6, <2>3, <3>1, <3>2, <3>3
  <2> QED BY <2>1, <2>2, <2>3, InputCases
<1>15. \A f \in Inputs(t) : Slots(t, f) \subseteq 0..P - 1
  <2> SUFFICES ASSUME NEW f \in Inputs(t), NEW s \in Slots(t, f) PROVE s \in 0..P - 1
    OBVIOUS
  <2>1. N(f) \in Nat /\ Base(t, f) \in Nat /\ Base(t, f) + N(f) <= P
    BY <1>1, <1>3, <1>14
  <2>2. s \in Base(t, f)..Base(t, f) + N(f) - 1
    BY <1>9
  <2> QED BY <1>12, <2>1, <2>2
<1> QED BY <1>2, <1>4, <1>5, <1>8, <1>12, <1>13, <1>14, <1>15 DEF P, C, N

-----------------------------------------------------------------------------
(* The instruction's passes.                                                *)

\* What the pipeline's proofs say of instructions made of passes.
Pipeline == INSTANCE VfpuPipelineProofs WITH
  Regs <- Elements, Insts <- {}, InitFile <- Noise, NoInst <- 0, MaxInsts <- 0,
  file <- Noise, inst <- 0, todo <- {}, issued <- 0

\* Every lane is written in one of the passes.
LEMMA PassFacts ==
  ASSUME NEW t, Testable(t)
  PROVE  LET n == PassCount(t.shape.perf, t.shape.out.n)
             C == Count(t.shape.out)
         IN /\ n \in Nat
            /\ DOMAIN PassOf(t.shape) = 0..C - 1
            /\ \A l \in 0..C - 1 : PassOf(t.shape)[l] \in 0..n - 1
<1> DEFINE n == PassCount(t.shape.perf, t.shape.out.n)
           d == t.shape.out
           C == Count(d)
<1>1. <<d.kind, d.n>> \in Sizes
  BY OperandSizes DEF allregs, Operand
<1>2. d.n \in 1..4 /\ C \in {1, 2, 3, 4, 9, 16}
  <2> HIDE DEF d
  <2> QED BY <1>1, SizeCases DEF d
<1>3. n \in Nat /\ n >= 1
  <2> HIDE DEF d
  <2>1. d.n * d.n \in Nat /\ d.n * d.n >= 1 /\ d.n \in Nat /\ d.n >= 1
    BY <1>2
  <2>2. n \in {d.n * d.n, 2, 1, d.n}
    BY DEF PassCount, d
  <2> QED BY <2>1, <2>2
<1>4. PassOf(t.shape) = [l \in 0..C - 1 |-> (l * n) \div C]
  BY DEF PassOf, Upto
<1> HIDE DEF n, d, C
<1>5. ASSUME NEW l \in 0..C - 1 PROVE (l * n) \div C \in 0..n - 1
  <2> DEFINE m == l * n
  <2>1. m \in Nat /\ m < C * n
    <3>1. l \in Nat /\ C \in Nat /\ l + 1 <= C
      BY <1>2, <1>5
    <3>2. C * n = l * n + (C - l) * n /\ (C - l) * n >= 1 /\ l * n \in Nat
      BY <1>3, <3>1
    <3> QED BY <3>1, <3>2, <1>3
  <2> HIDE DEF m
  <2>2. m \div C \in 0..n - 1
    <3>1. CASE C = 1
      BY <1>3, <2>1, <3>1
    <3>2. CASE C = 2
      BY <1>3, <2>1, <3>2
    <3>3. CASE C = 3
      BY <1>3, <2>1, <3>3
    <3>4. CASE C = 4
      BY <1>3, <2>1, <3>4
    <3>5. CASE C = 9
      BY <1>3, <2>1, <3>5
    <3>6. CASE C = 16
      BY <1>3, <2>1, <3>6
    <3> QED BY <1>2, <3>1, <3>2, <3>3, <3>4, <3>5, <3>6
  <2> QED BY <2>2 DEF m
<1> QED BY <1>3, <1>4, <1>5 DEF n, d, C

\* Registers are chosen for every operand.
Chosen(t, regs) == \A f \in allregs(t) : regs[f] \in Choice(t, f)

\* The instruction under test, with the lists of the test program.
LEMMA DecodedFields ==
  ASSUME NEW t, Testable(t), NEW regs, Chosen(t, regs)
  PROVE  LET i == Decoded(t.op, t.shape, regs)
         IN /\ i.op = t.op /\ i.compat = t.shape.compat /\ i.reads = t.shape.reads
            /\ i.pass = PassOf(t.shape)
            /\ i.dst = Subregs(t, "rd", regs["rd"])
            /\ i.written = i.dst
            /\ DOMAIN i.src = Inputs(t)
            /\ \A o \in Inputs(t) : i.src[o] = Subregs(t, o, regs[o])
<1> DEFINE i == Decoded(t.op, t.shape, regs)
<1>1. /\ i.op = t.op /\ i.compat = t.shape.compat /\ i.reads = t.shape.reads
      /\ i.pass = PassOf(t.shape)
      /\ i.dst = SubRegs(t.shape.out.kind, t.shape.out.n, regs["rd"])
      /\ i.src = [o \in DOMAIN t.shape.in |-> SubRegs(t.shape.in[o].kind, t.shape.in[o].n, regs[o])]
  BY DEF Decoded
<1>8. i.written = i.dst
  BY DEF Decoded, Written, Testable
<1>2. "rd" \in allregs(t) /\ Inputs(t) \subseteq allregs(t) /\ "rd" \notin Inputs(t)
  BY NestFacts DEF allregs
<1>3. Operand(t, "rd") = t.shape.out
  BY DEF Operand
<1>4. \A o \in Inputs(t) : Operand(t, o) = t.shape.in[o]
  BY <1>2 DEF Operand
<1>5. i.dst = Subregs(t, "rd", regs["rd"])
  BY <1>1, <1>2, <1>3, OperandRegs DEF Chosen
<1>6. DOMAIN i.src = Inputs(t)
  BY <1>1 DEF Inputs
<1>7. ASSUME NEW o \in Inputs(t) PROVE i.src[o] = Subregs(t, o, regs[o])
  <2>1. Subregs(t, o, regs[o]) = SubRegs(Operand(t, o).kind, Operand(t, o).n, regs[o])
    BY <1>2, OperandRegs DEF Chosen
  <2>2. i.src[o] = SubRegs(t.shape.in[o].kind, t.shape.in[o].n, regs[o])
    BY <1>1 DEF Inputs
  <2> QED BY <1>4, <2>1, <2>2
<1> HIDE DEF i
<1> QED BY <1>1, <1>5, <1>6, <1>7, <1>8 DEF i

\* An instruction under test is one the pipeline's proofs are about.
LEMMA DecodedWellFormed ==
  ASSUME NEW t, Testable(t), NEW regs, Chosen(t, regs)
  PROVE  INST!WellFormed(Decoded(t.op, t.shape, regs))
<1> DEFINE i == Decoded(t.op, t.shape, regs)
           C == Count(t.shape.out)
           n == PassCount(t.shape.perf, t.shape.out.n)
<1>1. "rd" \in allregs(t) /\ Inputs(t) \subseteq allregs(t) /\ Operand(t, "rd") = t.shape.out
  BY DEF allregs, Operand
<1>2. C \in Nat /\ C >= 1
  BY SlotFacts
<1>3. /\ i.compat = t.shape.compat /\ i.reads = t.shape.reads /\ i.pass = PassOf(t.shape)
      /\ i.dst = Subregs(t, "rd", regs["rd"]) /\ DOMAIN i.src = Inputs(t)
      /\ \A o \in Inputs(t) : i.src[o] = Subregs(t, o, regs[o])
  BY DecodedFields
<1>4. /\ DOMAIN i.dst = 0..C - 1
      /\ \A l \in 0..C - 1 : i.dst[l] \in Elements
      /\ \A l, m \in 0..C - 1 : i.dst[l] = i.dst[m] => l = m
  BY <1>1, <1>3, OperandRegs DEF Chosen
<1>5. \A o \in Inputs(t) : /\ DOMAIN i.src[o] = 0..Count(Operand(t, o)) - 1
                           /\ \A k \in DOMAIN i.src[o] : i.src[o][k] \in Elements
  <2> SUFFICES ASSUME NEW o \in Inputs(t)
               PROVE  /\ DOMAIN i.src[o] = 0..Count(Operand(t, o)) - 1
                      /\ \A k \in DOMAIN i.src[o] : i.src[o][k] \in Elements
    OBVIOUS
  <2>1. o \in allregs(t) /\ regs[o] \in Choice(t, o) /\ i.src[o] = Subregs(t, o, regs[o])
    BY <1>1, <1>3 DEF Chosen
  <2> DEFINE s == Subregs(t, o, regs[o])
             N == Count(Operand(t, o))
  <2>2. DOMAIN s = 0..N - 1 /\ \A k \in 0..N - 1 : s[k] \in Elements
    BY <2>1, OperandRegs
  <2> HIDE DEF i, s, N
  <2>3. i.src[o] = s
    BY <2>1 DEF s
  <2> QED BY <2>2, <2>3 DEF N
<1>6. \A l \in 0..C - 1 : i.pass[l] \in 0..n - 1 /\ i.pass[l] \in Nat
  BY <1>3, PassFacts
<1>7. /\ i.compat \in {"any", "partial-overlap", "no-overlap"}
      /\ \A l \in 0..C - 1 : \A p \in i.reads[l] :
           p[1] \in Inputs(t) /\ p[2] \in 0..Count(Operand(t, p[1])) - 1
      /\ i.compat = "any" => n = 1 \/ \A l \in 0..C - 1 : i.reads[l] = {}
      /\ i.compat = "partial-overlap" =>
           \A l \in 0..C - 1 : \A p \in i.reads[l] : Count(Operand(t, p[1])) = C => p[2] = l
  BY <1>3 DEF Testable, Upto
<1> HIDE DEF i, C, n
<1>8. INST!Lanes(i) = 0..C - 1 /\ INST!Operands(i) = Inputs(t)
  BY <1>3, <1>4 DEF INST!Lanes, INST!Operands
<1>9. n = 1 => INST!SinglePass(i)
  BY <1>6, <1>8 DEF INST!SinglePass
<1>10. i.compat = "partial-overlap" => INST!LaneLocal(i)
  <2> SUFFICES ASSUME i.compat = "partial-overlap", NEW l \in 0..C - 1, NEW p \in i.reads[l],
                      DOMAIN i.src[p[1]] = 0..C - 1
               PROVE  p[2] = l
    BY <1>8 DEF INST!LaneLocal
  <2> DEFINE N == Count(Operand(t, p[1]))
  <2>1. p[1] \in Inputs(t) /\ 0..N - 1 = 0..C - 1
    BY <1>5, <1>7
  <2>2. N \in Nat /\ N >= 1
    BY <1>1, <2>1, OperandSizes
  <2> HIDE DEF N
  <2>3. N = C
    BY <1>2, <2>1, <2>2
  <2> QED BY <1>7, <2>3 DEF N
<1>11. \A l \in 0..C - 1 : \A p \in i.reads[l] :
         p[1] \in Inputs(t) /\ p[2] \in DOMAIN i.src[p[1]] /\ i.src[p[1]][p[2]] \in Elements
  BY <1>5, <1>7
<1>12. INST!Lanes(i) # {}
  BY <1>2, <1>8
<1> QED BY <1>4, <1>6, <1>7, <1>8, <1>9, <1>10, <1>11, <1>12 DEF INST!WellFormed, i

\* The two instances of the instruction module are the same.
LEMMA SameInst ==
  /\ \A i : INST!WellFormed(i) = Pipeline!WellFormed(i) /\ INST!Legal(i) = Pipeline!Legal(i)
  /\ \A i, L, f : INST!WriteLanes(i, L, f) = Pipeline!WriteLanes(i, L, f)
  /\ \A i, n, f : INST!ExecutePass(i, n, f) = Pipeline!ExecutePass(i, n, f)
  /\ \A i : INST!Lanes(i) = Pipeline!Lanes(i)
  /\ \A i : INST!Faithful(i) = Pipeline!Faithful(i)
  /\ \A f : INST!IsFile(f) = Pipeline!IsFile(f)
BY DEF INST!WellFormed, Pipeline!WellFormed, INST!Legal, Pipeline!Legal, INST!WriteLanes,
       Pipeline!WriteLanes, INST!ExecutePass, Pipeline!ExecutePass, INST!Lanes, Pipeline!Lanes,
       INST!IsFile, Pipeline!IsFile, INST!Result, Pipeline!Result, INST!Operands,
       Pipeline!Operands, INST!Elems, Pipeline!Elems, INST!SinglePass, Pipeline!SinglePass,
       INST!LaneLocal, Pipeline!LaneLocal, INST!Write, Pipeline!Write, INST!Faithful,
       Pipeline!Faithful

\* A legal instruction, pass by pass, does what it does at once.
LEMMA PassesExecute ==
  ASSUME NEW t, Testable(t), NEW regs, Chosen(t, regs), NEW file, INST!IsFile(file),
         INST!Legal(Decoded(t.op, t.shape, regs))
  PROVE  RunPasses(t, regs, file) = INST!Execute(Decoded(t.op, t.shape, regs), file)
<1> DEFINE i       == Decoded(t.op, t.shape, regs)
           passes  == PassCount(t.shape.perf, t.shape.out.n)
           left(n) == n..passes - 1
           part(n) == INST!WriteLanes(i, {l \in INST!Lanes(i) : i.pass[l] \notin left(n)}, file)
           IsRun(g) == g = [n \in 0..passes |-> IF n = 0 THEN file
                                                ELSE INST!ExecutePass(i, n - 1, g[n - 1])]
<1>1. INST!WellFormed(i) /\ INST!Legal(i) /\ INST!Faithful(i)
  BY DecodedWellFormed, DecodedFields DEF INST!Faithful
<1>2. passes \in Nat /\ \A l \in INST!Lanes(i) : i.pass[l] \in 0..passes - 1
  <2>1. INST!Lanes(i) = 0..Count(t.shape.out) - 1 /\ i.pass = PassOf(t.shape)
    <3>1. i.pass = PassOf(t.shape) /\ i.dst = Subregs(t, "rd", regs["rd"])
      BY DecodedFields
    <3>2. "rd" \in allregs(t) /\ Operand(t, "rd") = t.shape.out
      BY DEF allregs, Operand
    <3> HIDE DEF i
    <3>3. DOMAIN i.dst = 0..Count(t.shape.out) - 1
      BY <3>1, <3>2, OperandRegs DEF Chosen
    <3> QED BY <3>1, <3>3 DEF INST!Lanes
  <2> QED BY <2>1, PassFacts
<1>3. RunPasses(t, regs, file) = (CHOOSE g : IsRun(g))[passes]
  BY DEF RunPasses
<1> HIDE DEF i, passes
<1>4. part(0) = file
  <2>1. {l \in INST!Lanes(i) : i.pass[l] \notin left(0)} = {}
    BY <1>2
  <2>2. INST!WriteLanes(i, {}, file) = [x \in Elements |-> file[x]]
    BY DEF INST!WriteLanes, INST!Write
  <2> QED BY <2>1, <2>2 DEF INST!IsFile
<1>5. ASSUME NEW n \in 1..passes PROVE INST!ExecutePass(i, n - 1, part(n - 1)) = part(n)
  <2>1. n - 1 \in left(n - 1) /\ left(n) = left(n - 1) \ {n - 1}
    BY <1>2
  <2> DEFINE S == left(n - 1)
             m == n - 1
  <2>2. part(n) = INST!WriteLanes(i, {l \in INST!Lanes(i) : i.pass[l] \notin S \ {m}}, file)
    BY <2>1
  <2>3. part(n - 1) = INST!WriteLanes(i, {l \in INST!Lanes(i) : i.pass[l] \notin S}, file)
    OBVIOUS
  <2>4. m \in S
    BY <2>1
  <2> HIDE DEF S, m, part
  <2>5. INST!ExecutePass(i, m, INST!WriteLanes(i, {l \in INST!Lanes(i) : i.pass[l] \notin S}, file))
          = INST!WriteLanes(i, {l \in INST!Lanes(i) : i.pass[l] \notin S \ {m}}, file)
    <3>1. Pipeline!WellFormed(i) /\ Pipeline!Legal(i) /\ Pipeline!Faithful(i)
      BY <1>1, SameInst
    <3>2. Pipeline!ExecutePass(i, m, Pipeline!WriteLanes(i, {l \in Pipeline!Lanes(i) : i.pass[l] \notin S}, file))
            = Pipeline!WriteLanes(i, {l \in Pipeline!Lanes(i) : i.pass[l] \notin S \ {m}}, file)
      <4>1. Pipeline!IsFile(Noise)
        BY DEF Pipeline!IsFile, Noise
      <4> QED BY <2>4, <3>1, <4>1, Pipeline!PassComposes
    <3> QED BY <3>2, SameInst
  <2> QED BY <2>2, <2>3, <2>5 DEF m
<1>6. IsRun([n \in 0..passes |-> part(n)])
  <2> DEFINE g == [n \in 0..passes |-> part(n)]
  <2> SUFFICES ASSUME NEW n \in 0..passes
               PROVE  part(n) = IF n = 0 THEN file ELSE INST!ExecutePass(i, n - 1, g[n - 1])
    <3> HIDE DEF part
    <3> QED OBVIOUS
  <2>1. CASE n = 0
    BY <1>4, <2>1
  <2>2. CASE n # 0
    <3>1. n \in 1..passes /\ n - 1 \in 0..passes
      BY <1>2, <2>2
    <3>2. g[n - 1] = part(n - 1)
      BY <3>1
    <3> HIDE DEF g, part
    <3> QED BY <1>5, <2>2, <3>1, <3>2
  <2> QED BY <2>1, <2>2
<1>7. ASSUME NEW g, IsRun(g) PROVE g[passes] = part(passes)
  <2> DEFINE T == {n \in Nat : n <= passes => g[n] = part(n)}
  <2> HIDE DEF part
  <2>1. g[0] = file
    BY <1>2, <1>7
  <2>2. \A n \in 1..passes : g[n] = INST!ExecutePass(i, n - 1, g[n - 1])
    BY <1>2, <1>7
  <2> HIDE DEF IsRun
  <2>3. 0 \in T
    BY <1>4, <2>1
  <2>4. ASSUME NEW n \in Nat, n \in T PROVE n + 1 \in T
    <3>1. CASE n + 1 <= passes
      <4>1. n + 1 \in 1..passes /\ (n + 1) - 1 = n /\ n <= passes
        BY <1>2, <3>1
      <4>2. g[n] = part(n)
        BY <2>4, <4>1
      <4>3. g[n + 1] = INST!ExecutePass(i, n, g[n])
        BY <2>2, <4>1
      <4>4. INST!ExecutePass(i, n, part(n)) = part(n + 1)
        BY <1>5, <4>1
      <4> QED BY <4>2, <4>3, <4>4
    <3> QED BY <3>1
  <2>5. Nat \subseteq T
    <3> HIDE DEF T
    <3> QED BY <2>3, <2>4, NatInd
  <2> QED BY <1>2, <2>5
<1>8. (CHOOSE g : IsRun(g))[passes] = part(passes)
  <2> HIDE DEF IsRun, part
  <2> QED BY <1>6, <1>7
<1>9. part(passes) = INST!Execute(i, file)
  <2>1. {l \in INST!Lanes(i) : i.pass[l] \notin left(passes)} = INST!Lanes(i)
    BY <1>2
  <2> QED BY <2>1 DEF INST!Execute
<1> QED BY <1>3, <1>8, <1>9 DEF i

-----------------------------------------------------------------------------
(* The run of a stub, one word after the other.                             *)

\* A state of the stub's run, and what each kind of word does to it.
Running(file, o) == [file |-> file, out |-> o, returned |-> FALSE]
Ended(file, o)   == [file |-> file, out |-> o, returned |-> TRUE]

\* A file or an output array with one value changed.
Put(g, x, v) == [g EXCEPT ![x] = v]

\* The words of a stub.
LoadWord(f, x, k) == [op |-> "lv.s", reg |-> x, arg |-> f, offset |-> k]
StoreWord(x, k)   == [op |-> "sv.s", reg |-> x, arg |-> "rd", offset |-> k]
Instruction(regs) == [op |-> "vfpu", regs |-> regs]
Return            == [op |-> "jr"]

\* The effect of a lv.s.
LEMMA ExecuteLoad ==
  ASSUME NEW t, NEW rnd, NEW file, NEW o, NEW f, NEW x, NEW k
  PROVE  Execute(Running(file, o), LoadWord(f, x, k), t, rnd)
           = Running(Put(file, x, Input(rnd, f, k)), o)
BY DEF Execute, Running, Ended, LoadWord, Put

\* The effect of a sv.s.
LEMMA ExecuteStore ==
  ASSUME NEW t, NEW rnd, NEW file, NEW o, NEW x, NEW k
  PROVE  Execute(Running(file, o), StoreWord(x, k), t, rnd)
           = Running(file, Put(o, k, file[x]))
BY DEF Execute, Running, Ended, StoreWord, Put

\* The effect of the instruction under test.
LEMMA ExecuteInstruction ==
  ASSUME NEW t, NEW rnd, NEW file, NEW o, NEW regs
  PROVE  Execute(Running(file, o), Instruction(regs), t, rnd)
           = Running(RunPasses(t, regs, file), o)
BY DEF Execute, Running, Ended, Instruction

\* The effect of the jr.
LEMMA ExecuteReturn ==
  ASSUME NEW t, NEW rnd, NEW file, NEW o
  PROVE  Execute(Running(file, o), Return, t, rnd) = Ended(file, o)
BY DEF Execute, Running, Ended, Return

\* Nothing is executed after the jr.
LEMMA ExecuteEnded ==
  ASSUME NEW t, NEW rnd, NEW file, NEW o, NEW w
  PROVE  Execute(Ended(file, o), w, t, rnd) = Ended(file, o)
BY DEF Execute, Ended

\* Induction up to a bound.
LEMMA BoundedInd ==
  ASSUME NEW N \in Nat, NEW S, 0 \in S, \A n \in 0..N - 1 : n \in S => n + 1 \in S
  PROVE  \A n \in 0..N : n \in S
<1> DEFINE T == {n \in Nat : n <= N => n \in S}
<1>1. 0 \in T
  OBVIOUS
<1>2. ASSUME NEW n \in Nat, n \in T PROVE n + 1 \in T
  <2>1. CASE n + 1 <= N
    <3>1. n \in 0..N - 1 /\ n <= N
      BY <2>1
    <3>2. n + 1 \in S
      BY <1>2, <3>1
    <3> QED BY <3>2
  <2> QED BY <2>1
<1>3. Nat \subseteq T
  <2> HIDE DEF T
  <2> QED BY <1>1, <1>2, NatInd
<1> QED BY <1>3

\* The run is a sequence of states.
IsTrace(a, code, t, rnd, o) ==
  /\ a[0] = Running(Noise, o)
  /\ \A n \in 0..JitSlots - 1 : a[n + 1] = Execute(a[n], code[n], t, rnd)
  /\ Run(code, t, rnd, o) = a[JitSlots].out

\* A run is a trace: the states after each word of the buffer.
LEMMA RunSteps ==
  ASSUME NEW code, NEW t, NEW rnd, NEW o
  PROVE  \E a : IsTrace(a, code, t, rnd, o)
<1>0. JitSlots \in Nat
  BY TestsAssumption
<1> DEFINE IsRun(g, m) == g = [n \in 0..m |-> IF n = 0 THEN Running(Noise, o)
                                              ELSE Execute(g[n - 1], code[n - 1], t, rnd)]
           T == {m \in Nat : \E g : IsRun(g, m)}
<1>1. 0 \in T
  <2> DEFINE g == [n \in 0..0 |-> Running(Noise, o)]
  <2>1. IsRun(g, 0)
    <3>1. \A n \in 0..0 : n = 0
      OBVIOUS
    <3> QED BY <3>1
  <2> HIDE DEF g, IsRun
  <2> QED BY <2>1
<1>2. ASSUME NEW m \in Nat, m \in T PROVE m + 1 \in T
  <2>1. PICK g : IsRun(g, m)
    BY <1>2
  <2> DEFINE h == [n \in 0..m + 1 |-> IF n <= m THEN g[n] ELSE Execute(g[m], code[m], t, rnd)]
  <2>2. ASSUME NEW n \in 0..m + 1
        PROVE  h[n] = IF n = 0 THEN Running(Noise, o) ELSE Execute(h[n - 1], code[n - 1], t, rnd)
    <3>1. CASE n = 0
      <4>1. h[n] = g[0] /\ g[0] = Running(Noise, o)
        BY <2>1, <3>1
      <4> HIDE DEF h
      <4> QED BY <3>1, <4>1
    <3>2. CASE n \in 1..m
      <4>1. n - 1 \in 0..m + 1 /\ n - 1 <= m /\ n <= m /\ n \in 0..m /\ n # 0
        BY <3>2
      <4>2. h[n] = g[n] /\ h[n - 1] = g[n - 1]
        BY <4>1
      <4>3. g[n] = Execute(g[n - 1], code[n - 1], t, rnd)
        BY <2>1, <4>1
      <4> HIDE DEF h
      <4> QED BY <4>1, <4>2, <4>3
    <3>3. CASE n = m + 1
      <4>1. n # 0 /\ ~(n <= m) /\ n - 1 = m /\ m \in 0..m + 1 /\ m <= m
        BY <3>3
      <4>2. h[n] = Execute(g[m], code[m], t, rnd) /\ h[m] = g[m]
        BY <4>1
      <4> HIDE DEF h
      <4> QED BY <4>1, <4>2
    <3>4. n = 0 \/ n \in 1..m \/ n = m + 1
      <4> HIDE DEF h, T
      <4> QED OBVIOUS
    <3> QED BY <3>1, <3>2, <3>3, <3>4
  <2>3. IsRun(h, m + 1)
    <3>1. h = [n \in 0..m + 1 |-> h[n]]
      OBVIOUS
    <3> HIDE DEF h
    <3> QED BY <2>2, <3>1
  <2> HIDE DEF h, IsRun
  <2> QED BY <2>3
<1>3. \E g : IsRun(g, JitSlots)
  <2> HIDE DEF IsRun
  <2>1. \A m \in Nat : m \in T => m + 1 \in T
    BY <1>2
  <2>2. Nat \subseteq T
    <3> HIDE DEF T
    <3> QED BY <1>1, <2>1, NatInd
  <2> QED BY <1>0, <2>2
<1>4. Run(code, t, rnd, o) = (CHOOSE g : IsRun(g, JitSlots))[JitSlots].out
  BY DEF Run, Running, Ended
<1>5. PICK a : a = (CHOOSE g : IsRun(g, JitSlots))
  OBVIOUS
<1>6. IsRun(a, JitSlots)
  <2> HIDE DEF IsRun
  <2> QED BY <1>3, <1>5
<1>7. a[0] = Running(Noise, o)
  BY <1>0, <1>6
<1>8. ASSUME NEW n \in 0..JitSlots - 1 PROVE a[n + 1] = Execute(a[n], code[n], t, rnd)
  <2>1. n + 1 \in 0..JitSlots /\ n + 1 # 0 /\ (n + 1) - 1 = n
    BY <1>0
  <2> QED BY <1>6, <2>1
<1> QED BY <1>4, <1>5, <1>7, <1>8 DEF IsTrace

-----------------------------------------------------------------------------
(* A complete stub computes what the instruction is meant to.               *)

\* The word that loads or stores an element of an operand.
OperandWord(t, f, r, s) ==
  LET k == s - Base(t, f)
      x == Subregs(t, f, r)[k]
  IN IF f = "rd" THEN StoreWord(x, k) ELSE LoadWord(f, x, k)

\* A complete stub for some registers.
IsStub(code, t, regs) ==
  /\ \A f \in allregs(t) : \A s \in Slots(t, f) : code[s] = OperandWord(t, f, regs[f], s)
  /\ code[prolsize(t)] = Instruction(regs)
  /\ code[stubsize(t) + 1] = Return

\* The inputs do not overlap each other.
Apart(t, regs) ==
  \A f, g \in Inputs(t) : f # g => ~Collide(Subregs(t, f, regs[f]), Subregs(t, g, regs[g]))

\* The first n words of the loads have put the inputs where they belong.
Loaded(t, regs, rnd, file, n) ==
  \A f \in Inputs(t) : \A k \in Upto(Count(Operand(t, f))) :
    Base(t, f) + k < n => file[Subregs(t, f, regs[f])[k]] = Input(rnd, f, k)

\* A load puts one more element of an input where it belongs.
LEMMA LoadsLoad ==
  ASSUME NEW t, Testable(t), NEW regs, Chosen(t, regs), Apart(t, regs), NEW rnd,
         NEW file, INST!IsFile(file), NEW n \in 0..prolsize(t) - 1, Loaded(t, regs, rnd, file, n),
         NEW f \in Inputs(t), n \in Slots(t, f)
  PROVE  LET new == Put(file, Subregs(t, f, regs[f])[n - Base(t, f)], Input(rnd, f, n - Base(t, f)))
         IN INST!IsFile(new) /\ Loaded(t, regs, rnd, new, n + 1)
<1> DEFINE k   == n - Base(t, f)
           x   == Subregs(t, f, regs[f])[k]
           v   == Input(rnd, f, k)
           new == Put(file, x, v)
<1>1. DOMAIN file = Elements
  BY DEF INST!IsFile
<1>2. Inputs(t) \subseteq allregs(t)
  BY DEF allregs
<1>3. \A g \in Inputs(t) : /\ Base(t, g) \in Nat /\ Count(Operand(t, g)) \in Nat
                           /\ Slots(t, g) = Base(t, g)..Base(t, g) + Count(Operand(t, g)) - 1
  BY <1>2, SlotFacts, OperandSizes DEF Slots
<1>4. k \in 0..Count(Operand(t, f)) - 1 /\ n = Base(t, f) + k
  BY <1>3
<1>5. x \in Elements
  BY <1>2, <1>4, OperandRegs DEF Chosen
<1>6. INST!IsFile(new)
  BY <1>1 DEF INST!IsFile, Put
<1>7. ASSUME NEW g \in Inputs(t), NEW j \in 0..Count(Operand(t, g)) - 1, Base(t, g) + j < n + 1
      PROVE  new[Subregs(t, g, regs[g])[j]] = Input(rnd, g, j)
  <2> DEFINE y == Subregs(t, g, regs[g])[j]
  <2>1. y \in Elements
    BY <1>2, OperandRegs DEF Chosen
  <2>2. CASE Base(t, g) + j = n
    <3>1. n \in Slots(t, g)
      BY <1>3, <2>2
    <3>2. g = f
      BY <3>1, SlotFacts
    <3>3. j = k
      BY <1>3, <1>4, <2>2, <3>2
    <3> QED BY <1>1, <1>5, <3>2, <3>3 DEF Put
  <2>3. CASE Base(t, g) + j # n
    <3>1. Base(t, g) + j < n
      BY <1>3, <1>7, <2>3
    <3>2. file[y] = Input(rnd, g, j)
      BY <3>1 DEF Loaded, Upto
    <3>3. y # x
      <4>1. CASE g = f
        <5>1. j # k
          BY <1>4, <2>3, <4>1
        <5> HIDE DEF k
        <5>2. \A a, b \in 0..Count(Operand(t, f)) - 1 :
                Subregs(t, f, regs[f])[a] = Subregs(t, f, regs[f])[b] => a = b
          BY <1>2, OperandRegs DEF Chosen
        <5> QED BY <1>4, <4>1, <5>1, <5>2
      <4>2. CASE g # f
        <5> DEFINE s == Subregs(t, f, regs[f])
                   u == Subregs(t, g, regs[g])
        <5>1. ~Collide(s, u)
          BY <4>2 DEF Apart
        <5>2. DOMAIN s = 0..Count(Operand(t, f)) - 1 /\ DOMAIN u = 0..Count(Operand(t, g)) - 1
          BY <1>2, OperandRegs DEF Chosen
        <5> HIDE DEF s, u, k
        <5>3. s[k] # u[j]
          BY <1>4, <5>1, <5>2 DEF Collide, Mask
        <5> QED BY <5>3 DEF s, u
      <4> QED BY <4>1, <4>2
    <3> HIDE DEF x, y, v
    <3>4. new[y] = file[y]
      BY <1>1, <2>1, <3>3 DEF Put
    <3> QED BY <3>2, <3>4 DEF y
  <2> QED BY <2>2, <2>3
<1>8. Loaded(t, regs, rnd, new, n + 1)
  BY <1>7 DEF Loaded, Upto
<1> QED BY <1>6, <1>8

\* The output array has a word for each element of the output.
IsOutput(t, o) == o = [k \in Upto(Count(t.shape.out)) |-> o[k]]

\* What a stub leaves in the output array: the elements of the output
\* register after its instruction ran on a file with the inputs in place.
LEMMA StubStores ==
  ASSUME NEW t, Testable(t), NEW regs, Chosen(t, regs), Apart(t, regs), NEW rnd, NEW code,
         IsStub(code, t, regs),
         NEW o, IsOutput(t, o)
  PROVE  \E file : /\ INST!IsFile(file) /\ Loaded(t, regs, rnd, file, prolsize(t))
                   /\ Run(code, t, rnd, o)
                        = [k \in Upto(Count(t.shape.out)) |->
                             RunPasses(t, regs, file)[Subregs(t, "rd", regs["rd"])[k]]]
<1> DEFINE P == prolsize(t)
           C == Count(t.shape.out)
           dst == Subregs(t, "rd", regs["rd"])
<1>0. PICK a : IsTrace(a, code, t, rnd, o)
  BY RunSteps, Zenon
<1>1. /\ a[0] = Running(Noise, o)
      /\ \A n \in 0..JitSlots - 1 : a[n + 1] = Execute(a[n], code[n], t, rnd)
      /\ Run(code, t, rnd, o) = a[JitSlots].out
  BY <1>0 DEF IsTrace
<1>2. /\ JitSlots \in Nat
      /\ P \in Nat /\ C \in Nat /\ C >= 1 /\ stubsize(t) = P + C /\ P + C + 3 <= JitSlots
      /\ Slots(t, "rd") = P + 1..P + C /\ Base(t, "rd") = P + 1
      /\ \A s \in 0..P - 1 : \E f \in Inputs(t) : s \in Slots(t, f)
  BY SlotFacts, TestsAssumption
<1>3. Inputs(t) \subseteq allregs(t) /\ "rd" \in allregs(t) /\ "rd" \notin Inputs(t)
  BY NestFacts DEF allregs
<1>4. /\ \A f \in allregs(t) : \A s \in Slots(t, f) : code[s] = OperandWord(t, f, regs[f], s)
      /\ code[P] = Instruction(regs) /\ code[P + C + 1] = Return
  BY <1>2 DEF IsStub
<1> DEFINE Good(n, file) == INST!IsFile(file) /\ Loaded(t, regs, rnd, file, n)
           Q(n) == \E file : a[n] = Running(file, o) /\ Good(n, file)
           T    == {n \in 0..P : Q(n)}
<1>5. Q(0)
  <2>1. INST!IsFile(Noise)
    BY DEF INST!IsFile, Noise
  <2>2. Loaded(t, regs, rnd, Noise, 0)
    <3>1. \A f \in Inputs(t) : Base(t, f) \in Nat
      BY SlotFacts
    <3> QED BY <3>1 DEF Loaded, Upto
  <2> QED BY <1>1, <2>1, <2>2
<1>6. ASSUME NEW n \in 0..P - 1, Q(n) PROVE Q(n + 1)
  <2>1. n \in 0..JitSlots - 1
    BY <1>2
  <2>2. PICK file : a[n] = Running(file, o) /\ Good(n, file)
    BY <1>6
  <2>3. PICK f \in Inputs(t) : n \in Slots(t, f)
    BY <1>2
  <2> DEFINE x   == Subregs(t, f, regs[f])[n - Base(t, f)]
             k   == n - Base(t, f)
             new == Put(file, x, Input(rnd, f, k))
  <2>4. code[n] = LoadWord(f, x, k)
    BY <1>3, <1>4, <2>3 DEF OperandWord
  <2>5. a[n + 1] = Execute(Running(file, o), LoadWord(f, x, k), t, rnd)
    <3> HIDE DEF x, k
    <3> QED BY <1>1, <2>1, <2>2, <2>4
  <2>6. Good(n + 1, new)
    BY <2>2, <2>3, LoadsLoad
  <2> HIDE DEF x, k, Good
  <2>7. a[n + 1] = Running(new, o)
    BY <2>5, ExecuteLoad
  <2> HIDE DEF new
  <2> QED BY <2>6, <2>7
<1>7. PICK file : a[P] = Running(file, o) /\ Good(P, file)
  <2> HIDE DEF Q
  <2>1. 0 \in T /\ \A n \in 0..P - 1 : n \in T => n + 1 \in T
    <3> HIDE DEF P
    <3> QED BY <1>2, <1>5, <1>6
  <2>2. \A n \in 0..P : n \in T
    <3> HIDE DEF T, P
    <3> QED BY <1>2, <2>1, BoundedInd
  <2>3. Q(P)
    <3> HIDE DEF P
    <3> QED BY <1>2, <2>2
  <2> QED BY <2>3 DEF Q
<1> DEFINE after == RunPasses(t, regs, file)
           part(n) == [k \in Upto(C) |-> IF k < n THEN after[dst[k]] ELSE o[k]]
<1>8. a[P + 1] = Running(after, o)
  <2>1. P \in 0..JitSlots - 1
    BY <1>2
  <2>2. a[P + 1] = Execute(a[P], code[P], t, rnd)
    BY <1>1, <2>1
  <2>3. a[P + 1] = Execute(Running(file, o), Instruction(regs), t, rnd)
    BY <1>4, <1>7, <2>2
  <2> HIDE DEF P
  <2> QED BY <2>3, ExecuteInstruction
<1> DEFINE U == {n \in 0..C : a[P + 1 + n] = Running(after, part(n))}
<1>9. a[P + 1 + 0] = Running(after, part(0))
  <2>1. part(0) = o
    <3>1. \A k \in Upto(C) : ~(k < 0)
      BY DEF Upto
    <3>2. part(0) = [k \in Upto(C) |-> o[k]]
      BY <3>1
    <3> QED BY <3>2 DEF IsOutput
  <2>2. P + 1 + 0 = P + 1
    BY <1>2
  <2> HIDE DEF part, after, P
  <2> QED BY <1>8, <2>1, <2>2
<1>10. ASSUME NEW n \in 0..C - 1, a[P + 1 + n] = Running(after, part(n))
       PROVE  a[P + 1 + (n + 1)] = Running(after, part(n + 1))
  <2> DEFINE s == P + 1 + n
  <2>1. /\ s \in 0..JitSlots - 1 /\ s + 1 = P + 1 + (n + 1) /\ s - (P + 1) = n
        /\ s \in P + 1..P + C
    BY <1>2
  <2>2. code[s] = StoreWord(dst[n], n)
    <3>1. s \in Slots(t, "rd") /\ s - Base(t, "rd") = n
      BY <1>2, <2>1
    <3> HIDE DEF s
    <3> QED BY <1>3, <1>4, <3>1 DEF OperandWord
  <2>3. part(n + 1) = Put(part(n), n, after[dst[n]])
    <3>1. \A k \in Upto(C) : k < n + 1 <=> (k < n \/ k = n)
      BY DEF Upto
    <3>2. \A k \in Upto(C) : k = n => ~(k < n)
      BY DEF Upto
    <3> HIDE DEF after, dst, C
    <3> QED BY <3>1, <3>2 DEF Put
  <2>4. a[s] = Running(after, part(n))
    BY <1>10
  <2> HIDE DEF after, dst, part, s
  <2>5. a[s + 1] = Execute(a[s], code[s], t, rnd)
    BY <1>1, <2>1
  <2>6. a[s + 1] = Execute(Running(after, part(n)), StoreWord(dst[n], n), t, rnd)
    BY <2>2, <2>4, <2>5
  <2>7. a[s + 1] = Running(after, Put(part(n), n, after[dst[n]]))
    BY <2>6, ExecuteStore
  <2> QED BY <2>1, <2>3, <2>7
<1>11. a[P + 1 + C] = Running(after, part(C))
  <2> HIDE DEF part, after
  <2>1. 0 \in U /\ \A n \in 0..C - 1 : n \in U => n + 1 \in U
    <3>1. 0 \in 0..C /\ \A n \in 0..C - 1 : n \in 0..C /\ n + 1 \in 0..C
      <4> HIDE DEF C
      <4> QED BY <1>2
    <3> HIDE DEF P, C
    <3> QED BY <1>9, <1>10, <3>1
  <2>2. \A n \in 0..C : n \in U
    <3> HIDE DEF U, C
    <3> QED BY <1>2, <2>1, BoundedInd
  <2>3. C \in U
    <3> HIDE DEF U, C
    <3> QED BY <1>2, <2>2
  <2> HIDE DEF P, C
  <2> QED BY <2>3
<1>12. part(C) = [k \in Upto(C) |-> after[dst[k]]]
  <2>1. \A k \in Upto(C) : k < C
    BY <1>2 DEF Upto
  <2> QED BY <2>1
<1> DEFINE end  == P + C + 2
           rest == JitSlots - end
           last == Ended(after, part(C))
           V    == {n \in 0..rest : a[end + n] = last}
<1>13. a[end + 0] = last
  <2> DEFINE s == P + C + 1
  <2>1. s \in 0..JitSlots - 1 /\ s + 1 = end + 0 /\ s = P + 1 + C
    BY <1>2
  <2>2. code[s] = Return
    BY <1>4
  <2> HIDE DEF part, after, s, end
  <2>3. a[s + 1] = Execute(a[s], code[s], t, rnd)
    BY <1>1, <2>1
  <2>4. a[s + 1] = Execute(Running(after, part(C)), Return, t, rnd)
    BY <1>11, <2>1, <2>2, <2>3
  <2>5. a[s + 1] = Ended(after, part(C))
    BY <2>4, ExecuteReturn
  <2> QED BY <2>1, <2>5
<1>14. ASSUME NEW n \in 0..rest - 1, a[end + n] = last PROVE a[end + (n + 1)] = last
  <2>1. end + n \in 0..JitSlots - 1 /\ (end + n) + 1 = end + (n + 1)
    BY <1>2
  <2> HIDE DEF part, after, end
  <2>2. a[(end + n) + 1] = Execute(last, code[end + n], t, rnd)
    <3> HIDE DEF last
    <3> QED BY <1>1, <1>14, <2>1
  <2>3. a[(end + n) + 1] = last
    <3>1. Execute(last, code[end + n], t, rnd) = last
      BY ExecuteEnded DEF last
    <3> QED BY <2>2, <3>1, Zenon
  <2> HIDE DEF last
  <2> QED BY <2>1, <2>3
<1>15. a[JitSlots] = last
  <2>1. rest \in Nat /\ end + rest = JitSlots
    BY <1>2
  <2> HIDE DEF last, end, rest
  <2>2. 0 \in V /\ \A n \in 0..rest - 1 : n \in V => n + 1 \in V
    BY <1>13, <1>14, <2>1
  <2>3. \A n \in 0..rest : n \in V
    <3> HIDE DEF V
    <3> QED BY <2>1, <2>2, BoundedInd
  <2> QED BY <2>1, <2>3
<1>16. Run(code, t, rnd, o) = part(C)
  <2> HIDE DEF part, after
  <2> QED BY <1>1, <1>15 DEF Running, Ended
<1> HIDE DEF part
<1> QED BY <1>7, <1>12, <1>16

\* What the instruction computes of a round's inputs.
Ideal(t, rnd) ==
  [k \in Upto(Count(t.shape.out)) |->
     Apply(t.op, k, [p \in t.shape.reads[k] |-> Input(rnd, p[1], p[2])])]

\* The stub of a legal choice computes that, whatever noise is in the file.
LEMMA LegalStub ==
  ASSUME NEW t, Testable(t), NEW regs, Chosen(t, regs), Apart(t, regs), NEW rnd, NEW code,
         IsStub(code, t, regs), NEW o, IsOutput(t, o), INST!Legal(Decoded(t.op, t.shape, regs))
  PROVE  Run(code, t, rnd, o) = Ideal(t, rnd)
<1> DEFINE i == Decoded(t.op, t.shape, regs)
           C == Count(t.shape.out)
           dst == Subregs(t, "rd", regs["rd"])
<1>1. PICK file : /\ INST!IsFile(file) /\ Loaded(t, regs, rnd, file, prolsize(t))
                  /\ Run(code, t, rnd, o) = [k \in Upto(C) |-> RunPasses(t, regs, file)[dst[k]]]
  BY StubStores
<1>2. RunPasses(t, regs, file) = INST!Execute(i, file)
  BY <1>1, PassesExecute
<1>3. INST!WellFormed(i)
  BY DecodedWellFormed
<1>4. /\ i.op = t.op /\ i.reads = t.shape.reads /\ i.dst = dst
      /\ \A f \in Inputs(t) : i.src[f] = Subregs(t, f, regs[f])
  BY DecodedFields
<1>5. INST!Lanes(i) = Upto(C)
  <2>1. DOMAIN dst = 0..C - 1
    <3>1. "rd" \in allregs(t) /\ Operand(t, "rd") = t.shape.out
      BY DEF allregs, Operand
    <3> QED BY <3>1, OperandRegs DEF Chosen
  <2> HIDE DEF i, dst
  <2> QED BY <1>4, <2>1 DEF INST!Lanes, Upto
<1> HIDE DEF i, dst
<1>6. ASSUME NEW k \in Upto(C)
      PROVE  INST!Execute(i, file)[dst[k]] = Apply(t.op, k, [p \in t.shape.reads[k] |-> Input(rnd, p[1], p[2])])
  <2>1. INST!Execute(i, file)[dst[k]] = INST!Result(i, k, file)
    <3>1. Pipeline!IsFile(Noise)
      BY DEF Pipeline!IsFile, Noise
    <3>2. Pipeline!WellFormed(i) /\ k \in Pipeline!Lanes(i) /\ Pipeline!Lanes(i) \in SUBSET Pipeline!Lanes(i)
      BY <1>3, <1>5, SameInst
    <3>3. Pipeline!WriteLanes(i, Pipeline!Lanes(i), file)[i.dst[k]] = Pipeline!Result(i, k, file)
      BY <3>1, <3>2, Pipeline!WrittenLane
    <3>4. INST!Execute(i, file) = Pipeline!WriteLanes(i, Pipeline!Lanes(i), file)
      BY SameInst DEF INST!Execute
    <3>5. INST!Result(i, k, file) = Pipeline!Result(i, k, file)
      BY DEF INST!Result, Pipeline!Result
    <3> QED BY <1>4, <3>3, <3>4, <3>5
  <2>2. ASSUME NEW p \in t.shape.reads[k]
        PROVE  file[i.src[p[1]][p[2]]] = Input(rnd, p[1], p[2])
    <3> DEFINE f == p[1]
    <3>1. f \in Inputs(t) /\ p[2] \in Upto(Count(Operand(t, f)))
      BY <2>2 DEF Testable
    <3>2. Base(t, f) + p[2] < prolsize(t)
      <4>1. Base(t, f) \in Nat /\ Base(t, f) + Count(Operand(t, f)) <= prolsize(t) /\ prolsize(t) \in Nat
        BY <3>1, SlotFacts
      <4>2. Count(Operand(t, f)) \in Nat
        BY <3>1, OperandSizes DEF allregs
      <4> HIDE DEF f
      <4> QED BY <3>1, <4>1, <4>2 DEF Upto
    <3>3. file[Subregs(t, f, regs[f])[p[2]]] = Input(rnd, f, p[2])
      BY <1>1, <3>1, <3>2 DEF Loaded
    <3> QED BY <1>4, <3>1, <3>3
  <2>3. [p \in t.shape.reads[k] |-> file[i.src[p[1]][p[2]]]]
          = [p \in t.shape.reads[k] |-> Input(rnd, p[1], p[2])]
    BY <2>2
  <2>4. INST!Result(i, k, file) = Apply(i.op, k, [p \in i.reads[k] |-> file[i.src[p[1]][p[2]]]])
    BY DEF INST!Result
  <2> QED BY <1>4, <2>1, <2>3, <2>4
<1>7. Run(code, t, rnd, o) = [k \in Upto(C) |-> INST!Execute(i, file)[dst[k]]]
  BY <1>1, <1>2
<1> HIDE DEF C
<1>8. Run(code, t, rnd, o)
        = [k \in Upto(C) |-> Apply(t.op, k, [p \in t.shape.reads[k] |-> Input(rnd, p[1], p[2])])]
  BY <1>6, <1>7
<1> QED BY <1>8 DEF Ideal, C

\* Whatever the choice, the output array keeps its form.
LEMMA StubOutput ==
  ASSUME NEW t, Testable(t), NEW regs, Chosen(t, regs), Apart(t, regs), NEW rnd, NEW code,
         IsStub(code, t, regs), NEW o, IsOutput(t, o)
  PROVE  IsOutput(t, Run(code, t, rnd, o))
<1>1. PICK file : Run(code, t, rnd, o) = [k \in Upto(Count(t.shape.out)) |->
                    RunPasses(t, regs, file)[Subregs(t, "rd", regs["rd"])[k]]]
  BY StubStores
<1> QED BY <1>1 DEF IsOutput

\* A patched word is the operand's; the others stay.
LEMMA Patched ==
  ASSUME NEW t, Testable(t), NEW F \in SUBSET allregs(t), NEW buf, NEW regs
  PROVE  /\ DOMAIN Patch(buf, t, F, regs) = DOMAIN buf
         /\ \A f \in F : \A s \in Slots(t, f) :
              s \in DOMAIN buf => Patch(buf, t, F, regs)[s] = OperandWord(t, f, regs[f], s)
         /\ \A s \in DOMAIN buf : (\A f \in F : s \notin Slots(t, f)) =>
              Patch(buf, t, F, regs)[s] = buf[s]
<1> DEFINE word(s, f) == [op |-> IF f = "rd" THEN "sv.s" ELSE "lv.s",
                          reg |-> Subregs(t, f, regs[f])[s - Base(t, f)],
                          arg |-> f, offset |-> s - Base(t, f)]
           owner(s) == CHOOSE f \in F : s \in Slots(t, f)
           new == Patch(buf, t, F, regs)
<1>1. new = [s \in DOMAIN buf |-> IF \E f \in F : s \in Slots(t, f) THEN word(s, owner(s)) ELSE buf[s]]
  BY DEF Patch
<1>2. ASSUME NEW s, NEW f PROVE word(s, f) = OperandWord(t, f, regs[f], s)
  <2>1. CASE f = "rd"
    BY <2>1 DEF OperandWord, StoreWord
  <2>2. CASE f # "rd"
    BY <2>2 DEF OperandWord, LoadWord
  <2> QED BY <2>1, <2>2
<1>3. ASSUME NEW f \in F, NEW s \in Slots(t, f) PROVE owner(s) = f
  <2>1. PICK g : g = owner(s)
    OBVIOUS
  <2>2. g \in F /\ s \in Slots(t, g)
    BY <2>1
  <2>3. g \in Inputs(t) \cup {"rd"} /\ f \in Inputs(t) \cup {"rd"}
    BY <2>2 DEF allregs
  <2> HIDE DEF owner
  <2>4. CASE g \in Inputs(t) /\ f \in Inputs(t)
    BY <2>1, <2>2, <2>4, SlotFacts
  <2>5. CASE g = "rd" /\ f = "rd"
    BY <2>1, <2>5
  <2> DEFINE P == prolsize(t)
             C == Count(t.shape.out)
  <2>6. /\ P \in Nat /\ C \in Nat /\ Slots(t, "rd") = P + 1..P + C
        /\ \A h \in Inputs(t) : Slots(t, h) \subseteq 0..P - 1
    BY SlotFacts
  <2> HIDE DEF P, C
  <2>7. CASE g = "rd" /\ f \in Inputs(t)
    <3>1. s \in P + 1..P + C /\ s \in 0..P - 1
      BY <2>2, <2>6, <2>7
    <3> QED BY <2>6, <3>1
  <2>8. CASE f = "rd" /\ g \in Inputs(t)
    <3>1. s \in P + 1..P + C /\ s \in 0..P - 1
      BY <2>2, <2>6, <2>8
    <3> QED BY <2>6, <3>1
  <2> QED BY <2>3, <2>4, <2>5, <2>7, <2>8
<1> HIDE DEF word, owner, new
<1>4. DOMAIN new = DOMAIN buf
  BY <1>1
<1>5. ASSUME NEW f \in F, NEW s \in Slots(t, f), s \in DOMAIN buf
      PROVE  new[s] = OperandWord(t, f, regs[f], s)
  BY <1>1, <1>2, <1>3, <1>5
<1>6. ASSUME NEW s \in DOMAIN buf, \A f \in F : s \notin Slots(t, f)
      PROVE  new[s] = buf[s]
  BY <1>1, <1>6
<1> QED BY <1>4, <1>5, <1>6 DEF new

\* Where the words of a stub are.
LEMMA StubWords ==
  ASSUME NEW t, Testable(t)
  PROVE  /\ prolsize(t) \in Words /\ stubsize(t) + 1 \in Words /\ stubsize(t) + 2 \in Words
         /\ \A f \in allregs(t) : /\ Slots(t, f) \subseteq Words
                                  /\ prolsize(t) \notin Slots(t, f)
                                  /\ stubsize(t) + 1 \notin Slots(t, f)
         /\ stubsize(t) + 1 # prolsize(t)
<1> DEFINE P == prolsize(t)
           C == Count(t.shape.out)
<1>1. /\ P \in Nat /\ C \in Nat /\ C >= 1 /\ stubsize(t) = P + C /\ P + C + 3 <= JitSlots
      /\ Slots(t, "rd") = P + 1..P + C
      /\ \A f \in Inputs(t) : Slots(t, f) \subseteq 0..P - 1
  BY SlotFacts
<1>2. JitSlots \in Nat
  BY TestsAssumption
<1> HIDE DEF P, C
<1>3. P \in Words /\ P + C + 1 \in Words /\ P + C + 2 \in Words /\ P + C + 1 # P
  BY <1>1, <1>2 DEF Words
<1>4. ASSUME NEW f \in allregs(t)
      PROVE  Slots(t, f) \subseteq Words /\ P \notin Slots(t, f) /\ P + C + 1 \notin Slots(t, f)
  <2>1. CASE f = "rd"
    <3>1. P + 1..P + C \subseteq Words /\ P \notin P + 1..P + C /\ P + C + 1 \notin P + 1..P + C
      BY <1>1, <1>2 DEF Words
    <3> QED BY <1>1, <2>1, <3>1
  <2>2. CASE f \in Inputs(t)
    <3>1. 0..P - 1 \subseteq Words /\ P \notin 0..P - 1 /\ P + C + 1 \notin 0..P - 1
      BY <1>1, <1>2 DEF Words
    <3> QED BY <1>1, <2>2, <3>1
  <2> QED BY <2>1, <2>2 DEF allregs
<1> QED BY <1>1, <1>3, <1>4 DEF P, C

-----------------------------------------------------------------------------
(* Overlaps.                                                                *)

\* Registers in different matrices do not meet.
LEMMA MatricesApart ==
  ASSUME NEW t, Testable(t), NEW f \in allregs(t), NEW g \in allregs(t),
         NEW r \in Choice(t, f), NEW q \in Choice(t, g), Matrix(r) # Matrix(q)
  PROVE  ~Collide(Subregs(t, f, r), Subregs(t, g, q))
<1> DEFINE s == Subregs(t, f, r)
           u == Subregs(t, g, q)
           N(h) == Count(Operand(t, h))
<1>1. DOMAIN s = 0..N(f) - 1 /\ \A k \in 0..N(f) - 1 : Matrix(s[k]) = Matrix(r)
  BY OperandRegs
<1>2. DOMAIN u = 0..N(g) - 1 /\ \A k \in 0..N(g) - 1 : Matrix(u[k]) = Matrix(q)
  BY OperandRegs
<1> HIDE DEF s, u, N
<1>3. ~Collide(s, u)
  BY <1>1, <1>2 DEF Collide, Mask
<1> QED BY <1>3 DEF s, u

\* What the generated test calls no collision and a compatible one.
NoCollision(t, regs) ==
  \A r \in Inputs(t) : ~Collide(Subregs(t, r, regs[r]), Subregs(t, "rd", regs["rd"]))

\* A choice without a collision is legal for every class.
LEMMA NoCollisionLegal ==
  ASSUME NEW t, Testable(t), NEW regs, Chosen(t, regs), NoCollision(t, regs)
  PROVE  INST!Legal(Decoded(t.op, t.shape, regs))
<1> DEFINE i == Decoded(t.op, t.shape, regs)
<1>1. /\ i.dst = Subregs(t, "rd", regs["rd"]) /\ DOMAIN i.src = Inputs(t)
      /\ \A o \in Inputs(t) : i.src[o] = Subregs(t, o, regs[o])
  BY DecodedFields
<1> HIDE DEF i
<1>2. \A o \in INST!Operands(i) : INST!Elems(i.dst) \cap INST!Elems(i.src[o]) = {}
  BY <1>1 DEF NoCollision, Collide, Mask, INST!Elems, INST!Operands
<1> QED BY <1>2 DEF INST!Legal, i

-----------------------------------------------------------------------------
(* The inductive invariant of the test program.                             *)

\* The loops around the current one have their operand's number in the
\* instruction word and its loads in the stub.
Settled(f) ==
  /\ basew[f] \in Choice(test, f) /\ at[f] < Len(Numbers(test, f))
  /\ \A s \in Slots(test, f) : instb[s] = OperandWord(test, f, basew[f], s)

\* A block that was entered has its return behind the stub.
TestInv ==
  phase # "start" => entry <= Len(Tests) /\ instb[stubsize(test) + 1] = Return

\* In the loops, the reference is what the instruction computes, and the
\* inputs the outer loops chose do not overlap.
LoopInv ==
  phase = "loops" =>
    /\ level <= Len(nest) /\ at[loop] <= Len(Numbers(test, loop))
    /\ \A j \in 1..level - 1 : Settled(nest[j])
    /\ level = Len(nest) => Apart(test, basew)
    /\ IsOutput(test, out) /\ expected = Ideal(test, round)

\* What the test program keeps of an instruction.
Counters == [test_cnt : Nat, test_errs : Nat, nonoverlap_errors : Nat,
             compat_overlap_errors : Nat, incompat_overlap_errors : Nat,
             reg_pairs : Seq([Fields -> 0..127])]

\* The counters are typed, and so is the invariant that contains them.
InfoType == info \in [1..Len(Tests) -> Counters]

HarnessInv == TypeOK /\ InfoType /\ TestInv /\ LoopInv

\* Before the end there is a test, and it is a testable one.
LEMMA TestUnderTest ==
  ASSUME entry \in 1..Len(Tests) + 1, entry <= Len(Tests)
  PROVE  entry \in 1..Len(Tests) /\ Testable(test)
<1>1. entry \in 1..Len(Tests)
  BY TestsAssumption
<1> QED BY <1>1, TestsAssumption DEF test

\* The invariant holds when the program starts.
LEMMA InitHarness == Init => HarnessInv
<1> SUFFICES ASSUME Init PROVE HarnessInv
  OBVIOUS
<1>1. Len(Tests) \in Nat /\ JitSlots \in Nat
  BY TestsAssumption
<1>2. TypeOK
  <2>1. /\ entry \in 1..Len(Tests) + 1 /\ round \in Nat /\ level \in 1..3
        /\ phase \in {"start", "reference", "loops"} /\ phase # "loops"
    BY <1>1 DEF Init
  <2>2. at \in [Fields -> 0..128] /\ basew \in [Fields -> 0..127]
    BY DEF Init
  <2>3. DOMAIN instb = Words /\ DOMAIN icache = Words
    BY DEF Init
  <2>4. \A e \in 1..Len(Tests) : info[e].test_cnt \in Nat
    BY DEF Init, NoCounts
  <2> QED BY <2>1, <2>2, <2>3, <2>4 DEF TypeOK
<1>3. InfoType
  <2>1. NoCounts \in Counters
    BY DEF NoCounts, Counters
  <2> QED BY <2>1 DEF Init, InfoType
<1>4. TestInv /\ LoopInv
  BY DEF Init, TestInv, LoopInv
<1> QED BY <1>2, <1>3, <1>4 DEF HarnessInv

\* The counters' types include what TypeOK asks of them.
LEMMA CountsTyped ==
  ASSUME InfoType
  PROVE  \A e \in 1..Len(Tests) : info[e].test_cnt \in Nat
BY DEF InfoType, Counters

\* Entering an instruction's block leaves a return behind the stub.
LEMMA StartTestHarness ==
  ASSUME HarnessInv, StartTest
  PROVE  HarnessInv'
<1>1. entry \in 1..Len(Tests) /\ Testable(test)
  BY TestUnderTest DEF HarnessInv, TypeOK, StartTest
<1>2. /\ entry' = entry /\ phase' = "reference" /\ info' = info /\ round' = round /\ level' = level
      /\ at' = at /\ icache' = icache /\ basew' = [f \in Fields |-> 0]
  BY DEF StartTest
<1>3. instb' = [instb EXCEPT ![stubsize(test) + 1] = Return, ![stubsize(test) + 2] = [op |-> "nop"]]
  BY DEF StartTest, Return
<1>4. DOMAIN instb = Words /\ DOMAIN icache = Words /\ at \in [Fields -> 0..128]
      /\ round \in Nat /\ level \in 1..3
  BY DEF HarnessInv, TypeOK
<1>5. InfoType'
  BY <1>2 DEF HarnessInv, InfoType
<1>6. TypeOK'
  <2>1. \A e \in 1..Len(Tests) : info'[e].test_cnt \in Nat
    BY <1>2, CountsTyped DEF HarnessInv
  <2>2. basew' \in [Fields -> 0..127]
    BY <1>2
  <2>3. DOMAIN instb' = Words
    BY <1>3, <1>4
  <2>4. entry' \in 1..Len(Tests) + 1
    BY <1>2 DEF HarnessInv, TypeOK
  <2> QED BY <1>2, <1>4, <2>1, <2>2, <2>3, <2>4 DEF TypeOK
<1>7. TestInv'
  <2>1. stubsize(test) + 1 \in Words /\ stubsize(test) + 1 # stubsize(test) + 2
    <3>1. stubsize(test) \in Nat
      BY <1>1, SlotFacts
    <3> QED BY <1>1, <3>1, StubWords
  <2>2. instb'[stubsize(test) + 1] = Return
    BY <1>3, <1>4, <2>1
  <2>3. test' = test
    BY <1>2 DEF test
  <2>4. entry' <= Len(Tests)
    BY <1>2 DEF StartTest
  <2> QED BY <2>2, <2>3, <2>4 DEF TestInv
<1>8. LoopInv'
  BY <1>2 DEF LoopInv
<1> QED BY <1>5, <1>6, <1>7, <1>8 DEF HarnessInv

\* The reference stub: complete, on registers that do not meet.
LEMMA ReferenceStub ==
  ASSUME NEW b, DOMAIN b = Words, NEW regs, Testable(test), b[stubsize(test) + 1] = Return
  PROVE  LET code == [Patch(b, test, allregs(test), regs) EXCEPT ![prolsize(test)] = Instruction(regs)]
         IN DOMAIN code = Words /\ IsStub(code, test, regs)
<1> DEFINE p    == Patch(b, test, allregs(test), regs)
           code == [p EXCEPT ![prolsize(test)] = Instruction(regs)]
<1>1. /\ DOMAIN p = Words
      /\ \A f \in allregs(test) : \A s \in Slots(test, f) : s \in Words => p[s] = OperandWord(test, f, regs[f], s)
      /\ \A s \in Words : (\A f \in allregs(test) : s \notin Slots(test, f)) => p[s] = b[s]
  BY Patched
<1>2. /\ prolsize(test) \in Words /\ stubsize(test) + 1 \in Words
      /\ \A f \in allregs(test) : /\ Slots(test, f) \subseteq Words
                                  /\ prolsize(test) \notin Slots(test, f)
                                  /\ stubsize(test) + 1 \notin Slots(test, f)
      /\ stubsize(test) + 1 # prolsize(test)
  BY StubWords
<1> HIDE DEF p
<1>3. /\ DOMAIN code = Words /\ code[prolsize(test)] = Instruction(regs)
      /\ \A s \in Words : s # prolsize(test) => code[s] = p[s]
  BY <1>1, <1>2
<1> HIDE DEF code
<1>4. code[stubsize(test) + 1] = Return
  BY <1>1, <1>2, <1>3
<1>5. \A f \in allregs(test) : \A s \in Slots(test, f) : code[s] = OperandWord(test, f, regs[f], s)
  BY <1>1, <1>2, <1>3
<1>6. IsStub(code, test, regs)
  BY <1>3, <1>4, <1>5 DEF IsStub
<1> QED BY <1>3, <1>6 DEF code, p

\* The reference run's registers are legal and do not meet.
LEMMA ReferenceChoice ==
  ASSUME Testable(test)
  PROVE  /\ Chosen(test, ReferenceRegs) /\ Apart(test, ReferenceRegs)
         /\ NoCollision(test, ReferenceRegs)
<1> DEFINE rr == ReferenceRegs
           index(f) == CHOOSE k \in DOMAIN nest : nest[k] = f
<1>1. /\ Len(nest) \in 1..3 /\ DOMAIN nest = 1..Len(nest)
      /\ \A f \in allregs(test) : \E k \in 1..Len(nest) : nest[k] = f
      /\ allregs(test) \subseteq Fields
      /\ "rd" \notin Inputs(test)
  BY NestFacts DEF nest
<1>2. ASSUME NEW f \in allregs(test)
      PROVE  index(f) \in 1..3 /\ nest[index(f)] = f /\ rr[f] = ReferenceNumber(index(f))
  <2>1. \E k \in DOMAIN nest : nest[k] = f
    BY <1>1
  <2>2. index(f) \in DOMAIN nest /\ nest[index(f)] = f
    BY <2>1
  <2>3. index(f) \in 1..3
    BY <1>1, <2>2
  <2>4. rr[f] = ReferenceNumber(index(f))
    BY <1>1, <2>1 DEF ReferenceRegs
  <2> QED BY <2>2, <2>3, <2>4
<1> HIDE DEF rr, index
<1>3. NumMatrices >= 3
  BY TestsAssumption
<1>4. ASSUME NEW f \in allregs(test)
      PROVE  rr[f] \in Choice(test, f) /\ Matrix(rr[f]) = index(f) - 1
  BY <1>2, <1>3, OperandSizes, ReferenceNumbers DEF Choice
<1>5. ASSUME NEW f \in allregs(test), NEW g \in allregs(test), f # g
      PROVE  ~Collide(Subregs(test, f, rr[f]), Subregs(test, g, rr[g]))
  <2>1. index(f) # index(g) /\ index(f) \in 1..3 /\ index(g) \in 1..3
    BY <1>2, <1>5
  <2>2. Matrix(rr[f]) # Matrix(rr[g])
    BY <1>4, <2>1
  <2> QED BY <1>4, <2>2, MatricesApart
<1>6. Chosen(test, rr)
  BY <1>4 DEF Chosen
<1>7. Apart(test, rr) /\ NoCollision(test, rr)
  BY <1>1, <1>5 DEF Apart, NoCollision, allregs
<1> QED BY <1>6, <1>7 DEF rr

\* The reference run leaves what the instruction computes.
LEMMA ReferenceRunHarness ==
  ASSUME HarnessInv, ReferenceRun
  PROVE  HarnessInv'
<1>1. entry \in 1..Len(Tests) /\ Testable(test) /\ instb[stubsize(test) + 1] = Return
  BY TestUnderTest DEF HarnessInv, TypeOK, TestInv, ReferenceRun
<1>2. /\ DOMAIN instb = Words /\ at \in [Fields -> 0..128] /\ basew \in [Fields -> 0..127]
      /\ round \in Nat
  BY DEF HarnessInv, TypeOK
<1>3. /\ entry' = entry /\ phase' = "loops" /\ level' = 1 /\ info' = info /\ round' = round
      /\ basew' = basew /\ at' = [at EXCEPT ![nest[1]] = 0] /\ instb' = ReferenceCode
      /\ icache' = instb' /\ expected' = out'
      /\ out' = Run(icache', test, round, CC(test, "unset"))
  BY DEF ReferenceRun
<1>4. test' = test /\ nest' = nest
  BY <1>3 DEF test, nest
<1> DEFINE code == ReferenceCode
<1>5. DOMAIN code = Words /\ IsStub(code, test, ReferenceRegs)
  BY <1>1, <1>2, ReferenceStub DEF ReferenceCode, Instruction
<1>6. /\ Chosen(test, ReferenceRegs) /\ Apart(test, ReferenceRegs)
      /\ INST!Legal(Decoded(test.op, test.shape, ReferenceRegs))
  BY <1>1, ReferenceChoice, NoCollisionLegal
<1>7. IsOutput(test, CC(test, "unset"))
  <2>1. Count(Operand(test, "rd")) = Count(test.shape.out)
    BY <1>1, SlotFacts
  <2> QED BY <2>1 DEF IsOutput, CC, Upto
<1>8. Run(code, test, round, CC(test, "unset")) = Ideal(test, round)
  <2> HIDE DEF code
  <2> QED BY <1>1, <1>5, <1>6, <1>7, LegalStub
<1>9. out' = Ideal(test, round) /\ expected' = Ideal(test, round)
  BY <1>3, <1>8
<1> HIDE DEF code
<1>10. /\ Len(nest) \in 1..3 /\ nest[1] \in allregs(test) /\ nest[1] \in Fields
       /\ Len(nest) = 1 => Inputs(test) = {}
  BY <1>1, NestFacts DEF nest
<1>11. at' \in [Fields -> 0..128] /\ at'[nest[1]] = 0
  BY <1>2, <1>3, <1>10
<1>12. InfoType'
  BY <1>3 DEF HarnessInv, InfoType
<1>13. TypeOK'
  <2>1. \A e \in 1..Len(Tests) : info'[e].test_cnt \in Nat
    BY <1>3, CountsTyped DEF HarnessInv
  <2>2. DOMAIN instb' = Words /\ DOMAIN icache' = Words
    BY <1>3, <1>5 DEF code
  <2>3. entry' \in 1..Len(Tests) + 1
    BY <1>3 DEF HarnessInv, TypeOK
  <2>4. DOMAIN out' = DOMAIN expected'
    BY <1>9
  <2>5. level' \in 1..3 /\ phase' \in {"start", "reference", "loops"} /\ round' \in Nat
        /\ basew' \in [Fields -> 0..127]
    BY <1>2, <1>3
  <2> QED BY <1>11, <2>1, <2>2, <2>3, <2>4, <2>5 DEF TypeOK
<1>14. TestInv'
  <2>1. entry' <= Len(Tests)
    BY <1>1, <1>3, TestsAssumption
  <2>2. instb'[stubsize(test) + 1] = Return
    BY <1>3, <1>5 DEF code, IsStub
  <2> QED BY <1>4, <2>1, <2>2 DEF TestInv
<1>15. LoopInv'
  <2>1. level' <= Len(nest)
    BY <1>3, <1>10
  <2>2. at'[nest[level']] <= Len(Numbers(test, nest[level']))
    <3>1. Len(Numbers(test, nest[1])) \in 0..128
      BY <1>1, <1>10, OperandNumbers
    <3> QED BY <1>3, <1>11, <3>1
  <2>3. \A j \in 1..level' - 1 : FALSE
    BY <1>3
  <2>4. level' = Len(nest) => Apart(test, basew')
    BY <1>3, <1>10 DEF Apart
  <2>5. IsOutput(test, out') /\ expected' = Ideal(test, round')
    BY <1>3, <1>9 DEF IsOutput, Ideal
  <2> QED BY <1>4, <2>1, <2>2, <2>3, <2>4, <2>5 DEF LoopInv, loop
<1> QED BY <1>12, <1>13, <1>14, <1>15 DEF HarnessInv

\* Leaving a loop keeps the loops around it.
LEMMA LeaveLoopHarness ==
  ASSUME HarnessInv, LeaveLoop
  PROVE  HarnessInv'
<1>1. phase = "loops" /\ entry \in 1..Len(Tests) /\ Testable(test)
  BY TestUnderTest DEF HarnessInv, TypeOK, TestInv, LeaveLoop, InLoop
<1>2. /\ basew' = basew /\ instb' = instb /\ icache' = icache /\ out' = out
      /\ expected' = expected /\ info' = info
  BY DEF LeaveLoop
<1>3. /\ entry \in 1..Len(Tests) + 1 /\ round \in Nat /\ level \in 1..3
      /\ at \in [Fields -> 0..128] /\ basew \in [Fields -> 0..127]
      /\ DOMAIN instb = Words /\ DOMAIN icache = Words /\ DOMAIN out = DOMAIN expected
  BY <1>1 DEF HarnessInv, TypeOK
<1>4. InfoType'
  BY <1>2 DEF HarnessInv, InfoType
<1>5. \A e \in 1..Len(Tests) : info'[e].test_cnt \in Nat
  BY <1>2, CountsTyped DEF HarnessInv
<1>6. Len(Tests) \in Nat
  BY TestsAssumption
<1>7. CASE level > 1
  <2>1. /\ level' = level - 1 /\ at' = [at EXCEPT ![nest[level - 1]] = @ + 1]
        /\ entry' = entry /\ round' = round /\ phase' = phase
    BY <1>7 DEF LeaveLoop
  <2>2. test' = test /\ nest' = nest
    BY <2>1 DEF test, nest
  <2>3. /\ level <= Len(nest) /\ \A j \in 1..level - 1 : Settled(nest[j])
        /\ IsOutput(test, out) /\ expected = Ideal(test, round)
    BY <1>1 DEF HarnessInv, LoopInv
  <2>4. /\ Len(nest) \in 1..3 /\ \A j \in 1..Len(nest) : nest[j] \in allregs(test) /\ nest[j] \in Fields
        /\ \A j, k \in 1..Len(nest) : nest[j] = nest[k] => j = k
    BY <1>1, NestFacts DEF nest
  <2> DEFINE f == nest[level - 1]
  <2>5. level - 1 \in 1..level - 1 /\ level - 1 \in 1..Len(nest)
    BY <1>3, <1>7, <2>3, <2>4
  <2>6. f \in Fields /\ f \in allregs(test) /\ Settled(f)
    BY <2>3, <2>4, <2>5
  <2>7. at[f] + 1 <= Len(Numbers(test, f)) /\ at[f] + 1 \in 0..128
    <3>1. Len(Numbers(test, f)) \in 0..128 /\ at[f] \in 0..128
      BY <1>1, <1>3, <2>6, OperandNumbers
    <3>2. at[f] < Len(Numbers(test, f))
      BY <2>6 DEF Settled
    <3> DEFINE n == Len(Numbers(test, f))
               a == at[f]
    <3>3. n \in 0..128 /\ a \in 0..128 /\ a < n
      BY <3>1, <3>2
    <3> HIDE DEF n, a
    <3>4. a + 1 <= n /\ a + 1 \in 0..128
      BY <3>3
    <3> QED BY <3>4 DEF n, a
  <2> HIDE DEF f
  <2>8. at' = [at EXCEPT ![f] = at[f] + 1]
    BY <2>1 DEF f
  <2>9. at' \in [Fields -> 0..128] /\ at'[f] = at[f] + 1 /\ \A g \in Fields : g # f => at'[g] = at[g]
    BY <1>3, <2>6, <2>7, <2>8
  <2>10. TypeOK'
    <3>1. level' \in 1..3
      BY <1>3, <1>7, <2>1
    <3> QED BY <1>2, <1>3, <1>5, <2>1, <2>9, <3>1 DEF TypeOK, HarnessInv
  <2>11. TestInv'
    BY <1>2, <2>1, <2>2 DEF TestInv, HarnessInv
  <2>12. LoopInv'
    <3>1. level' <= Len(nest)
      BY <1>3, <2>1, <2>3, <2>4
    <3>2. at'[nest[level']] <= Len(Numbers(test, nest[level']))
      BY <2>1, <2>7, <2>9 DEF f
    <3>3. ASSUME NEW j \in 1..level' - 1
          PROVE  /\ basew'[nest[j]] \in Choice(test, nest[j])
                 /\ at'[nest[j]] < Len(Numbers(test, nest[j]))
                 /\ \A s \in Slots(test, nest[j]) :
                      instb'[s] = OperandWord(test, nest[j], basew'[nest[j]], s)
      <4>1. j \in 1..level - 1 /\ j \in 1..Len(nest) /\ j # level - 1
        BY <1>3, <2>1, <2>3, <2>4, <3>3
      <4>2. nest[j] # f /\ nest[j] \in Fields
        BY <2>4, <2>5, <4>1 DEF f
      <4>3. at'[nest[j]] = at[nest[j]]
        BY <2>9, <4>2
      <4>4. Settled(nest[j])
        BY <2>3, <4>1
      <4> QED BY <1>2, <4>3, <4>4 DEF Settled
    <3>4. level' # Len(nest)
      BY <1>3, <2>1, <2>3, <2>4
    <3>5. IsOutput(test, out') /\ expected' = Ideal(test, round')
      BY <1>2, <2>1, <2>3
    <3> QED BY <2>2, <3>1, <3>2, <3>3, <3>4, <3>5 DEF LoopInv, loop, Settled
  <2> QED BY <1>4, <2>10, <2>11, <2>12 DEF HarnessInv
<1>8. CASE ~(level > 1)
  <2>1. level' = level /\ at' = at
    BY <1>8 DEF LeaveLoop
  <2>2. CASE round < test.rounds
    <3>1. round' = round + 1 /\ phase' = "reference" /\ entry' = entry
      BY <1>8, <2>2 DEF LeaveLoop
    <3>2. round' \in Nat
      BY <1>3, <3>1
    <3>3. TypeOK'
      BY <1>2, <1>3, <1>5, <2>1, <3>1, <3>2 DEF TypeOK
    <3>4. TestInv'
      BY <1>1, <1>2, <3>1 DEF TestInv, HarnessInv, test
    <3>5. LoopInv'
      BY <3>1 DEF LoopInv
    <3> QED BY <1>4, <3>3, <3>4, <3>5 DEF HarnessInv
  <2>3. CASE ~(round < test.rounds)
    <3>1. round' = 1 /\ phase' = "start" /\ entry' = entry + 1
      BY <1>8, <2>3 DEF LeaveLoop
    <3>2. entry' \in 1..Len(Tests) + 1 /\ round' \in Nat
      BY <1>1, <1>6, <3>1
    <3>3. TypeOK'
      BY <1>2, <1>3, <1>5, <2>1, <3>1, <3>2 DEF TypeOK
    <3>4. TestInv' /\ LoopInv'
      BY <3>1 DEF TestInv, LoopInv
    <3> QED BY <1>4, <3>3, <3>4 DEF HarnessInv
  <2> QED BY <2>2, <2>3
<1> QED BY <1>7, <1>8

\* Two inputs are two.
LEMMA TwoInputs == Cardinality({"rs", "rt"}) = 2
<1>1. "rs" # "rt"
  OBVIOUS
<1>2. Cardinality({"rs"}) = 1 /\ IsFiniteSet({"rs"})
  BY FS_Singleton
<1>3. Cardinality({"rs"} \cup {"rt"}) = 2
  BY <1>1, <1>2, FS_AddElement
<1>4. {"rs"} \cup {"rt"} = {"rs", "rt"}
  OBVIOUS
<1> QED BY <1>3, <1>4

\* Two inputs are the only ones that can overlap.
LEMMA ApartWhenTwo ==
  ASSUME NEW t, Testable(t), NEW regs,
         Cardinality(Inputs(t)) = 2 => ~Collide(Subregs(t, "rs", regs["rs"]), Subregs(t, "rt", regs["rt"]))
  PROVE  Apart(t, regs)
<1>1. \A s, u : Collide(s, u) => Collide(u, s)
  BY DEF Collide
<1>2. CASE Inputs(t) = {"rs", "rt"}
  <2>1. Cardinality({"rs", "rt"}) = 2
    BY TwoInputs
  <2>2. ~Collide(Subregs(t, "rs", regs["rs"]), Subregs(t, "rt", regs["rt"]))
    BY <1>2, <2>1
  <2> QED BY <1>1, <1>2, <2>2 DEF Apart
<1>3. CASE Inputs(t) = {} \/ Inputs(t) = {"rs"}
  BY <1>3 DEF Apart
<1> QED BY <1>2, <1>3, InputCases

\* What a loop's body does first: the register of its operand.
LEMMA Selecting ==
  ASSUME HarnessInv, InLoop, More, SelectNumber(loop), Testable(test)
  PROVE  /\ level \in 1..Len(nest) /\ loop \in allregs(test) /\ loop \in Fields
         /\ basew' = [basew EXCEPT ![loop] = basew'[loop]]
         /\ basew'[loop] \in Choice(test, loop) /\ basew' \in [Fields -> 0..127]
         /\ \A f \in Fields : f # loop => basew'[f] = basew[f]
         /\ at[loop] \in Nat /\ at[loop] + 1 <= Len(Numbers(test, loop)) /\ at[loop] + 1 \in 0..128
<1>1. /\ at \in [Fields -> 0..128] /\ basew \in [Fields -> 0..127] /\ level \in 1..3
      /\ level <= Len(nest)
  BY DEF HarnessInv, TypeOK, LoopInv, InLoop
<1>2. Len(nest) \in 1..3 /\ \A j \in 1..Len(nest) : nest[j] \in allregs(test) /\ nest[j] \in Fields
  BY NestFacts DEF nest
<1>3. level \in 1..Len(nest)
  BY <1>1, <1>2
<1>4. loop \in allregs(test) /\ loop \in Fields
  BY <1>2, <1>3 DEF loop
<1>5. at[loop] \in 0..128 /\ at[loop] < Len(Numbers(test, loop))
  BY <1>1, <1>4 DEF More
<1>6. Len(Numbers(test, loop)) \in 0..128
  BY <1>4, OperandNumbers
<1>7. /\ at[loop] + 1 \in 1..Len(Numbers(test, loop)) /\ at[loop] + 1 \in 0..128 /\ at[loop] \in Nat
      /\ at[loop] + 1 <= Len(Numbers(test, loop))
  <2> DEFINE n == Len(Numbers(test, loop))
             a == at[loop]
  <2>1. n \in 0..128 /\ a \in 0..128 /\ a < n
    BY <1>5, <1>6
  <2> HIDE DEF n, a
  <2>2. a + 1 \in 1..n /\ a + 1 \in 0..128 /\ a \in Nat /\ a + 1 <= n
    BY <2>1
  <2> QED BY <2>2 DEF n, a
<1>8. basew' = [basew EXCEPT ![loop] = Numbers(test, loop)[at[loop] + 1]]
  BY DEF SelectNumber
<1>9. Numbers(test, loop)[at[loop] + 1] \in Choice(test, loop)
  BY <1>4, <1>7, OperandNumbers
<1>10. basew'[loop] = Numbers(test, loop)[at[loop] + 1]
  BY <1>1, <1>4, <1>8
<1>11. Choice(test, loop) \in SUBSET (0..127)
  BY <1>4, OperandSizes
<1>12. basew' \in [Fields -> 0..127]
  BY <1>1, <1>4, <1>8, <1>9, <1>11
<1>13. \A f \in Fields : f # loop => basew'[f] = basew[f]
  BY <1>1, <1>8
<1> QED BY <1>3, <1>4, <1>7, <1>8, <1>9, <1>10, <1>12, <1>13

\* The body of an input's loop settles its operand.
LEMMA SelectInputHarness ==
  ASSUME HarnessInv, SelectInput
  PROVE  HarnessInv'
<1>1. phase = "loops" /\ entry \in 1..Len(Tests) /\ Testable(test) /\ InLoop
  BY TestUnderTest DEF HarnessInv, TypeOK, TestInv, SelectInput, InLoop
<1>2. /\ loop # "rd" /\ More /\ SelectNumber(loop)
      /\ instb' = Patch(instb, test, {loop}, basew')
      /\ entry' = entry /\ round' = round /\ phase' = phase /\ icache' = icache /\ out' = out
      /\ expected' = expected /\ info' = info
  BY DEF SelectInput
<1>3. /\ entry \in 1..Len(Tests) + 1 /\ round \in Nat /\ level \in 1..3
      /\ at \in [Fields -> 0..128] /\ basew \in [Fields -> 0..127]
      /\ DOMAIN instb = Words /\ DOMAIN icache = Words /\ DOMAIN out = DOMAIN expected
  BY <1>1 DEF HarnessInv, TypeOK
<1>4. test' = test /\ nest' = nest
  BY <1>2 DEF test, nest
<1>5. /\ level \in 1..Len(nest) /\ loop \in allregs(test) /\ loop \in Fields
      /\ basew'[loop] \in Choice(test, loop) /\ basew' \in [Fields -> 0..127]
      /\ \A f \in Fields : f # loop => basew'[f] = basew[f]
      /\ at[loop] \in Nat /\ at[loop] + 1 <= Len(Numbers(test, loop)) /\ at[loop] + 1 \in 0..128
  BY <1>1, <1>2, Selecting
<1>6. /\ Len(nest) \in 1..3 /\ nest[Len(nest)] = "rd"
      /\ \A j \in 1..Len(nest) : nest[j] \in allregs(test) /\ nest[j] \in Fields
      /\ \A j, k \in 1..Len(nest) : nest[j] = nest[k] => j = k
      /\ \A j \in 1..Len(nest) : j < Len(nest) => nest[j] \in Inputs(test)
  BY <1>1, NestFacts DEF nest
<1>7. level < Len(nest) /\ level + 1 \in 1..Len(nest) /\ level + 1 \in 1..3
  <2>1. level # Len(nest)
    BY <1>2, <1>6 DEF loop
  <2> QED BY <1>5, <1>6, <2>1
<1>8. loop \in Inputs(test)
  BY <1>5, <1>6, <1>7 DEF loop
<1>9. /\ IsOutput(test, out) /\ expected = Ideal(test, round)
      /\ \A j \in 1..level - 1 : Settled(nest[j])
  BY <1>1 DEF HarnessInv, LoopInv
\* The stub: the loads of this operand are new, everything else stays.
<1>10. /\ DOMAIN instb' = Words
       /\ \A s \in Slots(test, loop) : instb'[s] = OperandWord(test, loop, basew'[loop], s)
       /\ \A s \in Words : s \notin Slots(test, loop) => instb'[s] = instb[s]
  <2>1. {loop} \in SUBSET allregs(test)
    BY <1>5
  <2>2. Slots(test, loop) \subseteq Words
    BY <1>1, <1>5, StubWords
  <2>3. /\ DOMAIN Patch(instb, test, {loop}, basew') = DOMAIN instb
        /\ \A f \in {loop} : \A s \in Slots(test, f) : s \in DOMAIN instb =>
             Patch(instb, test, {loop}, basew')[s] = OperandWord(test, f, basew'[f], s)
        /\ \A s \in DOMAIN instb : (\A f \in {loop} : s \notin Slots(test, f)) =>
             Patch(instb, test, {loop}, basew')[s] = instb[s]
    <3> DEFINE F == {loop}
    <3>1. F \in SUBSET allregs(test)
      BY <2>1
    <3> HIDE DEF F
    <3>2. /\ DOMAIN Patch(instb, test, F, basew') = DOMAIN instb
          /\ \A f \in F : \A s \in Slots(test, f) : s \in DOMAIN instb =>
               Patch(instb, test, F, basew')[s] = OperandWord(test, f, basew'[f], s)
          /\ \A s \in DOMAIN instb : (\A f \in F : s \notin Slots(test, f)) =>
               Patch(instb, test, F, basew')[s] = instb[s]
      BY <1>1, <3>1, Patched
    <3> QED BY <3>2 DEF F
  <2>4. \A s \in Slots(test, loop) : s \in DOMAIN instb
    BY <1>3, <2>2
  <2> QED BY <1>2, <1>3, <2>3, <2>4
<1>11. instb'[stubsize(test) + 1] = Return
  <2>1. stubsize(test) + 1 \in Words /\ stubsize(test) + 1 \notin Slots(test, loop)
    BY <1>1, <1>5, StubWords
  <2>2. instb[stubsize(test) + 1] = Return
    BY <1>1 DEF HarnessInv, TestInv
  <2> QED BY <1>10, <2>1, <2>2
<1>12. ASSUME NEW j \in 1..level - 1
       PROVE  /\ basew'[nest[j]] \in Choice(test, nest[j]) /\ at[nest[j]] < Len(Numbers(test, nest[j]))
              /\ \A s \in Slots(test, nest[j]) : instb'[s] = OperandWord(test, nest[j], basew'[nest[j]], s)
              /\ nest[j] # loop /\ nest[j] \in Fields
  <2>1. j \in 1..Len(nest) /\ j # level /\ j < Len(nest)
    BY <1>5, <1>7, <1>12
  <2>2. nest[j] # loop /\ nest[j] \in Fields /\ nest[j] \in Inputs(test) /\ nest[j] \in allregs(test)
    BY <1>5, <1>6, <2>1 DEF loop
  <2>3. Settled(nest[j])
    BY <1>9, <1>12
  <2>4. basew'[nest[j]] = basew[nest[j]]
    BY <1>5, <2>2
  <2>5. \A s \in Slots(test, nest[j]) : s \in Words /\ s \notin Slots(test, loop)
    <3>1. Slots(test, nest[j]) \subseteq Words
      BY <1>1, <2>2, StubWords
    <3>2. Slots(test, nest[j]) \cap Slots(test, loop) = {}
      BY <1>1, <1>8, <2>2, SlotFacts
    <3> QED BY <3>1, <3>2
  <2> QED BY <1>10, <2>2, <2>3, <2>4, <2>5 DEF Settled
<1>13. InfoType'
  BY <1>2 DEF HarnessInv, InfoType
<1>14. TestInv'
  BY <1>1, <1>2, <1>4, <1>11 DEF TestInv, HarnessInv
<1>15. ASSUME level' \in 1..3, at' \in [Fields -> 0..128] PROVE TypeOK'
  <2>1. \A e \in 1..Len(Tests) : info'[e].test_cnt \in Nat
    BY <1>2, CountsTyped DEF HarnessInv
  <2> QED BY <1>1, <1>2, <1>3, <1>5, <1>10, <1>15, <2>1 DEF TypeOK
<1>16. IsOutput(test, out') /\ expected' = Ideal(test, round')
  BY <1>2, <1>9
<1> DEFINE Overlap == nest[level + 1] = "rd" /\ Cardinality(Inputs(test)) = 2 /\ regcol("rs", "rt")
<1>17. CASE Overlap
  <2>1. at' = [at EXCEPT ![loop] = at[loop] + 1] /\ level' = level
    BY <1>17 DEF SelectInput
  <2>2. at' \in [Fields -> 0..128] /\ at'[loop] = at[loop] + 1
        /\ \A f \in Fields : f # loop => at'[f] = at[f]
    BY <1>3, <1>5, <2>1
  <2>3. TypeOK'
    BY <1>3, <1>15, <2>1, <2>2
  <2>4. LoopInv'
    <3>1. nest[level'] = loop /\ level' <= Len(nest) /\ level' # Len(nest)
      BY <1>3, <1>6, <1>7, <2>1 DEF loop
    <3>2. at'[nest[level']] <= Len(Numbers(test, nest[level']))
      BY <1>5, <2>2, <3>1
    <3>3. ASSUME NEW j \in 1..level' - 1
          PROVE  /\ basew'[nest[j]] \in Choice(test, nest[j])
                 /\ at'[nest[j]] < Len(Numbers(test, nest[j]))
                 /\ \A s \in Slots(test, nest[j]) :
                      instb'[s] = OperandWord(test, nest[j], basew'[nest[j]], s)
      BY <1>12, <2>1, <2>2
    <3> QED BY <1>4, <1>16, <3>1, <3>2, <3>3 DEF LoopInv, loop, Settled
  <2> QED BY <1>13, <1>14, <2>3, <2>4 DEF HarnessInv
<1>18. CASE ~Overlap
  <2> DEFINE g == nest[level + 1]
  <2>1. level' = level + 1 /\ at' = [at EXCEPT ![g] = 0]
    BY <1>18 DEF SelectInput
  <2>2. g \in Fields /\ g \in allregs(test) /\ g # loop
    BY <1>5, <1>6, <1>7 DEF loop
  <2>3. at' \in [Fields -> 0..128] /\ at'[g] = 0 /\ \A f \in Fields : f # g => at'[f] = at[f]
    <3> HIDE DEF g
    <3> QED BY <1>3, <2>1, <2>2
  <2>4. TypeOK'
    BY <1>7, <1>15, <2>1, <2>3
  <2>5. LoopInv'
    <3>1. nest[level'] = g /\ level' <= Len(nest)
      BY <1>7, <2>1
    <3>2. at'[nest[level']] <= Len(Numbers(test, nest[level']))
      <4>1. Len(Numbers(test, g)) \in 0..128
        BY <1>1, <2>2, OperandNumbers
      <4> HIDE DEF g
      <4> QED BY <2>3, <3>1, <4>1
    <3>3. ASSUME NEW j \in 1..level' - 1
          PROVE  /\ basew'[nest[j]] \in Choice(test, nest[j])
                 /\ at'[nest[j]] < Len(Numbers(test, nest[j]))
                 /\ \A s \in Slots(test, nest[j]) :
                      instb'[s] = OperandWord(test, nest[j], basew'[nest[j]], s)
      <4>1. CASE j = level
        <5>1. nest[j] = loop
          BY <4>1 DEF loop
        <5>2. at'[loop] = at[loop]
          BY <1>5, <2>2, <2>3
        <5>3. at[loop] < Len(Numbers(test, loop))
          BY <1>2 DEF More
        <5> QED BY <1>5, <1>10, <5>1, <5>2, <5>3
      <4>2. CASE j \in 1..level - 1
        <5>1. nest[j] # g
          <6>1. j \in 1..Len(nest) /\ j # level + 1
            BY <1>5, <1>7, <4>2
          <6> QED BY <1>6, <1>7, <6>1
        <5>2. at'[nest[j]] = at[nest[j]]
          BY <1>12, <2>3, <4>2, <5>1
        <5> QED BY <1>12, <4>2, <5>2
      <4>3. j = level \/ j \in 1..level - 1
        BY <1>3, <2>1
      <4> QED BY <4>1, <4>2, <4>3
    <3>4. level' = Len(nest) => Apart(test, basew')
      <4> SUFFICES ASSUME level' = Len(nest) PROVE Apart(test, basew')
        OBVIOUS
      <4>1. g = "rd"
        BY <1>6, <2>1
      <4>2. Cardinality(Inputs(test)) = 2 => ~regcol("rs", "rt")
        BY <1>18, <4>1
      <4> QED BY <1>1, <4>2, ApartWhenTwo DEF regcol
    <3> QED BY <1>4, <1>16, <3>1, <3>2, <3>3, <3>4 DEF LoopInv, loop, Settled
  <2> QED BY <1>13, <1>14, <2>4, <2>5 DEF HarnessInv
<1> QED BY <1>17, <1>18

\* What a try runs, and what its result means: a wrong one is an overlap
\* the class does not allow.
LEMMA TryStub ==
  ASSUME HarnessInv, TryOutput
  PROVE  /\ entry \in 1..Len(Tests) /\ Testable(test) /\ test' = test /\ nest' = nest
         /\ level = Len(nest) /\ loop = "rd"
         /\ Chosen(test, basew') /\ Apart(test, basew') /\ basew' \in [Fields -> 0..127]
         /\ DOMAIN instb' = Words /\ IsStub(instb', test, basew')
         /\ IsOutput(test, out')
         /\ INST!Legal(Tried) => out' = expected
<1>1. phase = "loops" /\ entry \in 1..Len(Tests) /\ Testable(test) /\ InLoop
  BY TestUnderTest DEF HarnessInv, TypeOK, TestInv, TryOutput, InLoop
<1>2. /\ loop = "rd" /\ More /\ SelectNumber(loop) /\ entry' = entry
      /\ instb' = [Patch(instb, test, {"rd"}, basew') EXCEPT ![prolsize(test)] = Instruction(basew')]
      /\ out' = Run(instb', test, round, out)
  BY DEF TryOutput, Instruction
<1>3. test' = test /\ nest' = nest
  BY <1>2 DEF test, nest
<1>4. /\ level \in 1..Len(nest) /\ basew'["rd"] \in Choice(test, "rd")
      /\ basew' \in [Fields -> 0..127] /\ \A f \in Fields : f # "rd" => basew'[f] = basew[f]
  BY <1>1, <1>2, Selecting
<1>5. /\ Len(nest) \in 1..3
      /\ \A j \in 1..Len(nest) : nest[j] = "rd" => j = Len(nest)
      /\ \A f \in Inputs(test) : \E j \in 1..Len(nest) - 1 : nest[j] = f
      /\ "rd" \notin Inputs(test) /\ allregs(test) \subseteq Fields
  BY <1>1, NestFacts DEF nest
<1>6. level = Len(nest)
  BY <1>2, <1>4, <1>5 DEF loop
<1>7. /\ \A j \in 1..level - 1 : Settled(nest[j])
      /\ Apart(test, basew) /\ IsOutput(test, out) /\ expected = Ideal(test, round)
  BY <1>1, <1>6 DEF HarnessInv, LoopInv
<1>8. ASSUME NEW f \in Inputs(test)
      PROVE  /\ basew'[f] = basew[f] /\ basew'[f] \in Choice(test, f)
             /\ \A s \in Slots(test, f) : instb[s] = OperandWord(test, f, basew'[f], s)
  <2>1. Settled(f)
    BY <1>5, <1>6, <1>7
  <2>2. f \in Fields /\ f # "rd"
    BY <1>5 DEF allregs
  <2> QED BY <1>4, <2>1, <2>2 DEF Settled
<1>9. Chosen(test, basew')
  BY <1>4, <1>8 DEF Chosen, allregs
<1>10. Apart(test, basew')
  BY <1>7, <1>8 DEF Apart
<1>11. DOMAIN instb = Words /\ instb[stubsize(test) + 1] = Return
  BY <1>1 DEF HarnessInv, TypeOK, TestInv
<1>12. DOMAIN instb' = Words /\ IsStub(instb', test, basew')
  <2> DEFINE F == {"rd"}
             p == Patch(instb, test, F, basew')
  <2>1. F \in SUBSET allregs(test)
    BY DEF allregs
  <2> HIDE DEF F
  <2>2. /\ DOMAIN p = Words
        /\ \A f \in F : \A s \in Slots(test, f) : s \in Words => p[s] = OperandWord(test, f, basew'[f], s)
        /\ \A s \in Words : (\A f \in F : s \notin Slots(test, f)) => p[s] = instb[s]
    <3>1. /\ DOMAIN p = DOMAIN instb
          /\ \A f \in F : \A s \in Slots(test, f) : s \in DOMAIN instb =>
               p[s] = OperandWord(test, f, basew'[f], s)
          /\ \A s \in DOMAIN instb : (\A f \in F : s \notin Slots(test, f)) => p[s] = instb[s]
      BY <1>1, <2>1, Patched
    <3> HIDE DEF p
    <3> QED BY <1>11, <3>1
  <2>3. /\ \A s \in Slots(test, "rd") : s \in Words => p[s] = OperandWord(test, "rd", basew'["rd"], s)
        /\ \A s \in Words : s \notin Slots(test, "rd") => p[s] = instb[s]
    BY <2>2 DEF F
  <2>4. instb' = [p EXCEPT ![prolsize(test)] = Instruction(basew')]
    BY <1>2 DEF F
  <2> HIDE DEF p
  <2>5. /\ prolsize(test) \in Words /\ stubsize(test) + 1 \in Words
        /\ \A f \in allregs(test) : /\ Slots(test, f) \subseteq Words
                                    /\ prolsize(test) \notin Slots(test, f)
                                    /\ stubsize(test) + 1 \notin Slots(test, f)
        /\ stubsize(test) + 1 # prolsize(test)
    BY <1>1, StubWords
  <2>6. /\ DOMAIN instb' = Words /\ instb'[prolsize(test)] = Instruction(basew')
        /\ \A s \in Words : s # prolsize(test) => instb'[s] = p[s]
    BY <2>2, <2>4, <2>5
  <2>7. "rd" \in allregs(test) /\ Inputs(test) \subseteq allregs(test)
    BY DEF allregs
  <2>8. instb'[stubsize(test) + 1] = Return
    BY <1>11, <2>3, <2>5, <2>6, <2>7
  <2>9. \A s \in Slots(test, "rd") : instb'[s] = OperandWord(test, "rd", basew'["rd"], s)
    BY <2>3, <2>5, <2>6, <2>7
  <2>10. ASSUME NEW f \in Inputs(test), NEW s \in Slots(test, f)
         PROVE  instb'[s] = OperandWord(test, f, basew'[f], s)
    <3>1. s \notin Slots(test, "rd")
      <4> DEFINE P == prolsize(test)
                 C == Count(test.shape.out)
      <4>1. P \in Nat /\ C \in Nat /\ Slots(test, "rd") = P + 1..P + C /\ s \in 0..P - 1
        BY <1>1, SlotFacts
      <4> HIDE DEF P, C
      <4>2. ~(s >= P + 1)
        BY <4>1
      <4> QED BY <4>1, <4>2
    <3>2. s \in Words /\ s # prolsize(test)
      BY <2>5, <2>7
    <3> QED BY <1>8, <2>3, <2>6, <3>1, <3>2
  <2> QED BY <2>6, <2>8, <2>9, <2>10 DEF IsStub, allregs
<1>13. IsOutput(test, out')
  BY <1>1, <1>2, <1>7, <1>9, <1>10, <1>12, StubOutput
<1>14. INST!Legal(Tried) => out' = expected
  BY <1>1, <1>2, <1>7, <1>9, <1>10, <1>12, LegalStub DEF Tried
<1> QED BY <1>1, <1>2, <1>3, <1>4, <1>6, <1>9, <1>10, <1>12, <1>13, <1>14

-----------------------------------------------------------------------------
(* Counting.                                                                *)

\* What CountError asks of the choice tried.
Collided  == \E r \in Inputs(test) : regcol(r, "rd")
Tolerable == \A r \in Inputs(test) : regcompatcol(r, "rd") \/ ~regcol(r, "rd")

\* A wrong result's effect on the counters.
LEMMA Counted ==
  ASSUME NEW c \in Counters, basew' \in [Fields -> 0..127]
  PROVE  LET new == CountError(c)
         IN /\ new \in Counters
            /\ new.test_cnt = c.test_cnt /\ new.test_errs = c.test_errs + 1
            /\ new.nonoverlap_errors = c.nonoverlap_errors + (IF Collided THEN 0 ELSE 1)
            /\ new.compat_overlap_errors
                 = c.compat_overlap_errors + (IF Collided /\ Tolerable THEN 1 ELSE 0)
            /\ new.incompat_overlap_errors
                 = c.incompat_overlap_errors + (IF Collided /\ ~Tolerable THEN 1 ELSE 0)
            /\ Len(new.reg_pairs) = IF Len(c.reg_pairs) < REG_PAIRS_DEBUGS
                                    THEN Len(c.reg_pairs) + 1 ELSE Len(c.reg_pairs)
<1> DEFINE new == CountError(c)
           x   == IF ~Collided THEN 1 ELSE 0
           y   == IF Collided /\ Tolerable THEN 1 ELSE 0
           z   == IF Collided /\ ~Tolerable THEN 1 ELSE 0
           q   == IF Len(c.reg_pairs) < REG_PAIRS_DEBUGS THEN Append(c.reg_pairs, basew') ELSE c.reg_pairs
<1>1. /\ c.test_cnt \in Nat /\ c.test_errs \in Nat /\ c.nonoverlap_errors \in Nat
      /\ c.compat_overlap_errors \in Nat /\ c.incompat_overlap_errors \in Nat
      /\ c.reg_pairs \in Seq([Fields -> 0..127])
  BY DEF Counters
<1>2. c = [test_cnt |-> c.test_cnt, test_errs |-> c.test_errs, nonoverlap_errors |-> c.nonoverlap_errors,
           compat_overlap_errors |-> c.compat_overlap_errors,
           incompat_overlap_errors |-> c.incompat_overlap_errors, reg_pairs |-> c.reg_pairs]
  BY DEF Counters
<1>3. new = [c EXCEPT !.test_errs = @ + 1, !.nonoverlap_errors = @ + x,
                      !.compat_overlap_errors = @ + y, !.incompat_overlap_errors = @ + z,
                      !.reg_pairs = IF Len(@) < REG_PAIRS_DEBUGS THEN Append(@, basew') ELSE @]
  BY Zenon DEF CountError, Collided, Tolerable
<1> HIDE DEF new, x, y, z
<1>4. new = [test_cnt |-> c.test_cnt, test_errs |-> c.test_errs + 1,
             nonoverlap_errors |-> c.nonoverlap_errors + x,
             compat_overlap_errors |-> c.compat_overlap_errors + y,
             incompat_overlap_errors |-> c.incompat_overlap_errors + z, reg_pairs |-> q]
  <2>1. new = [c EXCEPT !.test_errs = c.test_errs + 1, !.nonoverlap_errors = c.nonoverlap_errors + x,
                        !.compat_overlap_errors = c.compat_overlap_errors + y,
                        !.incompat_overlap_errors = c.incompat_overlap_errors + z,
                        !.reg_pairs = q]
    BY <1>2, <1>3
  <2> HIDE DEF q
  <2> QED BY <1>2, <2>1
<1>5. q \in Seq([Fields -> 0..127])
      /\ Len(q) = IF Len(c.reg_pairs) < REG_PAIRS_DEBUGS THEN Len(c.reg_pairs) + 1 ELSE Len(c.reg_pairs)
  BY <1>1
<1>6. x \in Nat /\ y \in Nat /\ z \in Nat
  BY DEF x, y, z
<1> HIDE DEF q
<1>7. new \in Counters
  BY <1>1, <1>4, <1>5, <1>6 DEF Counters
<1>8. x = (IF Collided THEN 0 ELSE 1)
  BY DEF x
<1>9. /\ new.test_cnt = c.test_cnt /\ new.test_errs = c.test_errs + 1
      /\ new.nonoverlap_errors = c.nonoverlap_errors + x
      /\ new.compat_overlap_errors = c.compat_overlap_errors + y
      /\ new.incompat_overlap_errors = c.incompat_overlap_errors + z /\ new.reg_pairs = q
  BY <1>4
<1> QED BY <1>5, <1>7, <1>8, <1>9 DEF new, y, z

\* A test is counted.
OneMore(c) == [c EXCEPT !.test_cnt = @ + 1]

\* Counting a test disturbs no other counter.
LEMMA OneMoreTest ==
  ASSUME NEW c \in Counters
  PROVE  LET new == OneMore(c)
         IN /\ new \in Counters /\ new.test_cnt = c.test_cnt + 1 /\ new.test_errs = c.test_errs
            /\ new.nonoverlap_errors = c.nonoverlap_errors
            /\ new.compat_overlap_errors = c.compat_overlap_errors
            /\ new.incompat_overlap_errors = c.incompat_overlap_errors
            /\ new.reg_pairs = c.reg_pairs
<1> DEFINE new == OneMore(c)
<1>1. c = [test_cnt |-> c.test_cnt, test_errs |-> c.test_errs, nonoverlap_errors |-> c.nonoverlap_errors,
           compat_overlap_errors |-> c.compat_overlap_errors,
           incompat_overlap_errors |-> c.incompat_overlap_errors, reg_pairs |-> c.reg_pairs]
      /\ c.test_cnt \in Nat /\ c.test_errs \in Nat /\ c.nonoverlap_errors \in Nat
      /\ c.compat_overlap_errors \in Nat /\ c.incompat_overlap_errors \in Nat
      /\ c.reg_pairs \in Seq([Fields -> 0..127])
  BY DEF Counters
<1>2. new = [test_cnt |-> c.test_cnt + 1, test_errs |-> c.test_errs,
             nonoverlap_errors |-> c.nonoverlap_errors,
             compat_overlap_errors |-> c.compat_overlap_errors,
             incompat_overlap_errors |-> c.incompat_overlap_errors, reg_pairs |-> c.reg_pairs]
  BY <1>1 DEF OneMore
<1>3. new \in Counters
  BY <1>1, <1>2 DEF Counters
<1> QED BY <1>2, <1>3

\* What a try leaves in the counters.
LEMMA TryCounts ==
  ASSUME HarnessInv, TryOutput
  PROVE  /\ entry \in 1..Len(Tests) /\ DOMAIN info' = 1..Len(Tests)
         /\ info[entry] \in Counters /\ basew' \in [Fields -> 0..127]
         /\ \A e \in 1..Len(Tests) : e # entry => info'[e] = info[e]
         /\ out' = expected  => info'[entry] = OneMore(info[entry])
         /\ out' # expected => info'[entry] = OneMore(CountError(info[entry]))
         /\ InfoType'
<1>1. entry \in 1..Len(Tests) /\ basew' \in [Fields -> 0..127]
  BY TryStub
<1>2. info \in [1..Len(Tests) -> Counters]
  BY DEF HarnessInv, InfoType
<1> DEFINE c == IF out' # expected THEN CountError(info[entry]) ELSE info[entry]
<1>3. info' = [info EXCEPT ![entry] = OneMore(c)]
  BY <1>1, <1>2 DEF TryOutput, OneMore
<1>4. info[entry] \in Counters
  BY <1>1, <1>2
<1>5. CountError(info[entry]) \in Counters
  BY <1>1, <1>4, Counted
<1>6. c \in Counters
  BY <1>4, <1>5
<1>7. /\ out' = expected => c = info[entry]
      /\ out' # expected => c = CountError(info[entry])
  OBVIOUS
<1> HIDE DEF c
<1>8. OneMore(c) \in Counters
  BY <1>6, OneMoreTest
<1>9. /\ info' \in [1..Len(Tests) -> Counters] /\ info'[entry] = OneMore(c)
      /\ \A e \in 1..Len(Tests) : e # entry => info'[e] = info[e]
  BY <1>1, <1>2, <1>3, <1>8
<1>10. InfoType'
  BY <1>9 DEF InfoType
<1> QED BY <1>1, <1>4, <1>7, <1>9, <1>10

\* The body of the output's loop keeps the loops around it.
LEMMA TryOutputHarness ==
  ASSUME HarnessInv, TryOutput
  PROVE  HarnessInv'
<1>1. /\ entry \in 1..Len(Tests) /\ Testable(test) /\ test' = test /\ nest' = nest
      /\ level = Len(nest) /\ loop = "rd"
      /\ Chosen(test, basew') /\ Apart(test, basew') /\ basew' \in [Fields -> 0..127]
      /\ DOMAIN instb' = Words /\ IsStub(instb', test, basew')
      /\ IsOutput(test, out')
  BY TryStub
<1>2. /\ entry' = entry /\ round' = round /\ phase' = phase /\ level' = level /\ expected' = expected
      /\ icache' = instb' /\ at' = [at EXCEPT !["rd"] = @ + 1] /\ InLoop /\ More /\ SelectNumber(loop)
  BY <1>1 DEF TryOutput
<1>3. /\ phase = "loops" /\ level \in 1..3 /\ round \in Nat /\ at \in [Fields -> 0..128]
      /\ DOMAIN out = DOMAIN expected /\ entry \in 1..Len(Tests) + 1
  BY <1>2 DEF HarnessInv, TypeOK, InLoop
<1>4. /\ IsOutput(test, out) /\ expected = Ideal(test, round)
      /\ \A j \in 1..level - 1 : Settled(nest[j])
  BY <1>3 DEF HarnessInv, LoopInv
<1>5. InfoType'
  BY TryCounts
<1>6. TestInv'
  BY <1>1, <1>2, <1>3 DEF HarnessInv, TestInv, IsStub
<1>7. at["rd"] + 1 <= Len(Numbers(test, "rd")) /\ at["rd"] + 1 \in 0..128
  BY <1>1, <1>2, Selecting
<1>8. /\ at' \in [Fields -> 0..128] /\ at'["rd"] = at["rd"] + 1
      /\ \A f \in Fields : f # "rd" => at'[f] = at[f]
  BY <1>2, <1>3, <1>7 DEF Fields
<1>9. TypeOK'
  <2>1. \A e \in 1..Len(Tests) : info'[e].test_cnt \in Nat
    BY <1>5 DEF InfoType, Counters
  <2>2. DOMAIN out' = DOMAIN expected'
    BY <1>1, <1>2, <1>3, <1>4 DEF IsOutput
  <2> QED BY <1>1, <1>2, <1>3, <1>8, <2>1, <2>2 DEF TypeOK
<1>10. LoopInv'
  <2>1. level' <= Len(nest) /\ nest[level'] = "rd" /\ at'["rd"] <= Len(Numbers(test, "rd"))
    <3>1. Len(nest) \in 1..3
      BY <1>1, NestFacts DEF nest
    <3> QED BY <1>1, <1>2, <1>7, <1>8, <3>1 DEF loop
  <2>2. ASSUME NEW j \in 1..level' - 1
        PROVE  /\ basew'[nest[j]] \in Choice(test, nest[j])
               /\ at'[nest[j]] < Len(Numbers(test, nest[j]))
               /\ \A s \in Slots(test, nest[j]) : instb'[s] = OperandWord(test, nest[j], basew'[nest[j]], s)
    <3>1. j \in 1..level - 1 /\ j \in 1..Len(nest) /\ j < Len(nest)
      BY <1>1, <1>2, <1>3
    <3>2. nest[j] # "rd" /\ nest[j] \in allregs(test) /\ nest[j] \in Fields
      <4>1. /\ nest[Len(nest)] = "rd"
            /\ \A k \in 1..Len(nest) : nest[k] \in allregs(test) /\ nest[k] \in Fields
            /\ \A k, m \in 1..Len(nest) : nest[k] = nest[m] => k = m
            /\ Len(nest) \in 1..3
        BY <1>1, NestFacts DEF nest
      <4> QED BY <3>1, <4>1
    <3>3. at[nest[j]] < Len(Numbers(test, nest[j]))
      BY <1>4, <3>1 DEF Settled
    <3> QED BY <1>1, <1>8, <3>2, <3>3 DEF Chosen, IsStub
  <2> QED BY <1>1, <1>2, <1>4, <2>1, <2>2 DEF LoopInv, loop, Settled
<1> QED BY <1>5, <1>6, <1>9, <1>10 DEF HarnessInv

\* Every step of the test program keeps the invariant.
LEMMA HarnessStep == HarnessInv /\ [Next]_vars => HarnessInv'
<1>1. HarnessInv /\ UNCHANGED vars => HarnessInv'
  <2> SUFFICES ASSUME HarnessInv, UNCHANGED vars PROVE HarnessInv'
    OBVIOUS
  <2>1. /\ entry' = entry /\ round' = round /\ phase' = phase /\ level' = level /\ at' = at
        /\ basew' = basew /\ instb' = instb /\ icache' = icache /\ out' = out
        /\ expected' = expected /\ info' = info
    BY DEF vars
  <2>2. TypeOK' /\ InfoType' /\ TestInv'
    BY <2>1 DEF HarnessInv, TypeOK, InfoType, TestInv, test
  <2>3. LoopInv'
    BY <2>1 DEF HarnessInv, LoopInv, test, nest, loop, Settled
  <2> QED BY <2>2, <2>3 DEF HarnessInv
<1> QED BY <1>1, StartTestHarness, ReferenceRunHarness, SelectInputHarness, TryOutputHarness,
           LeaveLoopHarness DEF Next

\* The invariant holds throughout.
LEMMA HarnessAlways == Spec => []HarnessInv
BY InitHarness, HarnessStep, PTL DEF Spec

\* The state of the test program (the loop variables, the instruction
\* word, the JIT buffer, the counters) keeps its types.
THEOREM TypeCorrect == Spec => []TypeOK
<1>1. HarnessInv => TypeOK
  BY DEF HarnessInv
<1> QED BY <1>1, HarnessAlways, PTL

-----------------------------------------------------------------------------
(* The errors.                                                              *)

\* Every error in one class, and the report's list of failing choices full.
Accounted(c) ==
  /\ c.test_errs = c.nonoverlap_errors + c.compat_overlap_errors + c.incompat_overlap_errors
  /\ c.test_errs <= c.test_cnt
  /\ Len(c.reg_pairs) = IF c.test_errs < REG_PAIRS_DEBUGS THEN c.test_errs ELSE REG_PAIRS_DEBUGS

\* A try keeps the books, whether it fails or not.
LEMMA AccountedTry ==
  ASSUME NEW c \in Counters, Accounted(c), basew' \in [Fields -> 0..127]
  PROVE  Accounted(OneMore(c)) /\ Accounted(OneMore(CountError(c)))
<1>1. REG_PAIRS_DEBUGS \in Nat
  BY TestsAssumption
<1>2. /\ c.test_cnt \in Nat /\ c.test_errs \in Nat /\ c.nonoverlap_errors \in Nat
      /\ c.compat_overlap_errors \in Nat /\ c.incompat_overlap_errors \in Nat
      /\ Len(c.reg_pairs) \in Nat
  BY DEF Counters
<1>3. Accounted(OneMore(c))
  <2> DEFINE new == OneMore(c)
  <2>1. /\ new.test_cnt = c.test_cnt + 1 /\ new.test_errs = c.test_errs
        /\ new.nonoverlap_errors = c.nonoverlap_errors
        /\ new.compat_overlap_errors = c.compat_overlap_errors
        /\ new.incompat_overlap_errors = c.incompat_overlap_errors
        /\ new.reg_pairs = c.reg_pairs
    BY OneMoreTest
  <2> HIDE DEF new
  <2>2. c.test_errs <= c.test_cnt + 1
    BY <1>2 DEF Accounted
  <2>3. Accounted(new)
    BY <1>2, <2>1, <2>2 DEF Accounted
  <2> QED BY <2>3 DEF new
<1>4. Accounted(OneMore(CountError(c)))
  <2> DEFINE bad == CountError(c)
             new == OneMore(bad)
  <2>1. /\ bad \in Counters
        /\ bad.test_cnt = c.test_cnt /\ bad.test_errs = c.test_errs + 1
        /\ bad.nonoverlap_errors = c.nonoverlap_errors + (IF Collided THEN 0 ELSE 1)
        /\ bad.compat_overlap_errors
             = c.compat_overlap_errors + (IF Collided /\ Tolerable THEN 1 ELSE 0)
        /\ bad.incompat_overlap_errors
             = c.incompat_overlap_errors + (IF Collided /\ ~Tolerable THEN 1 ELSE 0)
        /\ Len(bad.reg_pairs) = IF Len(c.reg_pairs) < REG_PAIRS_DEBUGS
                                THEN Len(c.reg_pairs) + 1 ELSE Len(c.reg_pairs)
    BY Counted
  <2> HIDE DEF bad
  <2>2. /\ new.test_cnt = bad.test_cnt + 1 /\ new.test_errs = bad.test_errs
        /\ new.nonoverlap_errors = bad.nonoverlap_errors
        /\ new.compat_overlap_errors = bad.compat_overlap_errors
        /\ new.incompat_overlap_errors = bad.incompat_overlap_errors
        /\ new.reg_pairs = bad.reg_pairs
    BY <2>1, OneMoreTest
  <2> HIDE DEF new
  <2> DEFINE x == IF Collided THEN 0 ELSE 1
             y == IF Collided /\ Tolerable THEN 1 ELSE 0
             z == IF Collided /\ ~Tolerable THEN 1 ELSE 0
  <2>3. x \in Nat /\ y \in Nat /\ z \in Nat /\ x + y + z = 1
    <3>1. CASE ~Collided
      <4>1. x = 1 /\ y = 0 /\ z = 0
        BY <3>1
      <4> QED BY <4>1
    <3>2. CASE Collided /\ Tolerable
      <4>1. x = 0 /\ y = 1 /\ z = 0
        BY <3>2
      <4> QED BY <4>1
    <3>3. CASE Collided /\ ~Tolerable
      <4>1. x = 0 /\ y = 0 /\ z = 1
        BY <3>3
      <4> QED BY <4>1
    <3> QED BY <3>1, <3>2, <3>3
  <2>4. /\ new.nonoverlap_errors = c.nonoverlap_errors + x
        /\ new.compat_overlap_errors = c.compat_overlap_errors + y
        /\ new.incompat_overlap_errors = c.incompat_overlap_errors + z
        /\ new.test_errs = c.test_errs + 1 /\ new.test_cnt = c.test_cnt + 1
    BY <2>1, <2>2
  <2> HIDE DEF x, y, z
  <2>5. new.test_errs = new.nonoverlap_errors + new.compat_overlap_errors + new.incompat_overlap_errors
        /\ new.test_errs <= new.test_cnt
    <3> DEFINE a == c.nonoverlap_errors
               b == c.compat_overlap_errors
               d == c.incompat_overlap_errors
               e == c.test_errs
               f == c.test_cnt
    <3>1. a \in Nat /\ b \in Nat /\ d \in Nat /\ e \in Nat /\ f \in Nat /\ e = a + b + d /\ e <= f
      BY <1>2 DEF Accounted
    <3> HIDE DEF a, b, d, e, f
    <3>2. e + 1 = (a + x) + (b + y) + (d + z) /\ e + 1 <= f + 1
      BY <2>3, <3>1
    <3> QED BY <2>4, <3>2 DEF a, b, d, e, f
  <2>6. Len(new.reg_pairs) = IF new.test_errs < REG_PAIRS_DEBUGS THEN new.test_errs ELSE REG_PAIRS_DEBUGS
    <3> DEFINE old == Len(c.reg_pairs)
    <3>1. /\ old \in Nat /\ old = IF c.test_errs < REG_PAIRS_DEBUGS THEN c.test_errs ELSE REG_PAIRS_DEBUGS
          /\ Len(new.reg_pairs) = IF old < REG_PAIRS_DEBUGS THEN old + 1 ELSE old
      BY <1>2, <2>1, <2>2 DEF Accounted
    <3> HIDE DEF old
    <3> QED BY <1>1, <1>2, <2>4, <3>1
  <2>7. Accounted(new)
    BY <2>5, <2>6 DEF Accounted
  <2> QED BY <2>7 DEF new, bad
<1> QED BY <1>3, <1>4

\* Every wrong result is counted in exactly one class, and the list of
\* failing register choices the report prints is complete up to its size.
THEOREM AccountedAlways == Spec => []ErrorsAccounted
<1> DEFINE Inv == \A e \in 1..Len(Tests) : Accounted(info[e])
<1>1. Init => Inv
  <2> SUFFICES ASSUME Init, NEW e \in 1..Len(Tests) PROVE Accounted(info[e])
    OBVIOUS
  <2>1. info[e] = NoCounts
    BY DEF Init
  <2>2. Accounted(NoCounts)
    BY TestsAssumption DEF Accounted, NoCounts
  <2> QED BY <2>1, <2>2
<1>2. HarnessInv /\ Inv /\ [Next]_vars => Inv'
  <2> SUFFICES ASSUME HarnessInv, Inv, [Next]_vars PROVE Inv'
    OBVIOUS
  <2>1. CASE TryOutput
    <3>1. /\ entry \in 1..Len(Tests)
          /\ info[entry] \in Counters /\ basew' \in [Fields -> 0..127]
          /\ \A e \in 1..Len(Tests) : e # entry => info'[e] = info[e]
          /\ out' = expected  => info'[entry] = OneMore(info[entry])
          /\ out' # expected => info'[entry] = OneMore(CountError(info[entry]))
      BY <2>1, TryCounts
    <3>2. Accounted(info[entry])
      BY <3>1
    <3>3. Accounted(OneMore(info[entry])) /\ Accounted(OneMore(CountError(info[entry])))
      BY <3>1, <3>2, AccountedTry
    <3>4. Accounted(info'[entry])
      BY <3>1, <3>3
    <3> QED BY <3>1, <3>4
  <2>2. CASE info' = info
    BY <2>2
  <2>3. TryOutput \/ info' = info
    BY DEF Next, StartTest, ReferenceRun, SelectInput, LeaveLoop, vars
  <2> QED BY <2>1, <2>2, <2>3
<1>3. Inv => ErrorsAccounted
  BY DEF Accounted, ErrorsAccounted
<1> QED BY <1>1, <1>2, <1>3, HarnessAlways, PTL DEF Spec

\* Only a try fails, and only on a choice that is not legal.
LEMMA FailingTry ==
  ASSUME HarnessInv, [Next]_vars, Failing
  PROVE  TryOutput /\ out' # expected /\ ~INST!Legal(Tried)
<1>1. PICK e \in 1..Len(Tests) : info'[e].test_errs # info[e].test_errs
  BY DEF Failing
<1>2. info' # info
  BY <1>1
<1>3. TryOutput
  BY <1>2 DEF Next, StartTest, ReferenceRun, SelectInput, LeaveLoop, vars
<1>4. /\ info[entry] \in Counters
      /\ \A f \in 1..Len(Tests) : f # entry => info'[f] = info[f]
      /\ out' = expected  => info'[entry] = OneMore(info[entry])
  BY <1>3, TryCounts
<1>5. e = entry
  BY <1>1, <1>4
<1>6. OneMore(info[entry]).test_errs = info[entry].test_errs
  BY <1>4, OneMoreTest
<1>7. out' # expected
  BY <1>1, <1>4, <1>5, <1>6
<1>8. INST!Legal(Tried) => out' = expected
  BY <1>3, TryStub
<1> QED BY <1>3, <1>7, <1>8

\* A register choice whose result differs from the reference run's is one
\* the assembler tester's check_overlap refuses for the declared class.
THEOREM OnlyIllegal == Spec => OnlyIllegalFails
<1>1. HarnessInv /\ [Next]_vars => [Failing => ~INST!Legal(Tried)]_vars
  BY FailingTry
<1> QED BY <1>1, HarnessAlways, PTL DEF Spec, OnlyIllegalFails

\* A wrong result comes with a collision.
LEMMA WrongCollides ==
  ASSUME HarnessInv, TryOutput, out' # expected
  PROVE  Collided
<1>1. Testable(test) /\ Chosen(test, basew') /\ ~INST!Legal(Tried)
  BY TryStub
<1>2. ~NoCollision(test, basew')
  BY <1>1, NoCollisionLegal DEF Tried
<1> QED BY <1>2 DEF NoCollision, Collided, regcol

\* Registers that do not overlap always give the reference result: the
\* report never shows [ERR!], whatever was left in the buffer and the arrays.
THEOREM NeverSpoils == Spec => []NoFalseAlarm
<1> DEFINE Inv == \A e \in 1..Len(Tests) : info[e].nonoverlap_errors = 0
<1>1. Init => Inv
  BY DEF Init, NoCounts
<1>2. HarnessInv /\ Inv /\ [Next]_vars => Inv'
  <2> SUFFICES ASSUME HarnessInv, Inv, [Next]_vars PROVE Inv'
    OBVIOUS
  <2>1. CASE TryOutput
    <3> DEFINE c == info[entry]
    <3>1. /\ entry \in 1..Len(Tests)
          /\ c \in Counters /\ basew' \in [Fields -> 0..127]
          /\ \A e \in 1..Len(Tests) : e # entry => info'[e] = info[e]
          /\ out' = expected  => info'[entry] = OneMore(c)
          /\ out' # expected => info'[entry] = OneMore(CountError(c))
      BY <2>1, TryCounts
    <3>2. c.nonoverlap_errors = 0
      BY <3>1
    <3> HIDE DEF c
    <3>3. out' = expected => info'[entry].nonoverlap_errors = 0
      BY <3>1, <3>2, OneMoreTest
    <3>4. out' # expected => info'[entry].nonoverlap_errors = 0
      <4> SUFFICES ASSUME out' # expected PROVE info'[entry].nonoverlap_errors = 0
        OBVIOUS
      <4> DEFINE bad == CountError(c)
      <4>1. bad \in Counters
            /\ bad.nonoverlap_errors = c.nonoverlap_errors + (IF Collided THEN 0 ELSE 1)
        BY <3>1, Counted
      <4>2. Collided
        BY <2>1, WrongCollides
      <4>3. bad.nonoverlap_errors = 0
        BY <3>2, <4>1, <4>2
      <4>4. info'[entry] = OneMore(bad)
        BY <3>1
      <4> HIDE DEF bad
      <4> QED BY <4>1, <4>3, <4>4, OneMoreTest
    <3> QED BY <3>1, <3>3, <3>4
  <2>2. CASE info' = info
    BY <2>2
  <2>3. TryOutput \/ info' = info
    BY DEF Next, StartTest, ReferenceRun, SelectInput, LeaveLoop, vars
  <2> QED BY <2>1, <2>2, <2>3
<1>3. Inv => NoFalseAlarm
  BY DEF NoFalseAlarm, sanity
<1> QED BY <1>1, <1>2, <1>3, HarnessAlways, PTL DEF Spec

-----------------------------------------------------------------------------
(* Which registers are the same.                                            *)

\* Every register is a box of w columns and h rows from column x and row y
\* of its matrix, read along its direction.
InBox(s, r, x, y, w, h) ==
  /\ x \in 0..3 /\ y \in 0..3 /\ w \in 1..4 /\ h \in 1..4 /\ x + w <= 4 /\ y + h <= 4
  /\ s = [k \in 0..w * h - 1 |-> s[k]]
  /\ Direction(r) = 0 =>
       (w = 1 \/ w = h) /\ \A k \in 0..w * h - 1 : s[k] = Place(x + (k % w), Matrix(r), y + (k \div w))
  /\ Direction(r) # 0 =>
       (h = 1 \/ w = h) /\ \A k \in 0..w * h - 1 : s[k] = Place(x + (k \div h), Matrix(r), y + (k % h))
  /\ w = 1 /\ h = 1 => s[0] = r

\* Some box is the register's.
HasBox(s, r) == \E x, y \in 0..3 : \E w, h \in 1..4 : InBox(s, r, x, y, w, h)

\* A single element is a box of one.
LEMMA SingleBox ==
  ASSUME NEW r \in 0..127, NEW s, s = [k \in {0} |-> r]
  PROVE  HasBox(s, r)
<1> DEFINE c == Column(r)
           m == Matrix(r)
           y == Direction(r) + 2 * Half(r)
<1>1. c \in 0..3 /\ m \in 0..7 /\ y \in 0..3 /\ r = Place(c, m, y)
  <2>1. /\ c \in 0..3 /\ m \in 0..7 /\ Direction(r) \in 0..1 /\ Half(r) \in 0..1
        /\ r = c + 4 * m + 32 * Direction(r) + 64 * Half(r)
    BY NumberParts
  <2> HIDE DEF c, m
  <2> QED BY <2>1 DEF Place
<1> HIDE DEF c, y
<1>2. 0..1 * 1 - 1 = {0}
  OBVIOUS
<1>3. \A k \in {0} : s[k] = Place(c + (k % 1), m, y + (k \div 1))
  <2>1. s[0] = r /\ c + (0 % 1) = c /\ y + (0 \div 1) = y
    BY <1>1
  <2> QED BY <1>1, <2>1
<1>4. \A k \in {0} : s[k] = Place(c + (k \div 1), m, y + (k % 1))
  <2>1. s[0] = r /\ c + (0 \div 1) = c /\ y + (0 % 1) = y
    BY <1>1
  <2> QED BY <1>1, <2>1
<1>5. InBox(s, r, c, y, 1, 1)
  BY <1>1, <1>2, <1>3, <1>4 DEF InBox, m
<1> QED BY <1>1, <1>5 DEF HasBox

\* A vector is a box of one column or one row.
LEMMA VectorBox ==
  ASSUME NEW n \in 2..4, NEW r \in 0..127, NEW s, s = VectorElements(n, r)
  PROVE  HasBox(s, r)
<1> DEFINE c == Column(r)
           m == Matrix(r)
           f == (4 - n) * Half(r)
<1>1. c \in 0..3 /\ m \in 0..7 /\ Half(r) \in 0..1
  BY NumberParts
<1>2. f \in 0..2 /\ f + n <= 4
  <2>1. CASE Half(r) = 0
    BY <2>1
  <2>2. CASE Half(r) = 1
    BY <2>2
  <2> QED BY <1>1, <2>1, <2>2
<1>3. s = [k \in 0..n - 1 |-> s[k]]
  BY DEF VectorElements
<1>4. \A k \in 0..n - 1 : /\ Direction(r) = 0 => s[k] = Place(c, m, k + f)
                          /\ Direction(r) # 0 => s[k] = Place(k + f, m, c)
  BY VectorPlaces DEF Along
<1> HIDE DEF c, m, f
<1>5. \A k \in 0..n - 1 : c + (k % 1) = c /\ f + (k \div 1) = k + f
  BY <1>1, <1>2
<1>6. ASSUME Direction(r) = 0 PROVE HasBox(s, r)
  <2>1. \A k \in 0..n - 1 : s[k] = Place(c + (k % 1), m, f + (k \div 1))
    BY <1>4, <1>5, <1>6
  <2>2. 1 * n - 1 = n - 1 /\ n \in 1..4 /\ 1 \in 1..4 /\ c + 1 <= 4 /\ ~(1 = 1 /\ n = 1) /\ f \in 0..3
    BY <1>1, <1>2
  <2>3. InBox(s, r, c, f, 1, n)
    BY <1>1, <1>2, <1>3, <1>6, <2>1, <2>2 DEF InBox, m
  <2> QED BY <1>1, <2>2, <2>3 DEF HasBox
<1>7. ASSUME Direction(r) # 0 PROVE HasBox(s, r)
  <2>1. \A k \in 0..n - 1 : s[k] = Place(f + (k \div 1), m, c + (k % 1))
    BY <1>4, <1>5, <1>7
  <2>2. n * 1 - 1 = n - 1 /\ n \in 1..4 /\ 1 \in 1..4 /\ c + 1 <= 4 /\ ~(n = 1 /\ 1 = 1) /\ f \in 0..3
    BY <1>1, <1>2
  <2>3. InBox(s, r, f, c, n, 1)
    BY <1>1, <1>2, <1>3, <1>7, <2>1, <2>2 DEF InBox, m
  <2> QED BY <1>1, <2>2, <2>3 DEF HasBox
<1> QED BY <1>6, <1>7

\* A matrix is a square box.
LEMMA MatrixBox ==
  ASSUME NEW n \in 2..4, NEW r \in 0..127, Column(r) \in {0, 4 - n},
         NEW s, s = MatrixElements(n, r)
  PROVE  HasBox(s, r)
<1> DEFINE c == Column(r)
           m == Matrix(r)
           f == (4 - n) * Half(r)
<1>1. c \in 0..3 /\ m \in 0..7 /\ Half(r) \in 0..1 /\ c + n <= 4
  BY NumberParts, SMTT(30)
<1>2. f \in 0..3 /\ f + n <= 4
  <2>1. CASE Half(r) = 0
    BY <2>1
  <2>2. CASE Half(r) = 1
    BY <2>2
  <2> QED BY <1>1, <2>1, <2>2
<1>3. s = [k \in 0..n * n - 1 |-> s[k]]
  BY DEF MatrixElements
<1>4. \A k \in 0..n * n - 1 :
        /\ Direction(r) = 0 => s[k] = Place(c + (k % n), m, f + (k \div n))
        /\ Direction(r) # 0 => s[k] = Place(f + (k \div n), m, c + (k % n))
  BY MatrixPlaces DEF Over, Down
<1> HIDE DEF c, m, f
<1>5. n \in 1..4 /\ n # 1
  OBVIOUS
<1>6. ASSUME Direction(r) = 0 PROVE HasBox(s, r)
  <2>1. InBox(s, r, c, f, n, n)
    BY <1>1, <1>2, <1>3, <1>4, <1>5, <1>6 DEF InBox, m
  <2> QED BY <1>1, <1>2, <1>5, <2>1 DEF HasBox
<1>7. ASSUME Direction(r) # 0 PROVE HasBox(s, r)
  <2>1. InBox(s, r, f, c, n, n)
    BY <1>1, <1>2, <1>3, <1>4, <1>5, <1>7 DEF InBox, m
  <2> QED BY <1>1, <1>2, <1>5, <2>1 DEF HasBox
<1> QED BY <1>6, <1>7

\* The registers of every operand are boxes.
LEMMA Boxes ==
  ASSUME NEW t, Testable(t), NEW f \in allregs(t), NEW r \in Choice(t, f)
  PROVE  HasBox(Subregs(t, f, r), r) /\ r \in 0..127
<1> DEFINE d == Operand(t, f)
           s == Subregs(t, f, r)
<1>1. <<d.kind, d.n>> \in Sizes /\ s = SubRegs(d.kind, d.n, r)
  BY OperandSizes, OperandRegs
<1>2. r \in RegNumbers(d.kind, d.n)
  BY DEF Choice
<1> HIDE DEF d, s
<1>3. r \in 0..127 /\ (d.kind = "matrix" => Column(r) \in {0, 4 - d.n})
  BY <1>1, <1>2, NumbersOf
<1>4. CASE d.kind \in {"single", "vector"} /\ d.n = 1
  <2>1. s = [k \in {0} |-> r]
    BY <1>1, <1>4, SubRegsCases
  <2> QED BY <1>3, <2>1, SingleBox DEF s
<1>5. CASE d.kind = "vector" /\ d.n \in 2..4
  <2>1. s = VectorElements(d.n, r)
    BY <1>1, <1>5, SubRegsCases
  <2> QED BY <1>3, <1>5, <2>1, VectorBox DEF s
<1>6. CASE d.kind = "matrix" /\ d.n \in 2..4
  <2>1. s = MatrixElements(d.n, r)
    BY <1>1, <1>6, SubRegsCases
  <2> QED BY <1>3, <1>6, <2>1, MatrixBox DEF s
<1> QED BY <1>1, <1>3, <1>4, <1>5, <1>6, SizeCases DEF s

\* Counting through a box, w at a time.
LEMMA Grid ==
  ASSUME NEW w \in 1..4, NEW h \in 1..4
  PROVE  /\ w * h \in Nat /\ w * h >= 1 /\ w * h = h * w
         /\ (w * h - 1) % w = w - 1 /\ (w * h - 1) \div w = h - 1
         /\ \A k \in 0..w * h - 1 : k % w \in 0..w - 1 /\ k \div w \in 0..h - 1
<1>1. CASE w = 1
  BY <1>1
<1>2. CASE w = 2
  BY <1>2
<1>3. CASE w = 3
  BY <1>3
<1>4. CASE w = 4
  BY <1>4
<1> QED BY <1>1, <1>2, <1>3, <1>4

\* What a box says of its elements: the first, the last, and the others.
Spanned(s, r, x, y, w, h) ==
  /\ DOMAIN s = 0..w * h - 1 /\ w * h \in Nat /\ w * h >= 1
  /\ s[0] = Place(x, Matrix(r), y)
  /\ s[w * h - 1] = Place(x + w - 1, Matrix(r), y + h - 1)
  /\ \A k \in 0..w * h - 1 :
       \E u \in x..x + w - 1, v \in y..y + h - 1 : s[k] = Place(u, Matrix(r), v)

\* A box reaches from its first element to its last.
LEMMA BoxSpan ==
  ASSUME NEW s, NEW r \in 0..127, NEW x, NEW y, NEW w, NEW h, InBox(s, r, x, y, w, h)
  PROVE  Spanned(s, r, x, y, w, h)
<1> DEFINE m == Matrix(r)
           N == w * h
<1>1. /\ x \in 0..3 /\ y \in 0..3 /\ w \in 1..4 /\ h \in 1..4
      /\ DOMAIN s = 0..N - 1
  BY DEF InBox
<1>2. /\ N \in Nat /\ N >= 1
      /\ (N - 1) % w = w - 1 /\ (N - 1) \div w = h - 1
      /\ \A k \in 0..N - 1 : k % w \in 0..w - 1 /\ k \div w \in 0..h - 1
  BY <1>1, Grid
<1>3. /\ (N - 1) % h = h - 1 /\ (N - 1) \div h = w - 1
      /\ \A k \in 0..N - 1 : k % h \in 0..h - 1 /\ k \div h \in 0..w - 1
  <2> DEFINE M == h * w
  <2>1. /\ (M - 1) % h = h - 1 /\ (M - 1) \div h = w - 1
        /\ \A k \in 0..M - 1 : k % h \in 0..h - 1 /\ k \div h \in 0..w - 1
    BY <1>1, Grid
  <2>2. M = N
    BY <1>1, Grid
  <2> HIDE DEF M, N
  <2> QED BY <2>1, <2>2
<1>4. /\ Direction(r) = 0 => \A k \in 0..N - 1 : s[k] = Place(x + (k % w), m, y + (k \div w))
      /\ Direction(r) # 0 => \A k \in 0..N - 1 : s[k] = Place(x + (k \div h), m, y + (k % h))
  BY DEF InBox
<1>5. 0 % w = 0 /\ 0 \div w = 0 /\ 0 % h = 0 /\ 0 \div h = 0
  <2>1. \A a \in 1..4 : 0 % a = 0 /\ 0 \div a = 0
    OBVIOUS
  <2> QED BY <1>1, <2>1
<1> HIDE DEF m, N
<1>6. 0 \in 0..N - 1 /\ N - 1 \in 0..N - 1
  BY <1>2
<1>7. x + 0 = x /\ y + 0 = y /\ x + (w - 1) = x + w - 1 /\ y + (h - 1) = y + h - 1
  BY <1>1
<1>8. s[0] = Place(x, m, y)
  BY <1>4, <1>5, <1>6, <1>7
<1>9. s[N - 1] = Place(x + w - 1, m, y + h - 1)
  BY <1>2, <1>3, <1>4, <1>6, <1>7
<1>10. ASSUME NEW k \in 0..N - 1
       PROVE  \E u \in x..x + w - 1, v \in y..y + h - 1 : s[k] = Place(u, m, v)
  <2>1. CASE Direction(r) = 0
    <3> DEFINE a == k % w
               b == k \div w
    <3>1. a \in 0..w - 1 /\ b \in 0..h - 1 /\ s[k] = Place(x + a, m, y + b)
      BY <1>2, <1>4, <2>1
    <3> HIDE DEF a, b
    <3>2. x + a \in x..x + w - 1 /\ y + b \in y..y + h - 1
      BY <1>1, <3>1
    <3> QED BY <3>1, <3>2
  <2>2. CASE Direction(r) # 0
    <3> DEFINE a == k \div h
               b == k % h
    <3>1. a \in 0..w - 1 /\ b \in 0..h - 1 /\ s[k] = Place(x + a, m, y + b)
      BY <1>3, <1>4, <2>2
    <3> HIDE DEF a, b
    <3>2. x + a \in x..x + w - 1 /\ y + b \in y..y + h - 1
      BY <1>1, <3>1
    <3> QED BY <3>1, <3>2
  <2> QED BY <2>1, <2>2
<1> QED BY <1>1, <1>2, <1>8, <1>9, <1>10 DEF m, N, Spanned

\* One register's box lies in another's, of the same matrix.
Within(r, x, y, w, h, q, z, v, a, b) ==
  Matrix(r) = Matrix(q) /\ z <= x /\ x + w <= z + a /\ v <= y /\ y + h <= v + b

\* A box all of whose elements lie in another is within its bounds.
LEMMA BoxWithin ==
  ASSUME NEW s, NEW r \in 0..127, NEW x, NEW y, NEW w, NEW h, InBox(s, r, x, y, w, h),
         NEW t, NEW q \in 0..127, NEW z, NEW v, NEW a, NEW b, InBox(t, q, z, v, a, b),
         Mask(s) \subseteq Mask(t)
  PROVE  Within(r, x, y, w, h, q, z, v, a, b)
<1>1. /\ DOMAIN s = 0..w * h - 1 /\ w * h \in Nat /\ w * h >= 1
      /\ s[0] = Place(x, Matrix(r), y)
      /\ s[w * h - 1] = Place(x + w - 1, Matrix(r), y + h - 1)
  <2>1. Spanned(s, r, x, y, w, h)
    BY BoxSpan
  <2> QED BY <2>1 DEF Spanned
<1>2. /\ DOMAIN t = 0..a * b - 1
      /\ \A k \in 0..a * b - 1 :
           \E u \in z..z + a - 1, c \in v..v + b - 1 : t[k] = Place(u, Matrix(q), c)
  <2>1. Spanned(t, q, z, v, a, b)
    BY BoxSpan
  <2> QED BY <2>1 DEF Spanned
<1>3. /\ x \in 0..3 /\ y \in 0..3 /\ w \in 1..4 /\ h \in 1..4 /\ x + w <= 4 /\ y + h <= 4
  BY DEF InBox
<1>4. /\ z \in 0..3 /\ v \in 0..3 /\ a \in 1..4 /\ b \in 1..4 /\ z + a <= 4 /\ v + b <= 4
  BY DEF InBox
<1>5. Matrix(r) \in 0..7 /\ Matrix(q) \in 0..7
  BY NumberParts
<1>6. ASSUME NEW k \in DOMAIN s
      PROVE  \E u \in z..z + a - 1, c \in v..v + b - 1 : s[k] = Place(u, Matrix(q), c)
  <2>1. s[k] \in Mask(t)
    BY DEF Mask
  <2> QED BY <1>2, <2>1 DEF Mask
<1>7. 0 \in DOMAIN s /\ w * h - 1 \in DOMAIN s
  <2> DEFINE N == w * h
  <2>1. N \in Nat /\ N >= 1 /\ DOMAIN s = 0..N - 1
    BY <1>1
  <2> HIDE DEF N
  <2>2. 0 \in DOMAIN s /\ N - 1 \in DOMAIN s
    BY <2>1
  <2> QED BY <2>2 DEF N
<1>8. ASSUME NEW i \in 0..3, NEW j \in 0..3,
             \E u \in z..z + a - 1, c \in v..v + b - 1 : Place(i, Matrix(r), j) = Place(u, Matrix(q), c)
      PROVE  Matrix(r) = Matrix(q) /\ i \in z..z + a - 1 /\ j \in v..v + b - 1
  <2>1. PICK u \in z..z + a - 1, c \in v..v + b - 1 : Place(i, Matrix(r), j) = Place(u, Matrix(q), c)
    BY <1>8
  <2>2. u \in 0..3 /\ c \in 0..3
    BY <1>4, <2>1
  <2>3. Matrix(r) = Matrix(q)
    BY <1>5, <2>1, <2>2, Places
  <2>4. i = u /\ j = c
    BY <1>5, <2>1, <2>2, <2>3, Places
  <2> QED BY <2>1, <2>3, <2>4
<1>9. Matrix(r) = Matrix(q) /\ x \in z..z + a - 1 /\ y \in v..v + b - 1
  BY <1>1, <1>3, <1>6, <1>7, <1>8
<1>10. x + w - 1 \in z..z + a - 1 /\ y + h - 1 \in v..v + b - 1
  <2>1. x + w - 1 \in 0..3 /\ y + h - 1 \in 0..3
    BY <1>3
  <2> QED BY <1>1, <1>6, <1>7, <1>8, <2>1
<1> QED BY <1>3, <1>4, <1>9, <1>10 DEF Within

\* The generated test's compatible overlap is the assembler tester's: the
\* same list of elements.
LEMMA CompatibleIsSame ==
  ASSUME NEW s, NEW r \in 0..127, HasBox(s, r), NEW t, NEW q \in 0..127, HasBox(t, q)
  PROVE  CompatCollide(r, s, q, t) <=> s = t
<1>1. PICK x, y \in 0..3 : \E w, h \in 1..4 : InBox(s, r, x, y, w, h)
  BY DEF HasBox
<1>2. PICK w, h \in 1..4 : InBox(s, r, x, y, w, h)
  BY <1>1
<1>3. PICK z, v \in 0..3 : \E a, b \in 1..4 : InBox(t, q, z, v, a, b)
  BY DEF HasBox
<1>4. PICK a, b \in 1..4 : InBox(t, q, z, v, a, b)
  BY <1>3
<1>5. ASSUME Mask(s) = Mask(t)
      PROVE  Matrix(r) = Matrix(q) /\ x = z /\ y = v /\ w = a /\ h = b
  <2>1. Mask(s) \subseteq Mask(t) /\ Mask(t) \subseteq Mask(s)
    BY <1>5, SMTT(30)
  <2>2. Within(r, x, y, w, h, q, z, v, a, b)
    BY <1>2, <1>4, <2>1, BoxWithin, ZenonT(60)
  <2>3. Within(q, z, v, a, b, r, x, y, w, h)
    BY <1>2, <1>4, <2>1, BoxWithin
  <2> QED BY <2>2, <2>3 DEF Within
<1>6. Direction(r) \in 0..1 /\ Direction(q) \in 0..1
  BY NumberParts
<1>7. ASSUME CompatCollide(r, s, q, t) PROVE s = t
  <2>1. Direction(r) = Direction(q) /\ Matrix(r) = Matrix(q) /\ InBox(t, q, x, y, w, h)
    BY <1>4, <1>5, <1>7 DEF CompatCollide
  <2> DEFINE N == w * h
  <2>2. s = [k \in 0..N - 1 |-> s[k]] /\ t = [k \in 0..N - 1 |-> t[k]]
    BY <1>2, <2>1 DEF InBox
  <2>3. /\ Direction(r) = 0 => \A k \in 0..N - 1 : s[k] = Place(x + (k % w), Matrix(r), y + (k \div w))
        /\ Direction(r) # 0 => \A k \in 0..N - 1 : s[k] = Place(x + (k \div h), Matrix(r), y + (k % h))
    BY <1>2 DEF InBox
  <2>4. /\ Direction(r) = 0 => \A k \in 0..N - 1 : t[k] = Place(x + (k % w), Matrix(r), y + (k \div w))
        /\ Direction(r) # 0 => \A k \in 0..N - 1 : t[k] = Place(x + (k \div h), Matrix(r), y + (k % h))
    BY <2>1 DEF InBox
  <2> HIDE DEF N
  <2>5. \A k \in 0..N - 1 : s[k] = t[k]
    BY <2>3, <2>4
  <2> QED BY <2>2, <2>5
<1>8. ASSUME s = t PROVE CompatCollide(r, s, q, t)
  <2>1. Mask(s) = Mask(t)
    BY <1>8
  <2>2. Matrix(r) = Matrix(q) /\ InBox(t, q, x, y, w, h)
    BY <1>4, <1>5, <2>1
  <2>3. SUFFICES ASSUME Direction(r) # Direction(q) PROVE FALSE
    BY <2>1 DEF CompatCollide
  \* Read in different directions, the lists of a line or a square differ.
  <2>4. CASE w = 1 /\ h = 1
    <3>1. r = s[0] /\ q = t[0]
      BY <1>2, <2>2, <2>4 DEF InBox
    <3> QED BY <1>8, <2>3, <3>1
  <2>5. CASE ~(w = 1 /\ h = 1)
    <3>1. (w = 1 \/ w = h) /\ (h = 1 \/ w = h)
      BY <1>2, <1>6, <2>2, <2>3 DEF InBox
    <3>2. w = h /\ w >= 2
      BY <2>5, <3>1
    <3>3. w * h - 1 >= 1 /\ w * h \in Nat /\ 1 % w = 1 /\ 1 \div w = 0
      <4>1. w = 2 \/ w = 3 \/ w = 4
        BY <3>2
      <4> QED BY <3>2, <4>1
    <3>4. 1 \in 0..w * h - 1
      BY <3>3
    <3>5. Place(x + 1, Matrix(r), y + 0) = Place(x + 0, Matrix(r), y + 1)
      <4>1. \/ s[1] = Place(x + 1, Matrix(r), y + 0) /\ t[1] = Place(x + 0, Matrix(r), y + 1)
            \/ t[1] = Place(x + 1, Matrix(r), y + 0) /\ s[1] = Place(x + 0, Matrix(r), y + 1)
        <5>1. /\ Direction(r) = 0 => s[1] = Place(x + (1 % w), Matrix(r), y + (1 \div w))
              /\ Direction(r) # 0 => s[1] = Place(x + (1 \div h), Matrix(r), y + (1 % h))
          BY <1>2, <3>4 DEF InBox
        <5>2. /\ Direction(q) = 0 => t[1] = Place(x + (1 % w), Matrix(q), y + (1 \div w))
              /\ Direction(q) # 0 => t[1] = Place(x + (1 \div h), Matrix(q), y + (1 % h))
          BY <2>2, <3>4 DEF InBox
        <5> QED BY <1>6, <2>2, <2>3, <3>2, <3>3, <5>1, <5>2
      <4> QED BY <1>8, <4>1
    <3>6. x + 1 \in 0..3 /\ y + 1 \in 0..3 /\ Matrix(r) \in 0..7
      <4>1. x + w <= 4 /\ y + h <= 4
        BY <1>2 DEF InBox
      <4>2. Matrix(r) \in 0..7
        BY NumberParts
      <4> QED BY <3>2, <4>1, <4>2
    <3> QED BY <3>5, <3>6 DEF Place
  <2> QED BY <2>4, <2>5
<1> QED BY <1>7, <1>8

-----------------------------------------------------------------------------
(* The declared class.                                                      *)

\* What the class says of a choice, in the terms of the generated test.
LEMMA LegalOfClass ==
  ASSUME NEW t, Testable(t), NEW regs, Chosen(t, regs)
  PROVE  LET i == Decoded(t.op, t.shape, regs)
             fits == \A o \in Inputs(t) :
                       \/ CompatCollide(regs[o], Subregs(t, o, regs[o]), regs["rd"], Subregs(t, "rd", regs["rd"]))
                       \/ ~Collide(Subregs(t, o, regs[o]), Subregs(t, "rd", regs["rd"]))
         IN /\ t.shape.compat = "any" => INST!Legal(i)
            /\ t.shape.compat = "partial-overlap" => (INST!Legal(i) <=> fits)
            /\ INST!Legal([i EXCEPT !.compat = "partial-overlap"]) <=> fits
<1> DEFINE i == Decoded(t.op, t.shape, regs)
           j == [i EXCEPT !.compat = "partial-overlap"]
           dst == Subregs(t, "rd", regs["rd"])
           src(o) == Subregs(t, o, regs[o])
           same(o) == CompatCollide(regs[o], src(o), regs["rd"], dst)
           fits == \A o \in Inputs(t) : same(o) \/ ~Collide(src(o), dst)
<1>1. /\ i.compat = t.shape.compat /\ i.dst = dst /\ DOMAIN i.src = Inputs(t)
      /\ \A o \in Inputs(t) : i.src[o] = src(o)
  BY DecodedFields
<1>2. j.compat = "partial-overlap" /\ j.dst = i.dst /\ j.src = i.src
  BY DEF Decoded
<1>3. ASSUME NEW o \in Inputs(t)
      PROVE  same(o) <=> src(o) = dst
  <2>1. o \in allregs(t) /\ "rd" \in allregs(t)
    BY DEF allregs
  <2>2. regs[o] \in Choice(t, o) /\ regs["rd"] \in Choice(t, "rd")
    BY <2>1 DEF Chosen
  <2>3. HasBox(src(o), regs[o]) /\ regs[o] \in 0..127
    BY <2>1, <2>2, Boxes
  <2>4. HasBox(dst, regs["rd"]) /\ regs["rd"] \in 0..127
    BY <2>1, <2>2, Boxes
  <2> HIDE DEF dst, src
  <2> QED BY <2>3, <2>4, CompatibleIsSame
<1> HIDE DEF i, j, dst, src, same
<1>4. ASSUME NEW k, k.dst = dst, k.src = i.src
      PROVE  (\A o \in INST!Operands(k) : INST!Elems(k.dst) \cap INST!Elems(k.src[o]) = {} \/ k.src[o] = k.dst)
               <=> fits
  <2>1. INST!Operands(k) = Inputs(t)
    BY <1>1, <1>4 DEF INST!Operands
  <2>2. ASSUME NEW o \in Inputs(t)
        PROVE  (INST!Elems(k.dst) \cap INST!Elems(k.src[o]) = {} \/ k.src[o] = k.dst)
                 <=> (same(o) \/ ~Collide(src(o), dst))
    <3>1. INST!Elems(k.dst) \cap INST!Elems(k.src[o]) = {} <=> ~Collide(src(o), dst)
      BY <1>1, <1>4 DEF INST!Elems, Collide, Mask
    <3>2. k.src[o] = k.dst <=> same(o)
      BY <1>1, <1>3, <1>4
    <3> QED BY <3>1, <3>2
  <2> HIDE DEF fits
  <2>3. fits <=> \A o \in Inputs(t) : same(o) \/ ~Collide(src(o), dst)
    BY DEF fits
  <2> QED BY <2>1, <2>2, <2>3
<1> HIDE DEF fits
<1>5. t.shape.compat = "any" => INST!Legal(i)
  BY <1>1 DEF INST!Legal
<1>6. t.shape.compat = "partial-overlap" => (INST!Legal(i) <=> fits)
  BY <1>1, <1>4 DEF INST!Legal
<1>7. INST!Legal(j) <=> fits
  BY <1>1, <1>2, <1>4 DEF INST!Legal
<1> QED BY <1>5, <1>6, <1>7 DEF i, j, fits, same, src, dst

\* A failing try, in full.
LEMMA FailureCounted ==
  ASSUME HarnessInv, TryOutput, out' # expected
  PROVE  /\ entry \in 1..Len(Tests) /\ info[entry] \in Counters
         /\ \A e \in 1..Len(Tests) : e # entry => info'[e] = info[e]
         /\ info'[entry].compat_overlap_errors
              = info[entry].compat_overlap_errors + (IF Tolerable THEN 1 ELSE 0)
         /\ Tolerable <=> INST!Legal([Tried EXCEPT !.compat = "partial-overlap"])
         /\ test.shape.compat # "any"
         /\ test.shape.compat = "partial-overlap" => ~Tolerable
<1> DEFINE c == info[entry]
           bad == CountError(c)
<1>1. /\ entry \in 1..Len(Tests) /\ c \in Counters /\ basew' \in [Fields -> 0..127]
      /\ \A e \in 1..Len(Tests) : e # entry => info'[e] = info[e]
      /\ info'[entry] = OneMore(bad)
  BY TryCounts
<1> HIDE DEF c
<1>2. bad \in Counters
      /\ bad.compat_overlap_errors = c.compat_overlap_errors + (IF Collided /\ Tolerable THEN 1 ELSE 0)
  BY <1>1, Counted
<1> HIDE DEF bad
<1>3. OneMore(bad).compat_overlap_errors = bad.compat_overlap_errors
  BY <1>2, OneMoreTest
<1>4. Collided
  BY WrongCollides
<1>5. info'[entry].compat_overlap_errors = c.compat_overlap_errors + (IF Tolerable THEN 1 ELSE 0)
  BY <1>1, <1>2, <1>3, <1>4
<1>6. Testable(test) /\ Chosen(test, basew') /\ ~INST!Legal(Tried)
  BY TryStub
<1>7. /\ test.shape.compat = "any" => INST!Legal(Tried)
      /\ test.shape.compat = "partial-overlap" => (INST!Legal(Tried) <=> Tolerable)
      /\ INST!Legal([Tried EXCEPT !.compat = "partial-overlap"]) <=> Tolerable
  <2> DEFINE fits == \A o \in Inputs(test) :
                       \/ CompatCollide(basew'[o], Subregs(test, o, basew'[o]),
                                        basew'["rd"], Subregs(test, "rd", basew'["rd"]))
                       \/ ~Collide(Subregs(test, o, basew'[o]), Subregs(test, "rd", basew'["rd"]))
  <2>1. Tolerable <=> fits
    BY DEF Tolerable, regcol, regcompatcol
  <2>2. /\ test.shape.compat = "any" => INST!Legal(Tried)
        /\ test.shape.compat = "partial-overlap" => (INST!Legal(Tried) <=> fits)
        /\ INST!Legal([Tried EXCEPT !.compat = "partial-overlap"]) <=> fits
    BY <1>6, LegalOfClass DEF Tried
  <2> HIDE DEF fits
  <2> QED BY <2>1, <2>2
<1> QED BY <1>1, <1>5, <1>6, <1>7 DEF c

\* A failure is counted as compatible exactly when the assembler tester
\* would accept the choice for a partial-overlap instruction.
THEOREM NotionsAgree == Spec => OverlapNotionsAgree
<1> DEFINE Agree == (info'[entry].compat_overlap_errors # info[entry].compat_overlap_errors)
                      = INST!Legal([Tried EXCEPT !.compat = "partial-overlap"])
<1>1. ASSUME HarnessInv, [Next]_vars, Failing PROVE Agree
  <2>1. TryOutput /\ out' # expected
    BY <1>1, FailingTry
  <2>2. /\ info[entry] \in Counters
        /\ info'[entry].compat_overlap_errors
             = info[entry].compat_overlap_errors + (IF Tolerable THEN 1 ELSE 0)
        /\ Tolerable <=> INST!Legal([Tried EXCEPT !.compat = "partial-overlap"])
    BY <1>1, <2>1, FailureCounted
  <2>3. info[entry].compat_overlap_errors \in Nat
    BY <2>2 DEF Counters
  <2>4. info'[entry].compat_overlap_errors # info[entry].compat_overlap_errors <=> Tolerable
    BY <2>2, <2>3
  <2>5. INST!Legal([Tried EXCEPT !.compat = "partial-overlap"]) \in BOOLEAN
    BY DEF INST!Legal
  <2> QED BY <2>2, <2>4, <2>5
<1>2. HarnessInv /\ [Next]_vars => [Failing => Agree]_vars
  BY <1>1
<1> QED BY <1>2, HarnessAlways, PTL DEF Spec, OverlapNotionsAgree

\* The report never contradicts a declared class: an unrestricted
\* instruction never fails, a partial-overlap one never on identical registers.
THEOREM ClassesHonoured == Spec => []ClassHonoured
<1> DEFINE Ok(e) == /\ Tests[e].shape.compat = "any" => info[e].test_errs = 0
                    /\ Tests[e].shape.compat = "partial-overlap" => info[e].compat_overlap_errors = 0
           Inv == \A e \in 1..Len(Tests) : Ok(e)
<1>1. Init => Inv
  BY DEF Init, NoCounts
<1>2. HarnessInv /\ Inv /\ [Next]_vars => Inv'
  <2> SUFFICES ASSUME HarnessInv, Inv, [Next]_vars PROVE Inv'
    OBVIOUS
  <2>1. CASE TryOutput /\ out' = expected
    <3>1. /\ entry \in 1..Len(Tests) /\ info[entry] \in Counters
          /\ \A e \in 1..Len(Tests) : e # entry => info'[e] = info[e]
          /\ info'[entry] = OneMore(info[entry])
      BY <2>1, TryCounts
    <3>2. /\ OneMore(info[entry]).test_errs = info[entry].test_errs
          /\ OneMore(info[entry]).compat_overlap_errors = info[entry].compat_overlap_errors
      BY <3>1, OneMoreTest
    <3> QED BY <3>1, <3>2
  <2>2. CASE TryOutput /\ out' # expected
    <3>1. /\ entry \in 1..Len(Tests) /\ info[entry] \in Counters
          /\ \A e \in 1..Len(Tests) : e # entry => info'[e] = info[e]
          /\ info'[entry].compat_overlap_errors
               = info[entry].compat_overlap_errors + (IF Tolerable THEN 1 ELSE 0)
          /\ test.shape.compat # "any"
          /\ test.shape.compat = "partial-overlap" => ~Tolerable
      BY <2>2, FailureCounted
    <3>2. info[entry].compat_overlap_errors \in Nat
      BY <3>1 DEF Counters
    <3>3. test.shape.compat = "partial-overlap" => info'[entry].compat_overlap_errors = 0
      BY <3>1, <3>2 DEF test
    <3> QED BY <3>1, <3>3 DEF test
  <2>3. CASE info' = info
    BY <2>3
  <2>4. TryOutput \/ info' = info
    BY DEF Next, StartTest, ReferenceRun, SelectInput, LeaveLoop, vars
  <2> QED BY <2>1, <2>2, <2>3, <2>4
<1>3. HarnessInv /\ ErrorsAccounted /\ Inv => ClassHonoured
  <2> SUFFICES ASSUME HarnessInv, ErrorsAccounted, Inv, NEW e \in 1..Len(Tests)
               PROVE  /\ Tests[e].shape.compat = "any" => compat(e) = "[ALL-REGS]"
                      /\ Tests[e].shape.compat = "partial-overlap" => compat(e) # "[NO-OVERL]"
    BY DEF ClassHonoured
  <2>1. /\ info[e].nonoverlap_errors \in Nat /\ info[e].compat_overlap_errors \in Nat
        /\ info[e].incompat_overlap_errors \in Nat
    BY DEF HarnessInv, InfoType, Counters
  <2>2. info[e].test_errs = info[e].nonoverlap_errors + info[e].compat_overlap_errors
                              + info[e].incompat_overlap_errors
    BY DEF ErrorsAccounted
  <2>3. ASSUME Tests[e].shape.compat = "any" PROVE compat(e) = "[ALL-REGS]"
    <3>1. info[e].test_errs = 0
      BY <2>3
    <3>2. info[e].compat_overlap_errors = 0 /\ info[e].incompat_overlap_errors = 0
      <4> DEFINE x == info[e].nonoverlap_errors
                 y == info[e].compat_overlap_errors
                 z == info[e].incompat_overlap_errors
      <4>1. x \in Nat /\ y \in Nat /\ z \in Nat /\ x + y + z = 0
        BY <2>1, <2>2, <3>1
      <4> HIDE DEF x, y, z
      <4>2. y = 0 /\ z = 0
        BY <4>1
      <4> QED BY <4>2 DEF y, z
    <3> QED BY <3>2 DEF compat
  <2>4. ASSUME Tests[e].shape.compat = "partial-overlap" PROVE compat(e) # "[NO-OVERL]"
    <3>1. info[e].compat_overlap_errors = 0
      BY <2>4
    <3>2. CASE info[e].incompat_overlap_errors = 0
      BY <3>1, <3>2 DEF compat
    <3>3. CASE info[e].incompat_overlap_errors # 0
      BY <3>1, <3>3 DEF compat
    <3> QED BY <3>2, <3>3
  <2> QED BY <2>3, <2>4
<1> QED BY <1>1, <1>2, <1>3, HarnessAlways, AccountedAlways, PTL DEF Spec

-----------------------------------------------------------------------------
(* The sweep: the nest of loops as an order on the choices. What it has     *)
(* gone through (SweptAt) grows by one choice with every try, stays as it   *)
(* is when a loop is entered or left, and is everything at the end.         *)

\* No number is left out of a sorted table, and none is in it twice.
LEMMA AscendingOnce ==
  ASSUME NEW S \in SUBSET (0..127)
  PROVE  /\ \A k, l \in 1..Cardinality(S) : Ascending(S)[k] = Ascending(S)[l] => k = l
         /\ \A r \in S : \E k \in 1..Cardinality(S) : Ascending(S)[k] = r
<1> DEFINE below(r) == {q \in S : q < r}
           n        == Cardinality(S)
           a(k)     == Ascending(S)[k]
<1>1. IsFiniteSet(S) /\ n \in Nat
  BY NumbersFinite
<1>2. \A k \in 1..n : a(k) \in S /\ Cardinality(below(a(k))) = k - 1
  BY AscendingMember
<1>3. \A q \in S : q \in Int
  OBVIOUS
<1>4. \A r \in S : IsFiniteSet(below(r)) /\ Cardinality(below(r)) \in Nat
  BY <1>1, FS_Subset, FS_CardinalityType
\* A smaller number has fewer before it.
<1>5. ASSUME NEW q \in S, NEW r \in S, q < r
      PROVE  Cardinality(below(q)) < Cardinality(below(r))
  <2>1. q \notin below(q) /\ below(q) \cup {q} \subseteq below(r)
    <3>1. \A x \in S : x < q => x < r
      BY <1>3, <1>5
    <3>2. ~(q < q)
      BY <1>3
    <3> QED BY <1>5, <3>1, <3>2
  <2> HIDE DEF below
  <2>2. Cardinality(below(q) \cup {q}) = Cardinality(below(q)) + 1
    BY <1>4, <2>1, FS_AddElement
  <2>3. Cardinality(below(q) \cup {q}) <= Cardinality(below(r))
    BY <1>4, <2>1, FS_Subset
  <2> QED BY <1>4, <2>2, <2>3
<1>6. ASSUME NEW r \in S PROVE Cardinality(below(r)) < n
  <2>1. r \notin below(r) /\ below(r) \cup {r} \subseteq S
    BY <1>3
  <2> HIDE DEF below
  <2>2. Cardinality(below(r) \cup {r}) = Cardinality(below(r)) + 1
    BY <1>4, <2>1, FS_AddElement
  <2>3. Cardinality(below(r) \cup {r}) <= n
    BY <1>1, <2>1, FS_Subset
  <2> QED BY <1>1, <1>4, <2>2, <2>3
<1> HIDE DEF below, n, a
<1>7. \A k, l \in 1..n : a(k) = a(l) => k = l
  <2> SUFFICES ASSUME NEW k \in 1..n, NEW l \in 1..n, a(k) = a(l) PROVE k = l
    OBVIOUS
  <2>1. k - 1 = l - 1
    BY <1>2
  <2> QED BY <2>1, <1>1
<1>8. ASSUME NEW r \in S PROVE \E k \in 1..n : a(k) = r
  <2>1. PICK c \in Nat : c = Cardinality(below(r))
    BY <1>4
  <2>2. c + 1 \in 1..n /\ (c + 1) - 1 = c
    BY <1>1, <1>6, <2>1
  <2>3. PICK x \in S : x = a(c + 1) /\ Cardinality(below(x)) = c
    BY <1>2, <2>2
  <2>4. ~(x < r)
    <3>1. ~(c < c)
      OBVIOUS
    <3> QED BY <1>5, <2>1, <2>3, <3>1
  <2>5. ~(r < x)
    <3>1. ~(c < c)
      OBVIOUS
    <3> QED BY <1>5, <2>1, <2>3, <3>1
  <2>6. x = r
    BY <1>3, <2>4, <2>5
  <2> QED BY <2>2, <2>3, <2>6
<1> QED BY <1>7, <1>8 DEF n, a

\* A loop over an operand's table goes through each of its numbers once.
LEMMA NumbersOnce ==
  ASSUME NEW t, Testable(t), NEW f \in allregs(t)
  PROVE  /\ \A k, l \in 1..Len(Numbers(t, f)) : Numbers(t, f)[k] = Numbers(t, f)[l] => k = l
         /\ \A r \in Choice(t, f) : \E k \in 1..Len(Numbers(t, f)) : Numbers(t, f)[k] = r
<1>1. Choice(t, f) \in SUBSET (0..127)
  BY OperandSizes
<1>2. Numbers(t, f) = Ascending(Choice(t, f))
  BY SortedNumbers
<1> HIDE DEF Choice
<1>3. Len(Numbers(t, f)) = Cardinality(Choice(t, f))
  BY <1>1, <1>2, AscendingSeq
<1> QED BY <1>1, <1>2, <1>3, AscendingOnce

\* The choices of a test by its operands: any numbers, two inputs apart.
LEMMA ChoiceFacts ==
  ASSUME NEW t, Testable(t)
  PROVE  /\ \A c \in Choices(t) : Chosen(t, c) /\ Apart(t, c)
         /\ \A c, d \in Choices(t) : (\A f \in allregs(t) : c[f] = d[f]) => c = d
         /\ \A regs : Chosen(t, regs) /\ Apart(t, regs)
                        => \E c \in Choices(t) : \A f \in allregs(t) : c[f] = regs[f]
<1> DEFINE D == Choice(t, "rd")
           S == Choice(t, "rs")
           T == Choice(t, "rt")
<1>1. D = RegNumbers(t.shape.out.kind, t.shape.out.n)
  BY DEF Choice, Operand
<1>2. S = RegNumbers(t.shape.in["rs"].kind, t.shape.in["rs"].n)
  BY DEF Choice, Operand
<1>3. T = RegNumbers(t.shape.in["rt"].kind, t.shape.in["rt"].n)
  BY DEF Choice, Operand
<1>4. CASE Inputs(t) = {}
  <2>1. RegisterChoices(t.shape) = [rd : D]
    BY <1>1, <1>4 DEF RegisterChoices, Inputs
  <2>2. Cardinality(Inputs(t)) # 2
    BY <1>4, FS_EmptySet
  <2>3. Choices(t) = [rd : D]
    BY <2>1, <2>2 DEF Choices
  <2>4. allregs(t) = {"rd"}
    BY <1>4 DEF allregs
  <2> HIDE DEF D
  <2>5. \A c \in [rd : D] : c["rd"] \in D
    OBVIOUS
  <2>6. \A c, d \in [rd : D] : c["rd"] = d["rd"] => c = d
    OBVIOUS
  <2>7. \A x \in D : [rd |-> x] \in [rd : D] /\ [rd |-> x]["rd"] = x
    OBVIOUS
  <2>8. \A c \in Choices(t) : Chosen(t, c) /\ Apart(t, c)
    BY <1>4, <2>3, <2>4, <2>5 DEF Chosen, Apart, D
  <2>9. \A regs : Chosen(t, regs) => \E c \in Choices(t) : \A f \in allregs(t) : c[f] = regs[f]
    BY <2>3, <2>4, <2>7 DEF Chosen, D
  <2> QED BY <2>3, <2>4, <2>6, <2>8, <2>9
<1>5. CASE Inputs(t) = {"rs"}
  <2>1. RegisterChoices(t.shape) = [rd : D, rs : S]
    <3>1. {"rs"} # {} /\ {"rs"} \ {"rd"} = {"rs"}
      OBVIOUS
    <3> QED BY <1>1, <1>2, <1>5, <3>1 DEF RegisterChoices, Inputs
  <2>2. Cardinality(Inputs(t)) # 2
    BY <1>5, FS_Singleton
  <2>3. Choices(t) = [rd : D, rs : S]
    BY <2>1, <2>2 DEF Choices
  <2>4. allregs(t) = {"rd", "rs"}
    BY <1>5 DEF allregs
  <2> HIDE DEF D, S
  <2>5. \A c \in [rd : D, rs : S] : c["rd"] \in D /\ c["rs"] \in S
    OBVIOUS
  <2>6. \A c, d \in [rd : D, rs : S] : c["rd"] = d["rd"] /\ c["rs"] = d["rs"] => c = d
    OBVIOUS
  <2>7. ASSUME NEW x \in D, NEW y \in S
        PROVE  \E c \in [rd : D, rs : S] : c["rd"] = x /\ c["rs"] = y
    <3> WITNESS [rd |-> x, rs |-> y] \in [rd : D, rs : S]
    <3> QED OBVIOUS
  <2>8. \A c \in Choices(t) : Chosen(t, c) /\ Apart(t, c)
    BY <1>5, <2>3, <2>4, <2>5 DEF Chosen, Apart, D, S
  <2>9. ASSUME NEW regs, Chosen(t, regs)
        PROVE  \E c \in Choices(t) : \A f \in allregs(t) : c[f] = regs[f]
    <3>1. regs["rd"] \in D /\ regs["rs"] \in S
      BY <2>4, <2>9 DEF Chosen, D, S
    <3>2. \E c \in Choices(t) : c["rd"] = regs["rd"] /\ c["rs"] = regs["rs"]
      BY <2>3, <2>7, <3>1
    <3> QED BY <2>4, <3>2
  <2> QED BY <2>3, <2>4, <2>6, <2>8, <2>9
<1>6. CASE Inputs(t) = {"rs", "rt"}
  <2> DEFINE R     == [rd : D, rs : S, rt : T]
             ok(c) == ~Collide(Subregs(t, "rs", c["rs"]), Subregs(t, "rt", c["rt"]))
  <2>1. RegisterChoices(t.shape) = R
    <3>1. {"rs", "rt"} # {} /\ {"rs", "rt"} \ {"rd"} # {"rs"}
      OBVIOUS
    <3> QED BY <1>1, <1>2, <1>3, <1>6, <3>1 DEF RegisterChoices, Inputs
  <2>2. Cardinality(Inputs(t)) = 2
    BY <1>6, TwoInputs
  <2>3. Choices(t) = {c \in R : ok(c)}
    BY <2>1, <2>2 DEF Choices
  <2>4. allregs(t) = {"rd", "rs", "rt"}
    BY <1>6 DEF allregs
  <2> HIDE DEF D, S, T
  <2>5. \A c \in R : c["rd"] \in D /\ c["rs"] \in S /\ c["rt"] \in T
    OBVIOUS
  <2>6. \A c, d \in R : c["rd"] = d["rd"] /\ c["rs"] = d["rs"] /\ c["rt"] = d["rt"] => c = d
    OBVIOUS
  <2>7. ASSUME NEW x \in D, NEW y \in S, NEW z \in T
        PROVE  \E c \in R : c["rd"] = x /\ c["rs"] = y /\ c["rt"] = z
    <3> WITNESS [rd |-> x, rs |-> y, rt |-> z] \in R
    <3> QED OBVIOUS
  <2> HIDE DEF R
  <2>8. \A c \in Choices(t) : Chosen(t, c)
    BY <2>3, <2>4, <2>5 DEF Chosen, D, S, T
  <2>9. \A c \in Choices(t) : Apart(t, c)
    <3>1. \A c \in Choices(t) : ok(c)
      BY <2>3
    <3> QED BY <2>2, <3>1, ApartWhenTwo
  <2>10. ASSUME NEW regs, Chosen(t, regs), Apart(t, regs)
         PROVE  \E c \in Choices(t) : \A f \in allregs(t) : c[f] = regs[f]
    <3>1. regs["rd"] \in D /\ regs["rs"] \in S /\ regs["rt"] \in T
      BY <2>4, <2>10 DEF Chosen, D, S, T
    <3>2. ok(regs)
      <4>1. "rs" # "rt"
        OBVIOUS
      <4> QED BY <1>6, <2>10, <4>1 DEF Apart
    <3>3. PICK c \in R : c["rd"] = regs["rd"] /\ c["rs"] = regs["rs"] /\ c["rt"] = regs["rt"]
      BY <2>7, <3>1
    <3>4. c \in Choices(t)
      BY <2>3, <3>2, <3>3
    <3> QED BY <2>4, <3>3, <3>4
  <2> QED BY <2>3, <2>4, <2>6, <2>8, <2>9, <2>10
<1> QED BY <1>4, <1>5, <1>6, InputCases

\* There are only so many choices.
LEMMA ChoicesFinite ==
  ASSUME NEW t, Testable(t)
  PROVE  IsFiniteSet(Choices(t)) /\ Cardinality(Choices(t)) \in Nat
<1> DEFINE N       == 0..127
           v(c, f) == IF f \in allregs(t) THEN c[f] ELSE 0
           g       == [c \in Choices(t) |-> <<<<v(c, "rs"), v(c, "rt")>>, v(c, "rd")>>]
<1>1. IsFiniteSet(N)
  BY NumbersFinite
<1>2. IsFiniteSet((N \X N) \X N)
  <2> HIDE DEF N
  <2>1. IsFiniteSet(N \X N)
    BY <1>1, FS_Product
  <2> QED BY <1>1, <2>1, FS_Product
<1>3. ASSUME NEW c \in Choices(t), NEW f PROVE v(c, f) \in N
  <2>1. CASE f \in allregs(t)
    BY <1>3, <2>1, ChoiceFacts, OperandSizes DEF Chosen
  <2>2. CASE f \notin allregs(t)
    BY <2>2
  <2> QED BY <2>1, <2>2
<1>4. allregs(t) \subseteq {"rs", "rt", "rd"}
  BY NestFacts DEF Fields
<1>5. ASSUME NEW c \in Choices(t), NEW d \in Choices(t), g[c] = g[d]
      PROVE  c = d
  <2>1. v(c, "rs") = v(d, "rs") /\ v(c, "rt") = v(d, "rt") /\ v(c, "rd") = v(d, "rd")
    <3> HIDE DEF v
    <3> QED BY <1>5
  <2>2. \A f \in allregs(t) : c[f] = d[f]
    BY <1>4, <2>1
  <2> QED BY <2>2, ChoiceFacts
<1> HIDE DEF v
<1>6. g \in [Choices(t) -> (N \X N) \X N]
  <2> HIDE DEF N
  <2> QED BY <1>3
<1> HIDE DEF g, N
<1>7. g \in Injection(Choices(t), (N \X N) \X N)
  BY <1>5, <1>6 DEF Injection, IsInjective
<1> QED BY <1>2, <1>7, FS_Injection, FS_CardinalityType

\* The first n numbers of an operand's table.
Passed(t, f, n) == {Numbers(t, f)[k] : k \in 1..n}

\* A choice the nest has gone through: the loops around some loop stand
\* where the choice has them, and that loop is past its number.
Behind(t, w, a, l, c) ==
  LET s == itregs(t)
  IN \E k \in 1..l : /\ c[s[k]] \in Passed(t, s[k], a[s[k]])
                     /\ \A j \in 1..k - 1 : c[s[j]] = w[s[j]]

SweptAt(t, w, a, l) == {c \in Choices(t) : Behind(t, w, a, l, c)}

\* One more number of a table.
LEMMA PassedMore ==
  ASSUME NEW t, NEW f, NEW n \in Nat
  PROVE  Passed(t, f, n + 1) = Passed(t, f, n) \cup {Numbers(t, f)[n + 1]}
<1>1. 1..n + 1 = (1..n) \cup {n + 1}
  OBVIOUS
<1> DEFINE b(k) == Numbers(t, f)[k]
<1>2. Passed(t, f, n + 1) = {b(k) : k \in 1..n + 1} /\ Passed(t, f, n) = {b(k) : k \in 1..n}
  BY DEF Passed
<1> HIDE DEF b
<1>3. {b(k) : k \in 1..n + 1} = {b(k) : k \in 1..n} \cup {b(n + 1)}
  BY <1>1
<1> QED BY <1>2, <1>3 DEF b

\* A loop that starts has gone through nothing.
LEMMA SweptNone ==
  ASSUME NEW t, NEW w, NEW a, a[itregs(t)[1]] = 0
  PROVE  SweptAt(t, w, a, 1) = {}
<1>1. Passed(t, itregs(t)[1], 0) = {}
  BY DEF Passed
<1>2. 1..1 = {1}
  OBVIOUS
<1> QED BY <1>1, <1>2 DEF SweptAt, Behind

\* Entering the next loop goes through nothing.
LEMMA SweptInward ==
  ASSUME NEW t, NEW w, NEW a, NEW v, NEW b, NEW l \in Nat,
         b[itregs(t)[l + 1]] = 0,
         \A j \in 1..l : b[itregs(t)[j]] = a[itregs(t)[j]],
         \A j \in 1..l - 1 : v[itregs(t)[j]] = w[itregs(t)[j]]
  PROVE  SweptAt(t, v, b, l + 1) = SweptAt(t, w, a, l)
<1> DEFINE s        == itregs(t)
           P(u, x, k, c) == /\ c[s[k]] \in Passed(t, s[k], x[s[k]])
                            /\ \A j \in 1..k - 1 : c[s[j]] = u[s[j]]
<1>1. 1..l + 1 = (1..l) \cup {l + 1}
  OBVIOUS
<1>2. ASSUME NEW c PROVE ~P(v, b, l + 1, c)
  BY DEF Passed
<1>3. ASSUME NEW c, NEW k \in 1..l PROVE P(v, b, k, c) <=> P(w, a, k, c)
  <2>1. \A j \in 1..k - 1 : j \in 1..l - 1
    OBVIOUS
  <2> QED BY <2>1
<1>4. \A c : Behind(t, v, b, l + 1, c) <=> \E k \in 1..l + 1 : P(v, b, k, c)
  BY DEF Behind
<1>5. \A c : Behind(t, w, a, l, c) <=> \E k \in 1..l : P(w, a, k, c)
  BY DEF Behind
<1> HIDE DEF P
<1>6. \A c : Behind(t, v, b, l + 1, c) <=> Behind(t, w, a, l, c)
  BY <1>1, <1>2, <1>3, <1>4, <1>5
<1> QED BY <1>6 DEF SweptAt

\* The next number of a loop goes through the choices that have it.
LEMMA SweptOn ==
  ASSUME NEW t, NEW w, NEW a, NEW v, NEW b, NEW l \in Nat \ {0},
         a[itregs(t)[l]] \in Nat, b[itregs(t)[l]] = a[itregs(t)[l]] + 1,
         v[itregs(t)[l]] = Numbers(t, itregs(t)[l])[a[itregs(t)[l]] + 1],
         \A j \in 1..l - 1 : b[itregs(t)[j]] = a[itregs(t)[j]] /\ v[itregs(t)[j]] = w[itregs(t)[j]]
  PROVE  SweptAt(t, v, b, l)
           = SweptAt(t, w, a, l) \cup {c \in Choices(t) : \A j \in 1..l : c[itregs(t)[j]] = v[itregs(t)[j]]}
<1> DEFINE s        == itregs(t)
           P(u, x, k, c) == /\ c[s[k]] \in Passed(t, s[k], x[s[k]])
                            /\ \A j \in 1..k - 1 : c[s[j]] = u[s[j]]
           Q(c)     == \A j \in 1..l : c[s[j]] = v[s[j]]
<1>1. 1..l = (1..l - 1) \cup {l}
  OBVIOUS
<1>2. Passed(t, s[l], b[s[l]]) = Passed(t, s[l], a[s[l]]) \cup {v[s[l]]}
  <2>1. PICK n \in Nat : n = a[s[l]]
    OBVIOUS
  <2>2. PICK f : f = s[l]
    OBVIOUS
  <2>3. Passed(t, f, n + 1) = Passed(t, f, n) \cup {Numbers(t, f)[n + 1]}
    BY PassedMore
  <2>4. b[f] = n + 1 /\ v[f] = Numbers(t, f)[n + 1] /\ a[f] = n
    BY <2>1, <2>2
  <2> QED BY <2>2, <2>3, <2>4
<1>3. ASSUME NEW c PROVE P(v, b, l, c) <=> P(w, a, l, c) \/ Q(c)
  BY <1>1, <1>2
<1>4. ASSUME NEW c, NEW k \in 1..l - 1 PROVE P(v, b, k, c) <=> P(w, a, k, c)
  <2>1. \A j \in 1..k - 1 : j \in 1..l - 1
    OBVIOUS
  <2> QED BY <2>1
<1>5. \A c : Behind(t, v, b, l, c) <=> \E k \in 1..l : P(v, b, k, c)
  BY DEF Behind
<1>6. \A c : Behind(t, w, a, l, c) <=> \E k \in 1..l : P(w, a, k, c)
  BY DEF Behind
<1> HIDE DEF P
<1>7. \A c : Behind(t, v, b, l, c) <=> Behind(t, w, a, l, c) \/ Q(c)
  BY <1>1, <1>3, <1>4, <1>5, <1>6
<1> HIDE DEF Q
<1>8. SweptAt(t, v, b, l) = SweptAt(t, w, a, l) \cup {c \in Choices(t) : Q(c)}
  BY <1>7 DEF SweptAt
<1> QED BY <1>8 DEF Q

\* A loop at its end has gone through all that its surroundings allow.
LEMMA AllPassed ==
  ASSUME NEW t, Testable(t), NEW f \in allregs(t), NEW c \in Choices(t)
  PROVE  c[f] \in Passed(t, f, Len(Numbers(t, f)))
<1>1. c[f] \in Choice(t, f)
  BY ChoiceFacts DEF Chosen
<1>2. \E k \in 1..Len(Numbers(t, f)) : Numbers(t, f)[k] = c[f]
  BY <1>1, NumbersOnce
<1> QED BY <1>2 DEF Passed

\* The end of a loop is the next number of the one around it.
LEMMA SweptOutward ==
  ASSUME NEW t, Testable(t), NEW w, NEW a, NEW b, NEW l \in Nat \ {0}, l + 1 <= Len(itregs(t)),
         a[itregs(t)[l]] \in Nat, b[itregs(t)[l]] = a[itregs(t)[l]] + 1,
         w[itregs(t)[l]] = Numbers(t, itregs(t)[l])[a[itregs(t)[l]] + 1],
         \A j \in 1..l - 1 : b[itregs(t)[j]] = a[itregs(t)[j]],
         a[itregs(t)[l + 1]] = Len(Numbers(t, itregs(t)[l + 1]))
  PROVE  SweptAt(t, w, b, l) = SweptAt(t, w, a, l + 1)
<1> DEFINE s        == itregs(t)
           P(k, c)  == /\ c[s[k]] \in Passed(t, s[k], a[s[k]])
                       /\ \A j \in 1..k - 1 : c[s[j]] = w[s[j]]
           Q(c)     == \A j \in 1..l : c[s[j]] = w[s[j]]
<1>1. SweptAt(t, w, b, l) = SweptAt(t, w, a, l) \cup {c \in Choices(t) : Q(c)}
  BY SweptOn
<1>2. s[l + 1] \in allregs(t)
  <2>1. Len(s) \in 1..3 /\ l + 1 \in 1..Len(s)
    BY NestFacts
  <2> QED BY <2>1, NestFacts
<1>3. ASSUME NEW c \in Choices(t) PROVE P(l + 1, c) <=> Q(c)
  <2>1. c[s[l + 1]] \in Passed(t, s[l + 1], a[s[l + 1]])
    BY <1>2, AllPassed
  <2>2. (l + 1) - 1 = l
    OBVIOUS
  <2> QED BY <2>1, <2>2
<1>4. 1..l + 1 = (1..l) \cup {l + 1}
  OBVIOUS
<1>5. \A c : Behind(t, w, a, l, c) <=> \E k \in 1..l : P(k, c)
  BY DEF Behind
<1>6. \A c : Behind(t, w, a, l + 1, c) <=> \E k \in 1..l + 1 : P(k, c)
  BY DEF Behind
<1> HIDE DEF P, Q
<1>7. \A c \in Choices(t) : Behind(t, w, a, l + 1, c) <=> Behind(t, w, a, l, c) \/ Q(c)
  BY <1>3, <1>4, <1>5, <1>6
<1> QED BY <1>1, <1>7 DEF SweptAt

\* The end of the outermost loop is the end of the round.
LEMMA SweptAll ==
  ASSUME NEW t, Testable(t), NEW w, NEW a,
         a[itregs(t)[1]] = Len(Numbers(t, itregs(t)[1]))
  PROVE  SweptAt(t, w, a, 1) = Choices(t)
<1> DEFINE s == itregs(t)
<1>1. s[1] \in allregs(t)
  <2>1. Len(s) \in 1..3 /\ 1 \in 1..Len(s)
    BY NestFacts
  <2> QED BY <2>1, NestFacts
<1>2. ASSUME NEW c \in Choices(t) PROVE Behind(t, w, a, 1, c)
  <2>1. c[s[1]] \in Passed(t, s[1], a[s[1]])
    BY <1>1, AllPassed
  <2>2. \A j \in 1..1 - 1 : c[s[j]] = w[s[j]]
    OBVIOUS
  <2>3. 1 \in 1..1
    OBVIOUS
  <2> QED BY <2>1, <2>2, <2>3 DEF Behind
<1> QED BY <1>2 DEF SweptAt

\* The choice a nest stands at is not among those it has gone through.
LEMMA SweptNew ==
  ASSUME NEW t, Testable(t), NEW w, NEW a, NEW l \in Nat, l <= Len(itregs(t)), NEW c,
         \A j \in 1..l : /\ a[itregs(t)[j]] \in Nat
                         /\ a[itregs(t)[j]] + 1 <= Len(Numbers(t, itregs(t)[j]))
                         /\ c[itregs(t)[j]] = Numbers(t, itregs(t)[j])[a[itregs(t)[j]] + 1]
  PROVE  c \notin SweptAt(t, w, a, l)
<1> DEFINE s == itregs(t)
<1>1. ASSUME NEW k \in 1..l PROVE c[s[k]] \notin Passed(t, s[k], a[s[k]])
  <2>1. s[k] \in allregs(t)
    <3>1. Len(s) \in 1..3 /\ k \in 1..Len(s)
      BY NestFacts
    <3> QED BY <3>1, NestFacts
  <2>2. PICK f : f = s[k]
    OBVIOUS
  <2>3. PICK n : n = a[f]
    OBVIOUS
  <2>4. f \in allregs(t) /\ n \in Nat /\ n + 1 <= Len(Numbers(t, f)) /\ c[f] = Numbers(t, f)[n + 1]
    BY <2>1, <2>2, <2>3
  <2>5. Len(Numbers(t, f)) \in 0..128
    BY <2>4, OperandNumbers
  <2>6. \A i \in 1..n : Numbers(t, f)[i] # Numbers(t, f)[n + 1]
    <3>1. PICK m \in 0..128 : m = Len(Numbers(t, f))
      BY <2>5
    <3>2. \A i \in 1..n : i \in 1..m /\ n + 1 \in 1..m /\ i # n + 1
      BY <2>4, <3>1
    <3> QED BY <2>4, <3>1, <3>2, NumbersOnce
  <2>7. c[f] \notin Passed(t, f, n)
    BY <2>4, <2>6 DEF Passed
  <2> QED BY <2>2, <2>3, <2>7
<1> QED BY <1>1 DEF SweptAt, Behind

\* The choices the nest has gone through.
Swept == SweptAt(test, basew, at, level)

\* The tests counted of an instruction: every choice in the rounds before
\* this one, and in this one those the nest has gone through.
SweepInv ==
  /\ \A e \in 1..Len(Tests) : e > entry => info[e].test_cnt = 0
  /\ entry <= Len(Tests) => round \in 1..test.rounds
  /\ phase = "start" /\ entry <= Len(Tests) => round = 1 /\ info[entry].test_cnt = 0
  /\ phase = "reference" => info[entry].test_cnt = (round - 1) * Cardinality(Choices(test))
  /\ phase = "loops" =>
       /\ \A j \in 1..level - 1 : basew[nest[j]] = Numbers(test, nest[j])[at[nest[j]] + 1]
       /\ info[entry].test_cnt = (round - 1) * Cardinality(Choices(test)) + Cardinality(Swept)

\* What the invariant says of the nest.
LEMMA InTheNest ==
  ASSUME HarnessInv, phase = "loops"
  PROVE  /\ entry \in 1..Len(Tests) /\ Testable(test) /\ nest = itregs(test)
         /\ level \in 1..Len(nest) /\ Len(nest) \in 1..3
         /\ \A j \in 1..Len(nest) : nest[j] \in allregs(test) /\ nest[j] \in Fields /\ at[nest[j]] \in Nat
         /\ \A j, k \in 1..Len(nest) : nest[j] = nest[k] => j = k
         /\ at \in [Fields -> 0..128] /\ basew \in [Fields -> 0..127]
         /\ \A j \in 1..level - 1 : at[nest[j]] + 1 <= Len(Numbers(test, nest[j]))
         /\ at[nest[level]] <= Len(Numbers(test, nest[level]))
<1>1. entry \in 1..Len(Tests) /\ Testable(test)
  BY TestUnderTest DEF HarnessInv, TypeOK, TestInv
<1>2. /\ at \in [Fields -> 0..128] /\ basew \in [Fields -> 0..127] /\ level \in 1..3
      /\ level <= Len(nest) /\ at[nest[level]] <= Len(Numbers(test, nest[level]))
      /\ \A j \in 1..level - 1 : at[nest[j]] < Len(Numbers(test, nest[j]))
  BY DEF HarnessInv, TypeOK, LoopInv, loop, Settled
<1>3. /\ Len(nest) \in 1..3
      /\ \A j \in 1..Len(nest) : nest[j] \in allregs(test) /\ nest[j] \in Fields
      /\ \A j, k \in 1..Len(nest) : nest[j] = nest[k] => j = k
  BY <1>1, NestFacts DEF nest
<1>4. level \in 1..Len(nest)
  BY <1>2, <1>3
<1>5. \A j \in 1..Len(nest) : at[nest[j]] \in 0..128
  BY <1>2, <1>3
<1>6. ASSUME NEW j \in 1..level - 1
      PROVE  at[nest[j]] + 1 <= Len(Numbers(test, nest[j]))
  <2>1. j \in 1..Len(nest)
    BY <1>2, <1>3
  <2>2. PICK n \in 0..128 : n = Len(Numbers(test, nest[j]))
    BY <1>1, <1>3, <2>1, OperandNumbers
  <2>3. PICK k \in 0..128 : k = at[nest[j]]
    BY <1>5, <2>1
  <2>4. k < n
    BY <1>2, <2>2, <2>3
  <2>5. k + 1 <= n
    BY <2>4
  <2> QED BY <2>2, <2>3, <2>5
<1>7. \A j \in 1..Len(nest) : at[nest[j]] \in Nat
  <2>1. \A k \in 0..128 : k \in Nat
    OBVIOUS
  <2> QED BY <1>5, <2>1
<1>8. nest = itregs(test)
  BY DEF nest
<1> QED BY <1>1, <1>2, <1>3, <1>4, <1>6, <1>7, <1>8

\* The choices gone through are some of finitely many.
LEMMA SweptFinite ==
  ASSUME NEW t, Testable(t), NEW w, NEW a, NEW l
  PROVE  IsFiniteSet(SweptAt(t, w, a, l)) /\ Cardinality(SweptAt(t, w, a, l)) \in Nat
<1>1. SweptAt(t, w, a, l) \in SUBSET Choices(t)
  BY DEF SweptAt
<1> QED BY <1>1, ChoicesFinite, FS_Subset, FS_CardinalityType

\* The sweep starts with nothing counted.
LEMMA InitSweep == Init => SweepInv
<1> SUFFICES ASSUME Init PROVE SweepInv
  OBVIOUS
<1>1. Len(Tests) \in Nat /\ entry = 1 /\ round = 1 /\ phase = "start"
  BY TestsAssumption DEF Init
<1>2. \A e \in 1..Len(Tests) : info[e].test_cnt = 0
  BY DEF Init, NoCounts
<1>3. ASSUME entry <= Len(Tests) PROVE round \in 1..test.rounds /\ info[entry].test_cnt = 0
  <2>1. entry \in 1..Len(Tests) /\ Testable(test)
    BY <1>1, <1>3, TestUnderTest
  <2>2. test.rounds \in Nat \ {0}
    BY <2>1 DEF Testable
  <2> QED BY <1>1, <1>2, <2>1, <2>2
<1> QED BY <1>1, <1>2, <1>3 DEF SweepInv

\* Entering a block counts nothing.
LEMMA StartTestSweep ==
  ASSUME HarnessInv, SweepInv, StartTest
  PROVE  SweepInv'
<1>1. /\ entry <= Len(Tests) /\ phase = "start" /\ phase' = "reference"
      /\ entry' = entry /\ round' = round /\ info' = info
  BY DEF StartTest
<1>2. test' = test
  BY <1>1 DEF test
<1>3. entry \in 1..Len(Tests) /\ Testable(test)
  BY <1>1, TestUnderTest DEF HarnessInv, TypeOK
<1>4. round = 1 /\ info[entry].test_cnt = 0 /\ round \in 1..test.rounds
  BY <1>1 DEF SweepInv
<1>5. info[entry].test_cnt = (round - 1) * Cardinality(Choices(test))
  <2>1. PICK c \in Nat : c = Cardinality(Choices(test))
    BY <1>3, ChoicesFinite
  <2>2. (1 - 1) * c = 0
    BY <2>1
  <2> QED BY <1>4, <2>1, <2>2
<1> QED BY <1>1, <1>2, <1>4, <1>5 DEF SweepInv

\* The reference run is not counted, and the nest starts with nothing behind it.
LEMMA ReferenceRunSweep ==
  ASSUME HarnessInv, SweepInv, ReferenceRun
  PROVE  SweepInv'
<1>1. /\ phase = "reference" /\ phase' = "loops" /\ level' = 1 /\ at' = [at EXCEPT ![nest[1]] = 0]
      /\ entry' = entry /\ round' = round /\ info' = info /\ basew' = basew
  BY DEF ReferenceRun
<1>2. test' = test /\ nest' = nest
  BY <1>1 DEF test, nest
<1>3. entry \in 1..Len(Tests) /\ Testable(test) /\ at \in [Fields -> 0..128]
  BY <1>1, TestUnderTest DEF HarnessInv, TypeOK, TestInv
<1>4. nest[1] \in Fields /\ nest = itregs(test)
  <2>1. Len(nest) \in 1..3 /\ 1 \in 1..Len(nest)
    BY <1>3, NestFacts DEF nest
  <2> QED BY <1>3, <2>1, NestFacts DEF nest
<1>5. at'[itregs(test)[1]] = 0
  BY <1>1, <1>3, <1>4
<1>6. Swept' = {}
  BY <1>1, <1>2, <1>5, SweptNone DEF Swept
<1>7. Cardinality(Swept') = 0
  BY <1>6, FS_EmptySet
<1>8. round \in 1..test.rounds /\ info[entry].test_cnt = (round - 1) * Cardinality(Choices(test))
  BY <1>1, <1>3 DEF SweepInv
<1>9. info[entry].test_cnt \in Nat
  BY <1>3 DEF HarnessInv, TypeOK
<1>10. info'[entry'].test_cnt = (round' - 1) * Cardinality(Choices(test')) + Cardinality(Swept')
  <2>1. info[entry].test_cnt = info[entry].test_cnt + 0
    BY <1>9
  <2> QED BY <1>1, <1>2, <1>7, <1>8, <2>1
<1> QED BY <1>1, <1>2, <1>8, <1>10 DEF SweepInv

\* No choice has inputs that collide.
LEMMA CollidingInputs ==
  ASSUME NEW t, Testable(t), NEW w, Cardinality(Inputs(t)) = 2,
         Collide(Subregs(t, "rs", w["rs"]), Subregs(t, "rt", w["rt"])),
         NEW c \in Choices(t)
  PROVE  \E f \in Inputs(t) : c[f] # w[f]
<1>1. Inputs(t) = {"rs", "rt"}
  <2>1. Inputs(t) # {} /\ Inputs(t) # {"rs"}
    BY FS_EmptySet, FS_Singleton
  <2> QED BY <2>1, InputCases
<1>2. ~Collide(Subregs(t, "rs", c["rs"]), Subregs(t, "rt", c["rt"]))
  <2>1. Apart(t, c) /\ "rs" # "rt"
    BY ChoiceFacts
  <2> QED BY <1>1, <2>1 DEF Apart
<1>3. c["rs"] # w["rs"] \/ c["rt"] # w["rt"]
  BY <1>2
<1> QED BY <1>1, <1>3

\* The body of an input's loop tests nothing, and passes only choices
\* whose inputs collide.
LEMMA SelectInputSweep ==
  ASSUME HarnessInv, SweepInv, SelectInput
  PROVE  SweepInv'
<1>1. /\ phase = "loops" /\ InLoop /\ loop # "rd" /\ More /\ SelectNumber(loop)
      /\ phase' = phase /\ entry' = entry /\ round' = round /\ info' = info
  BY DEF SelectInput, InLoop
<1>2. test' = test /\ nest' = nest
  BY <1>1 DEF test, nest
<1>3. /\ entry \in 1..Len(Tests) /\ Testable(test) /\ nest = itregs(test)
      /\ level \in 1..Len(nest) /\ Len(nest) \in 1..3
      /\ \A j \in 1..Len(nest) : nest[j] \in allregs(test) /\ nest[j] \in Fields /\ at[nest[j]] \in Nat
      /\ \A j, k \in 1..Len(nest) : nest[j] = nest[k] => j = k
      /\ at \in [Fields -> 0..128] /\ basew \in [Fields -> 0..127]
  BY <1>1, InTheNest
<1>4. /\ basew' = [basew EXCEPT ![loop] = Numbers(test, loop)[at[loop] + 1]]
      /\ loop = nest[level] /\ loop \in Fields /\ at[loop] \in Nat
  BY <1>1, <1>3 DEF SelectNumber, loop
<1>5. /\ basew'[nest[level]] = Numbers(test, nest[level])[at[nest[level]] + 1]
      /\ \A j \in 1..level - 1 : nest[j] # loop /\ basew'[nest[j]] = basew[nest[j]]
  <2>1. \A j \in 1..level - 1 : j \in 1..Len(nest) /\ j # level
    BY <1>3
  <2> QED BY <1>3, <1>4, <2>1
<1>6. level < Len(nest) /\ level + 1 \in 1..Len(nest)
  <2>1. level # Len(nest)
    BY <1>1, <1>3, <1>4, NestFacts
  <2> QED BY <1>3, <2>1
<1>7. /\ round \in 1..test.rounds
      /\ \A j \in 1..level - 1 : basew[nest[j]] = Numbers(test, nest[j])[at[nest[j]] + 1]
      /\ info[entry].test_cnt = (round - 1) * Cardinality(Choices(test)) + Cardinality(Swept)
  <2>1. entry <= Len(Tests)
    BY <1>3
  <2>2. round \in 1..test.rounds
    BY <2>1 DEF SweepInv
  <2> QED BY <1>1, <2>2, Zenon DEF SweepInv
<1> DEFINE skipped == nest[level + 1] = "rd" /\ Cardinality(Inputs(test)) = 2 /\ regcol("rs", "rt")
<1>8. CASE skipped
  <2>1. at' = [at EXCEPT ![loop] = @ + 1] /\ level' = level
    BY <1>8 DEF SelectInput
  <2>2. /\ at'[nest[level]] = at[nest[level]] + 1
        /\ \A j \in 1..level - 1 : at'[nest[j]] = at[nest[j]]
    <3>1. \A j \in 1..level - 1 : nest[j] \in Fields
      BY <1>3
    <3> QED BY <1>3, <1>4, <1>5, <2>1, <3>1
  <2> DEFINE New == {c \in Choices(test) : \A j \in 1..level : c[nest[j]] = basew'[nest[j]]}
  <2>3. SweptAt(test, basew', at', level) = SweptAt(test, basew, at, level) \cup New
    <3>1. level \in Nat \ {0}
      BY <1>3
    <3>2. at[itregs(test)[level]] \in Nat
      BY <1>3
    <3>3. at'[itregs(test)[level]] = at[itregs(test)[level]] + 1
      BY <1>3, <2>2
    <3>4. basew'[itregs(test)[level]] = Numbers(test, itregs(test)[level])[at[itregs(test)[level]] + 1]
      BY <1>3, <1>5
    <3>5. \A j \in 1..level - 1 : /\ at'[itregs(test)[j]] = at[itregs(test)[j]]
                                  /\ basew'[itregs(test)[j]] = basew[itregs(test)[j]]
      BY <1>3, <1>5, <2>2
    <3>6. New = {c \in Choices(test) : \A j \in 1..level : c[itregs(test)[j]] = basew'[itregs(test)[j]]}
      BY <1>3
    <3> HIDE DEF New
    <3>7. PICK t, w, a, v, b : t = test /\ w = basew /\ a = at /\ v = basew' /\ b = at'
      OBVIOUS
    <3>8. SweptAt(t, v, b, level)
            = SweptAt(t, w, a, level) \cup {c \in Choices(t) : \A j \in 1..level : c[itregs(t)[j]] = v[itregs(t)[j]]}
      BY <3>1, <3>2, <3>3, <3>4, <3>5, <3>7, SweptOn
    <3> QED BY <3>6, <3>7, <3>8
  <2>4. New = {}
    <3> SUFFICES ASSUME NEW c \in Choices(test), \A j \in 1..level : c[nest[j]] = basew'[nest[j]]
                 PROVE  FALSE
      OBVIOUS
    <3>1. level = Len(nest) - 1
      <4>1. level + 1 = Len(nest)
        BY <1>3, <1>6, <1>8, NestFacts
      <4> QED BY <1>3, <4>1
    <3>2. \A f \in Inputs(test) : \E j \in 1..level : nest[j] = f
      BY <1>3, <3>1, NestFacts
    <3>3. \A f \in Inputs(test) : c[f] = basew'[f]
      BY <3>2
    <3>4. Collide(Subregs(test, "rs", basew'["rs"]), Subregs(test, "rt", basew'["rt"]))
      BY <1>8 DEF regcol
    <3>5. PICK w : w = basew'
      OBVIOUS
    <3> QED BY <1>3, <1>8, <3>3, <3>4, <3>5, CollidingInputs
  <2>5. Swept' = Swept
    BY <1>2, <2>1, <2>3, <2>4 DEF Swept
  <2>6. \A j \in 1..level' - 1 : basew'[nest[j]] = Numbers(test, nest[j])[at'[nest[j]] + 1]
    BY <1>5, <1>7, <2>1, <2>2
  <2> QED BY <1>1, <1>2, <1>7, <2>5, <2>6 DEF SweepInv
<1>9. CASE ~skipped
  <2>1. level' = level + 1 /\ at' = [at EXCEPT ![nest[level + 1]] = 0]
    BY <1>9 DEF SelectInput
  <2>2. /\ at'[nest[level + 1]] = 0
        /\ \A j \in 1..level : at'[nest[j]] = at[nest[j]]
    <3>1. \A j \in 1..level : j \in 1..Len(nest) /\ j # level + 1
      BY <1>3, <1>6
    <3>2. \A j \in 1..level : nest[j] \in Fields /\ nest[j] # nest[level + 1]
      BY <1>3, <1>6, <3>1
    <3> QED BY <1>3, <1>6, <2>1, <3>2
  <2>3. SweptAt(test, basew', at', level + 1) = SweptAt(test, basew, at, level)
    <3>1. level \in Nat
      BY <1>3
    <3>2. at'[itregs(test)[level + 1]] = 0
      BY <1>3, <2>2
    <3>3. \A j \in 1..level : at'[itregs(test)[j]] = at[itregs(test)[j]]
      BY <1>3, <2>2
    <3>4. \A j \in 1..level - 1 : basew'[itregs(test)[j]] = basew[itregs(test)[j]]
      BY <1>3, <1>5
    <3> QED BY <3>1, <3>2, <3>3, <3>4, SweptInward
  <2>4. Swept' = Swept
    BY <1>2, <2>1, <2>3 DEF Swept
  <2>5. \A j \in 1..level' - 1 : basew'[nest[j]] = Numbers(test, nest[j])[at'[nest[j]] + 1]
    <3>1. \A j \in 1..level' - 1 : j \in 1..level /\ (j = level \/ j \in 1..level - 1)
      BY <1>3, <2>1
    <3> QED BY <1>5, <1>7, <2>2, <3>1
  <2> QED BY <1>1, <1>2, <1>7, <2>4, <2>5 DEF SweepInv
<1> QED BY <1>8, <1>9

\* The body of the output's loop tests one choice, which is a new one.
LEMMA TryOutputSweep ==
  ASSUME HarnessInv, SweepInv, TryOutput
  PROVE  SweepInv'
<1>1. /\ phase = "loops" /\ InLoop /\ More /\ SelectNumber("rd") /\ loop = "rd"
      /\ phase' = phase /\ entry' = entry /\ round' = round /\ level' = level
      /\ at' = [at EXCEPT !["rd"] = @ + 1]
  BY DEF TryOutput, InLoop
<1>2. /\ test' = test /\ nest' = nest /\ level = Len(nest)
      /\ Chosen(test, basew') /\ Apart(test, basew')
  BY TryStub
<1>3. /\ entry \in 1..Len(Tests) /\ Testable(test) /\ nest = itregs(test)
      /\ level \in 1..Len(nest) /\ Len(nest) \in 1..3
      /\ \A j \in 1..Len(nest) : nest[j] \in allregs(test) /\ nest[j] \in Fields /\ at[nest[j]] \in Nat
      /\ \A j, k \in 1..Len(nest) : nest[j] = nest[k] => j = k
      /\ at \in [Fields -> 0..128] /\ basew \in [Fields -> 0..127]
      /\ \A j \in 1..level - 1 : at[nest[j]] + 1 <= Len(Numbers(test, nest[j]))
  BY <1>1, InTheNest
<1>4. nest[level] = "rd" /\ "rd" \in Fields
  BY <1>1 DEF loop, Fields
<1>5. basew' = [basew EXCEPT !["rd"] = Numbers(test, "rd")[at["rd"] + 1]]
  BY <1>1 DEF SelectNumber
<1>6. \A j \in 1..level - 1 : j \in 1..Len(nest) /\ nest[j] # "rd" /\ nest[j] \in Fields
  <2>1. \A j \in 1..level - 1 : j \in 1..Len(nest) /\ j # level
    BY <1>3
  <2> QED BY <1>3, <1>4, <2>1
<1>7. /\ basew'["rd"] = Numbers(test, "rd")[at["rd"] + 1] /\ at'["rd"] = at["rd"] + 1
      /\ \A j \in 1..level - 1 : basew'[nest[j]] = basew[nest[j]] /\ at'[nest[j]] = at[nest[j]]
  BY <1>1, <1>3, <1>4, <1>5, <1>6
<1>8. entry <= Len(Tests) /\ round \in 1..test.rounds
  <2>1. entry <= Len(Tests)
    BY <1>3
  <2> QED BY <2>1 DEF SweepInv
<1>9. /\ \A j \in 1..level - 1 : basew[nest[j]] = Numbers(test, nest[j])[at[nest[j]] + 1]
      /\ info[entry].test_cnt = (round - 1) * Cardinality(Choices(test)) + Cardinality(Swept)
  BY <1>1, Zenon DEF SweepInv
<1>10. PICK c \in Choices(test) : \A f \in allregs(test) : c[f] = basew'[f]
  BY <1>2, <1>3, ChoiceFacts
<1> DEFINE New == {d \in Choices(test) : \A j \in 1..level : d[nest[j]] = basew'[nest[j]]}
<1>11. New = {c}
  <2>1. \A j \in 1..level : nest[j] \in allregs(test)
    BY <1>3
  <2>2. c \in New
    BY <1>10, <2>1
  <2>3. ASSUME NEW d \in New PROVE d = c
    <3>1. \A f \in allregs(test) : \E j \in 1..level : nest[j] = f
      BY <1>2, <1>3, NestFacts
    <3>2. \A f \in allregs(test) : d[f] = c[f]
      BY <1>10, <3>1
    <3> QED BY <1>3, <3>2, ChoiceFacts
  <2> HIDE DEF New
  <2> QED BY <2>2, <2>3
<1>12. Swept' = Swept \cup {c}
  <2>1. level \in Nat \ {0}
    BY <1>3
  <2>2. at[itregs(test)[level]] \in Nat
    BY <1>3
  <2>3. at'[itregs(test)[level]] = at[itregs(test)[level]] + 1
    BY <1>3, <1>4, <1>7
  <2>4. basew'[itregs(test)[level]] = Numbers(test, itregs(test)[level])[at[itregs(test)[level]] + 1]
    BY <1>3, <1>4, <1>7
  <2>5. \A j \in 1..level - 1 : /\ at'[itregs(test)[j]] = at[itregs(test)[j]]
                                /\ basew'[itregs(test)[j]] = basew[itregs(test)[j]]
    BY <1>3, <1>7
  <2>6. New = {d \in Choices(test) : \A j \in 1..level : d[itregs(test)[j]] = basew'[itregs(test)[j]]}
    BY <1>3
  <2> HIDE DEF New
  <2>7. SweptAt(test, basew', at', level) = SweptAt(test, basew, at, level) \cup New
    BY <2>1, <2>2, <2>3, <2>4, <2>5, <2>6, SweptOn
  <2> QED BY <1>1, <1>2, <1>11, <2>7 DEF Swept
<1>13. c \notin Swept
  <2>1. level \in Nat /\ level <= Len(itregs(test))
    BY <1>3
  <2>2. ASSUME NEW j \in 1..level
        PROVE  /\ at[itregs(test)[j]] \in Nat
               /\ at[itregs(test)[j]] + 1 <= Len(Numbers(test, itregs(test)[j]))
               /\ c[itregs(test)[j]] = Numbers(test, itregs(test)[j])[at[itregs(test)[j]] + 1]
    <3>1. j \in 1..Len(nest) /\ (j = level \/ j \in 1..level - 1)
      BY <1>3
    <3>2. c[nest[j]] = basew'[nest[j]] /\ at[nest[j]] \in Nat
      BY <1>3, <1>10, <3>1
    <3>3. CASE j = level
      <4>1. at["rd"] + 1 <= Len(Numbers(test, "rd"))
        BY <1>1, <1>3, Selecting
      <4> QED BY <1>3, <1>4, <1>7, <3>2, <3>3, <4>1
    <3>4. CASE j \in 1..level - 1
      BY <1>3, <1>7, <1>9, <3>2, <3>4
    <3> QED BY <3>1, <3>3, <3>4
  <2> QED BY <1>3, <2>1, <2>2, SweptNew DEF Swept
<1>14. Cardinality(Swept') = Cardinality(Swept) + 1 /\ Cardinality(Swept) \in Nat
  <2>1. IsFiniteSet(Swept) /\ Cardinality(Swept) \in Nat
    BY <1>3, SweptFinite DEF Swept
  <2> QED BY <1>12, <1>13, <2>1, FS_AddElement
<1>15. /\ \A e \in 1..Len(Tests) : e # entry => info'[e] = info[e]
       /\ info'[entry].test_cnt = info[entry].test_cnt + 1
  <2>1. /\ info[entry] \in Counters /\ basew' \in [Fields -> 0..127]
        /\ \A e \in 1..Len(Tests) : e # entry => info'[e] = info[e]
        /\ out' = expected  => info'[entry] = OneMore(info[entry])
        /\ out' # expected => info'[entry] = OneMore(CountError(info[entry]))
    BY TryCounts
  <2>2. CASE out' = expected
    BY <2>1, <2>2, OneMoreTest
  <2>3. CASE out' # expected
    BY <2>1, <2>3, OneMoreTest, Counted
  <2> QED BY <2>1, <2>2, <2>3
<1>16. info'[entry].test_cnt = (round - 1) * Cardinality(Choices(test)) + Cardinality(Swept')
  <2>1. PICK n \in Nat : n = Cardinality(Choices(test))
    BY <1>3, ChoicesFinite
  <2>2. PICK k \in Int : k = (round - 1) * n
    BY <1>8, <2>1
  <2>3. info[entry].test_cnt + 1 = k + (Cardinality(Swept) + 1)
    BY <1>9, <1>14, <2>1, <2>2
  <2> QED BY <1>14, <1>15, <2>1, <2>2, <2>3
<1>17. \A j \in 1..level - 1 : basew'[nest[j]] = Numbers(test, nest[j])[at'[nest[j]] + 1]
  BY <1>7, <1>9
<1>18. \A e \in 1..Len(Tests) : e > entry => info'[e].test_cnt = 0
  <2>1. \A e \in 1..Len(Tests) : e > entry => e # entry
    BY <1>3
  <2> QED BY <1>15, <2>1 DEF SweepInv
<1> QED BY <1>1, <1>2, <1>8, <1>16, <1>17, <1>18 DEF SweepInv

\* What is counted when a block is left: all choices, in every round.
LEMMA RoundCounted ==
  ASSUME HarnessInv, SweepInv, LeaveLoop, ~(level > 1)
  PROVE  /\ entry \in 1..Len(Tests) /\ Testable(test) /\ round \in 1..test.rounds
         /\ info[entry].test_cnt = round * Cardinality(Choices(test))
<1>1. phase = "loops" /\ ~More
  BY DEF LeaveLoop, InLoop
<1>2. /\ entry \in 1..Len(Tests) /\ Testable(test) /\ nest = itregs(test)
      /\ level \in 1..Len(nest) /\ Len(nest) \in 1..3
      /\ nest[level] \in allregs(test) /\ at[nest[level]] \in Nat
      /\ at[nest[level]] <= Len(Numbers(test, nest[level]))
  BY <1>1, InTheNest
<1>3. level = 1
  BY <1>2
<1>4. entry <= Len(Tests) /\ round \in 1..test.rounds
  <2>1. entry <= Len(Tests)
    BY <1>2
  <2> QED BY <2>1 DEF SweepInv
<1>5. info[entry].test_cnt = (round - 1) * Cardinality(Choices(test)) + Cardinality(Swept)
  BY <1>1, Zenon DEF SweepInv
<1>6. at[nest[level]] = Len(Numbers(test, nest[level]))
  BY <1>1, <1>2, OperandNumbers DEF More, loop
<1>7. Swept = Choices(test)
  BY <1>2, <1>3, <1>6, SweptAll DEF Swept
<1>8. PICK n \in Nat : n = Cardinality(Choices(test))
  BY <1>2, ChoicesFinite
<1>9. (round - 1) * n + n = round * n
  BY <1>4, <1>8
<1> QED BY <1>2, <1>4, <1>5, <1>7, <1>8, <1>9

\* Leaving a loop counts nothing, and leaves no choice out.
LEMMA LeaveLoopSweep ==
  ASSUME HarnessInv, SweepInv, LeaveLoop
  PROVE  SweepInv'
<1>1. /\ phase = "loops" /\ ~More /\ info' = info /\ basew' = basew
  BY DEF LeaveLoop, InLoop
<1>2. /\ entry \in 1..Len(Tests) /\ Testable(test) /\ nest = itregs(test)
      /\ level \in 1..Len(nest) /\ Len(nest) \in 1..3
      /\ \A j \in 1..Len(nest) : nest[j] \in allregs(test) /\ nest[j] \in Fields /\ at[nest[j]] \in Nat
      /\ \A j, k \in 1..Len(nest) : nest[j] = nest[k] => j = k
      /\ at \in [Fields -> 0..128]
      /\ at[nest[level]] <= Len(Numbers(test, nest[level]))
  BY <1>1, InTheNest
<1>3. entry <= Len(Tests) /\ round \in 1..test.rounds
  <2>1. entry <= Len(Tests)
    BY <1>2
  <2> QED BY <2>1 DEF SweepInv
<1>4. CASE level > 1
  <2>1. /\ level' = level - 1 /\ at' = [at EXCEPT ![nest[level - 1]] = @ + 1]
        /\ entry' = entry /\ round' = round /\ phase' = phase
    BY <1>4 DEF LeaveLoop
  <2>2. test' = test /\ nest' = nest
    BY <2>1 DEF test, nest
  <2>3. PICK l \in Nat \ {0} : level = l + 1 /\ l = level - 1
    <3>1. level - 1 \in Nat \ {0} /\ level = (level - 1) + 1
      BY <1>2, <1>4
    <3> QED BY <3>1
  <2>4. l \in 1..Len(nest) /\ l + 1 \in 1..Len(nest) /\ \A j \in 1..l - 1 : j \in 1..Len(nest) /\ j # l
    BY <1>2, <2>3
  <2>5. /\ at'[nest[l]] = at[nest[l]] + 1
        /\ \A j \in 1..l - 1 : at'[nest[j]] = at[nest[j]]
    BY <1>2, <2>1, <2>3, <2>4
  <2>6. /\ \A j \in 1..level - 1 : basew[nest[j]] = Numbers(test, nest[j])[at[nest[j]] + 1]
        /\ info[entry].test_cnt = (round - 1) * Cardinality(Choices(test)) + Cardinality(Swept)
    BY <1>1, Zenon DEF SweepInv
  <2>7. at[nest[level]] = Len(Numbers(test, nest[level]))
    <3>1. nest[level] \in allregs(test) /\ at[nest[level]] \in Nat
      BY <1>2
    <3> QED BY <1>1, <1>2, <3>1, OperandNumbers DEF More, loop
  <2>8. SweptAt(test, basew, at', l) = SweptAt(test, basew, at, l + 1)
    <3>1. l + 1 <= Len(itregs(test)) /\ at[itregs(test)[l]] \in Nat
      BY <1>2, <2>4
    <3>2. at'[itregs(test)[l]] = at[itregs(test)[l]] + 1
      BY <1>2, <2>5
    <3>3. basew[itregs(test)[l]] = Numbers(test, itregs(test)[l])[at[itregs(test)[l]] + 1]
      <4>1. l \in 1..level - 1
        BY <2>3
      <4> QED BY <1>2, <2>6, <4>1
    <3>4. \A j \in 1..l - 1 : at'[itregs(test)[j]] = at[itregs(test)[j]]
      BY <1>2, <2>5
    <3>5. at[itregs(test)[l + 1]] = Len(Numbers(test, itregs(test)[l + 1]))
      BY <1>2, <2>3, <2>7
    <3>6. Testable(test)
      BY <1>2
    <3>7. PICK t, w, a, b : t = test /\ w = basew /\ a = at /\ b = at'
      OBVIOUS
    <3>8. SweptAt(t, w, b, l) = SweptAt(t, w, a, l + 1)
      BY <3>1, <3>2, <3>3, <3>4, <3>5, <3>6, <3>7, SweptOutward, ZenonT(60)
    <3> QED BY <3>7, <3>8
  <2>9. Swept' = Swept
    BY <1>1, <2>1, <2>2, <2>3, <2>8 DEF Swept
  <2>10. \A j \in 1..level' - 1 : basew'[nest[j]] = Numbers(test, nest[j])[at'[nest[j]] + 1]
    <3>1. \A j \in 1..level' - 1 : j \in 1..l - 1 /\ j \in 1..level - 1
      BY <2>1, <2>3
    <3> QED BY <1>1, <2>5, <2>6, <3>1
  <2> QED BY <1>1, <1>3, <2>1, <2>2, <2>6, <2>9, <2>10 DEF SweepInv
<1>5. CASE ~(level > 1) /\ round < test.rounds
  <2>1. round' = round + 1 /\ phase' = "reference" /\ entry' = entry
    BY <1>5 DEF LeaveLoop
  <2>2. info[entry].test_cnt = round * Cardinality(Choices(test)) /\ Testable(test)
    BY <1>5, RoundCounted
  <2>3. test' = test
    BY <2>1 DEF test
  <2>4. test.rounds \in Nat
    BY <2>2 DEF Testable
  <2>5. round' \in 1..test.rounds /\ round' - 1 = round
    BY <1>3, <1>5, <2>1, <2>4
  <2> QED BY <1>1, <2>1, <2>2, <2>3, <2>5 DEF SweepInv
<1>6. CASE ~(level > 1) /\ ~(round < test.rounds)
  <2>1. round' = 1 /\ phase' = "start" /\ entry' = entry + 1
    BY <1>6 DEF LeaveLoop
  <2>2. Len(Tests) \in Nat
    BY TestsAssumption
  <2>3. \A e \in 1..Len(Tests) : e >= entry + 1 => info'[e].test_cnt = 0
    <3>1. \A e \in 1..Len(Tests) : e >= entry + 1 => e > entry
      BY <1>2
    <3> QED BY <1>1, <3>1 DEF SweepInv
  <2>4. ASSUME entry' <= Len(Tests) PROVE round' \in 1..test'.rounds /\ info'[entry'].test_cnt = 0
    <3>1. entry + 1 \in 1..Len(Tests)
      BY <1>2, <2>1, <2>2, <2>4
    <3>2. test'.rounds \in Nat \ {0}
      BY <2>1, <3>1, TestsAssumption DEF Testable, test
    <3>3. info'[entry + 1].test_cnt = 0
      BY <1>2, <2>3, <3>1
    <3> QED BY <2>1, <3>2, <3>3
  <2>5. \A e \in 1..Len(Tests) : e > entry' => info'[e].test_cnt = 0
    <3>1. \A e \in 1..Len(Tests) : e > entry + 1 => e >= entry + 1
      BY <1>2
    <3> QED BY <2>1, <2>3, <3>1
  <2> QED BY <2>1, <2>4, <2>5 DEF SweepInv
<1> QED BY <1>4, <1>5, <1>6

\* No choice is skipped or tried twice: at the end of an instruction the
\* count is that of all register numbers whose inputs are disjoint.
THEOREM SweepsAll == Spec => SweepComplete
<1>1. HarnessInv /\ SweepInv /\ [Next]_vars => SweepInv'
  <2>1. HarnessInv /\ SweepInv /\ UNCHANGED vars => SweepInv'
    BY DEF vars, SweepInv, Swept, nest, test
  <2> QED BY <2>1, StartTestSweep, ReferenceRunSweep, SelectInputSweep, TryOutputSweep,
             LeaveLoopSweep DEF Next
<1>2. HarnessInv /\ SweepInv /\ [Next]_vars
        => [entry' # entry => info[entry].test_cnt = test.rounds * Cardinality(Choices(test))]_vars
  <2> SUFFICES ASSUME HarnessInv, SweepInv, [Next]_vars, entry' # entry
               PROVE  info[entry].test_cnt = test.rounds * Cardinality(Choices(test))
    OBVIOUS
  <2>1. LeaveLoop /\ ~(level > 1) /\ ~(round < test.rounds)
    BY DEF Next, StartTest, ReferenceRun, SelectInput, TryOutput, LeaveLoop, vars
  <2>2. /\ Testable(test) /\ round \in 1..test.rounds
        /\ info[entry].test_cnt = round * Cardinality(Choices(test))
    BY <2>1, RoundCounted
  <2>3. round = test.rounds
    BY <2>1, <2>2 DEF Testable
  <2> QED BY <2>2, <2>3
<1> QED BY <1>1, <1>2, InitSweep, HarnessAlways, PTL DEF Spec, SweepComplete
=============================================================================
