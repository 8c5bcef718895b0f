------------------------- MODULE FuncHarnessProofs -------------------------
(***************************************************************************)
(* For any table of instructions, any bounds on the inputs and any         *)
(* hardware: what the generated program reports of an instruction is what  *)
(* the hardware does with that instruction alone, on a cleared machine.    *)
(*                                                                         *)
(* That is not inductive. RoundInv says what the rounds before this one    *)
(* have left of the machine, and that it does not matter: the instruction  *)
(* reads lanes that the prologue has loaded, and its own prefix. For that  *)
(* the operands must stay small enough for the emulation to be defined,    *)
(* and every word of the list must select lanes that the instruction has.  *)
(* TallyInv says what has been recorded when only some of the rounds of an *)
(* instruction are over.                                                   *)
(***************************************************************************)
EXTENDS FuncHarness, TLAPS

\* The instructions under test are what TestsAssumption says.
Under == {Tests[k] : k \in DOMAIN Tests}

\* What is known of an instruction under test.
LEMMA UnderType ==
  ASSUME NEW u \in Under
  PROVE  /\ u.kind \in {"vadd", "vcmp", "vcmovt", "vzero", "vrcp", "vlog2"}
         /\ u.n \in 1..4 /\ u.imms \in Seq(Nat) /\ Len(u.imms) \in Nat \ {0}
         /\ u.accuracy \in Accuracies
         /\ pfxl[u] = pref_checks(u)
<1>1. PICK k \in DOMAIN Tests : u = Tests[k]
  BY DEF Under
<1> DEFINE S == [name : STRING, kind : {"vadd", "vcmp", "vcmovt", "vzero", "vrcp", "vlog2"},
                 n : 1..4, imms : Seq(Nat) \ {<<>>}, accuracy : Accuracies]
<1>2. u \in S
  <2>1. Tests \in Seq(S)
    BY TestsAssumption
  <2> HIDE DEF S
  <2> QED BY <1>1, <2>1
<1>3. pfxl[u] = pref_checks(u)
  BY <1>1 DEF pfxl
<1>4. u.imms \in Seq(Nat) /\ u.imms # <<>>
  BY <1>2
<1>5. Len(u.imms) \in Nat \ {0}
  BY <1>4
<1> QED BY <1>2, <1>3, <1>4, <1>5

-----------------------------------------------------------------------------
(* The words of the prefixes.                                               *)

\* The powers that place the lanes in a prefix, as numbers.
LEMMA Powers ==
  \A l \in 0..3 : 4^l = <<1, 4, 16, 64>>[l + 1]
<1> TAKE l \in 0..3
<1>1. CASE l = 0
  BY <1>1
<1>2. CASE l = 1
  BY <1>2
<1>3. CASE l = 2
  BY <1>3
<1>4. CASE l = 3
  BY <1>4
<1> QED BY <1>1, <1>2, <1>3, <1>4

\* The lane a source prefix selects for lane l.
Selected(w, l) == (w \div 4^l) % 4

\* The words of a source prefix of an instruction with n lanes.
SourceWords(n) ==
  {swzc[n], \h500E4, \hA00E4, \hF00E4, \h5E4, \hAE4, \hFE4, \hF4A7}

\* A source prefix of the list selects a lane that the instruction has, or a
\* constant.
LEMMA WordSelects ==
  ASSUME NEW n \in 1..4, NEW w \in SourceWords(n) \cup {\hE4}, NEW l \in 0..n-1
  PROVE  Bit(w, 12 + l) = 1 \/ Selected(w, l) \in 0..n-1
<1>1. CASE w = \hF4A7
  <2>1. CASE l = 0
    BY <1>1, <2>1 DEF Bit
  <2>2. CASE l = 1
    BY <1>1, <2>2 DEF Bit
  <2>3. CASE l = 2
    BY <1>1, <2>3 DEF Bit
  <2>4. CASE l = 3
    BY <1>1, <2>4 DEF Bit
  <2> QED BY <2>1, <2>2, <2>3, <2>4
<1>2. CASE w \in {\hE4, \h500E4, \hA00E4, \hF00E4, \h5E4, \hAE4, \hFE4}
  <2>1. Selected(w, l) = l
    <3>1. CASE l = 0
      BY <1>2, <3>1 DEF Selected
    <3>2. CASE l = 1
      BY <1>2, <3>2 DEF Selected
    <3>3. CASE l = 2
      BY <1>2, <3>3 DEF Selected
    <3>4. CASE l = 3
      BY <1>2, <3>4 DEF Selected
    <3> QED BY <3>1, <3>2, <3>3, <3>4
  <2> QED BY <2>1
<1>3. CASE w = swzc[n]
  <2>1. Selected(w, l) \in 0..n-1
    <3>1. CASE l = 0
      BY <1>3, <3>1 DEF swzc, Selected
    <3>2. CASE l = 1
      BY <1>3, <3>2 DEF swzc, Selected
    <3>3. CASE l = 2
      BY <1>3, <3>3 DEF swzc, Selected
    <3>4. CASE l = 3
      BY <1>3, <3>4 DEF swzc, Selected
    <3> QED BY <3>1, <3>2, <3>3, <3>4
  <2> QED BY <2>1
<1> QED BY <1>1, <1>2, <1>3 DEF SourceWords

\* A source prefix has the twenty bits that vpfxs and vpfxt write.
LEMMA WordFits ==
  ASSUME NEW n \in 1..4, NEW w \in SourceWords(n) \cup {\hE4}
  PROVE  w \in Nat /\ w % 2^20 = w
BY DEF SourceWords, swzc

\* A destination prefix has the twelve bits that vpfxd writes.
LEMMA DestinationWordFits ==
  ASSUME NEW w \in {\hF00, \h55, \hFF}
  PROVE  w \in Nat /\ w % 2^12 = w
OBVIOUS

-----------------------------------------------------------------------------
(* The rounds.                                                              *)

\* What a prefix of the list can be.
IsSource(u, p) ==
  /\ p[1] \in {"rs", "rt"} /\ HasInput(u, p[1])
  /\ p[2] \in {"swz", "neg", "abs", "cst"} /\ p[3] \in SourceWords(u.n)
  /\ p[2] = "swz" => p[3] = swzc[u.n]

IsDestination(u, p) ==
  /\ p[1] = "rd" /\ HasOutput(u)
  /\ p[2] \in {"msk", "sat"} /\ p[3] \in {\hF00, \h55, \hFF}

\* The source prefixes of the list are those of one operand.
LEMMA SourceChecksAre ==
  ASSUME NEW u \in Under, NEW r \in {"rs", "rt"}
  PROVE  /\ Len(SourceChecks(u, r)) \in Nat
         /\ \A c \in 1..Len(SourceChecks(u, r)) : IsSource(u, SourceChecks(u, r)[c])
<1>1. CASE ~HasInput(u, r)
  BY <1>1 DEF SourceChecks
<1>2. CASE HasInput(u, r)
  <2>1. Len(SourceChecks(u, r)) = 8
    BY <1>2 DEF SourceChecks
  <2>2. ASSUME NEW c \in 1..8 PROVE IsSource(u, SourceChecks(u, r)[c])
    BY <1>2, <2>2 DEF SourceChecks, IsSource, SourceWords
  <2> QED BY <2>1, <2>2
<1> QED BY <1>1, <1>2

\* Lists of up to eight elements of a set.
LEMMA EightSeq ==
  ASSUME NEW T, NEW x1 \in T, NEW x2 \in T, NEW x3 \in T, NEW x4 \in T,
                NEW x5 \in T, NEW x6 \in T, NEW x7 \in T, NEW x8 \in T
  PROVE  /\ <<x1, x2, x3, x4, x5, x6, x7, x8>> \in Seq(T)
         /\ <<x1, x2, x3>> \in Seq(T) /\ <<x1>> \in Seq(T) /\ <<>> \in Seq(T)
OBVIOUS

\* The list ends with the round without prefix, and has no other.
LEMMA PrefixesAre ==
  ASSUME NEW u \in Under
  PROVE  /\ Len(pfxl[u]) \in Nat \ {0} /\ DOMAIN pfxl[u] = 1..Len(pfxl[u])
         /\ pfxl[u][Len(pfxl[u])] = NoPrefix
         /\ \A c \in 1..Len(pfxl[u])-1 : IsSource(u, pfxl[u][c]) \/ IsDestination(u, pfxl[u][c])
<1> DEFINE a == SourceChecks(u, "rs")
           b == SourceChecks(u, "rt")
           d == IF HasOutput(u)
                THEN <<<<"rd", "msk", \hF00>>, <<"rd", "sat", \h55>>, <<"rd", "sat", \hFF>>>>
                ELSE <<>>
           e == <<NoPrefix>>
<1>1. pfxl[u] = a \o b \o d \o e
  BY UnderType DEF pref_checks
<1>2. /\ Len(a) \in Nat /\ \A c \in 1..Len(a) : IsSource(u, a[c])
      /\ Len(b) \in Nat /\ \A c \in 1..Len(b) : IsSource(u, b[c])
  BY SourceChecksAre
<1>3. Len(d) \in Nat /\ \A c \in 1..Len(d) : IsDestination(u, d[c])
  <2>1. CASE HasOutput(u)
    BY <2>1 DEF IsDestination
  <2>2. CASE ~HasOutput(u)
    BY <2>2
  <2> QED BY <2>1, <2>2
<1> DEFINE T == {"rs", "rt", "rd", "none"} \X {"swz", "neg", "abs", "cst", "msk", "sat", "none"} \X Nat
<1>4. a \in Seq(T) /\ b \in Seq(T)
  <2>1. swzc[u.n] \in Nat
    BY UnderType DEF swzc
  <2>2. ASSUME NEW r \in {"rs", "rt"} PROVE SourceChecks(u, r) \in Seq(T)
    <3>1. /\ <<r, "swz", swzc[u.n]>> \in T
          /\ <<r, "neg", \h500E4>> \in T /\ <<r, "neg", \hA00E4>> \in T /\ <<r, "neg", \hF00E4>> \in T
          /\ <<r, "abs", \h5E4>> \in T /\ <<r, "abs", \hAE4>> \in T /\ <<r, "abs", \hFE4>> \in T
          /\ <<r, "cst", \hF4A7>> \in T
      BY <2>1
    <3> HIDE DEF T
    <3>2. CASE HasInput(u, r)
      <4>1. SourceChecks(u, r) =
              <<<<r, "swz", swzc[u.n]>>,
                <<r, "neg", \h500E4>>, <<r, "neg", \hA00E4>>, <<r, "neg", \hF00E4>>,
                <<r, "abs", \h5E4>>, <<r, "abs", \hAE4>>, <<r, "abs", \hFE4>>,
                <<r, "cst", \hF4A7>>>>
        BY <3>2 DEF SourceChecks
      <4> QED BY <3>1, <4>1, EightSeq
    <3>3. CASE ~HasInput(u, r)
      BY <3>3 DEF SourceChecks
    <3> QED BY <3>2, <3>3
  <2> HIDE DEF T
  <2> QED BY <2>2
<1>5. d \in Seq(T) /\ e \in Seq(T)
  <2>1. /\ <<"rd", "msk", \hF00>> \in T /\ <<"rd", "sat", \h55>> \in T
        /\ <<"rd", "sat", \hFF>> \in T /\ NoPrefix \in T
    BY DEF NoPrefix
  <2> HIDE DEF T
  <2>2. <<<<"rd", "msk", \hF00>>, <<"rd", "sat", \h55>>, <<"rd", "sat", \hFF>>>> \in Seq(T)
        /\ <<NoPrefix>> \in Seq(T) /\ <<>> \in Seq(T)
    BY <2>1, EightSeq
  <2> QED BY <2>2
<1>6. Len(e) = 1 /\ e[1] = NoPrefix
  OBVIOUS
<1> HIDE DEF a, b, d, e, T
<1> DEFINE ab == a \o b
           abd == ab \o d
<1>7. ab \in Seq(T) /\ Len(ab) = Len(a) + Len(b)
      /\ \A c \in 1..Len(ab) : ab[c] = IF c <= Len(a) THEN a[c] ELSE b[c - Len(a)]
  BY <1>2, <1>4
<1>8. \A c \in 1..Len(ab) : IsSource(u, ab[c])
  BY <1>2, <1>7
<1> HIDE DEF ab
<1>9. abd \in Seq(T) /\ Len(abd) = Len(ab) + Len(d)
      /\ \A c \in 1..Len(abd) : abd[c] = IF c <= Len(ab) THEN ab[c] ELSE d[c - Len(ab)]
  BY <1>5, <1>7
<1>10. \A c \in 1..Len(abd) : IsSource(u, abd[c]) \/ IsDestination(u, abd[c])
  BY <1>2, <1>3, <1>7, <1>8, <1>9
<1> HIDE DEF abd
<1>11. pfxl[u] = abd \o e
  BY <1>1 DEF ab, abd
<1>12. Len(pfxl[u]) = Len(abd) + 1 /\ pfxl[u][Len(abd) + 1] = NoPrefix
       /\ \A c \in 1..Len(abd) : pfxl[u][c] = abd[c]
  <2>1. abd \in Seq(T) /\ e \in Seq(T) /\ Len(abd) \in Nat
    BY <1>5, <1>9
  <2>2. Len(abd \o e) = Len(abd) + Len(e)
        /\ \A c \in 1..Len(abd \o e) : (abd \o e)[c] = IF c <= Len(abd) THEN abd[c] ELSE e[c - Len(abd)]
    BY <2>1
  <2> QED BY <1>6, <1>11, <2>1, <2>2
<1>13. Len(abd) \in Nat
  BY <1>9
<1>14. DOMAIN pfxl[u] = 1..Len(pfxl[u])
  <2>1. abd \o e \in Seq(T)
    BY <1>5, <1>9
  <2> QED BY <1>11, <2>1
<1> QED BY <1>10, <1>12, <1>13, <1>14

\* Division by a positive number is a natural number, bounded and monotone.
LEMMA Division ==
  ASSUME NEW m \in Nat \ {0}, NEW x \in Nat
  PROVE  /\ x \div m \in Nat
         /\ \A c \in Nat : x < c * m => x \div m < c
         /\ \A y \in Nat : x <= y => x \div m <= y \div m
<1>1. \A y \in Nat : /\ y \div m \in Nat /\ y % m \in 0..m-1
                    /\ y = m * (y \div m) + (y % m)
  OBVIOUS
<1>2. ASSUME NEW a \in Nat, NEW b \in Nat, a >= b + 1 PROVE m * a >= m * b + m
  <2>1. PICK k \in Nat : a = b + 1 + k
    <3>1. a - (b + 1) \in Nat /\ a = b + 1 + (a - (b + 1))
      BY <1>2
    <3> QED BY <3>1
  <2>2. m * a = m * b + m + m * k /\ m * k >= 0
    BY <2>1
  <2> QED BY <2>2
<1>3. ASSUME NEW c \in Nat, x < c * m PROVE x \div m < c
  <2> DEFINE q == x \div m
             rest == x % m
  <2>1. q \in Nat /\ rest \in 0..m-1 /\ x = m * q + rest
    BY <1>1
  <2> HIDE DEF q, rest
  <2>2. CASE q < c
    BY <2>2 DEF q
  <2>3. CASE q >= c
    <3>1. CASE q = c
      BY <1>3, <2>1, <3>1
    <3>2. CASE q >= c + 1
      <4>1. m * q >= m * c + m
        BY <1>2, <2>1, <3>2
      <4>2. m * c = c * m /\ m * c \in Nat /\ m * q \in Nat
        BY <2>1
      <4> QED BY <1>3, <2>1, <4>1, <4>2
    <3> QED BY <2>1, <2>3, <3>1, <3>2
  <2> QED BY <2>1, <2>2, <2>3
<1>4. ASSUME NEW y \in Nat, x <= y PROVE x \div m <= y \div m
  <2> DEFINE q == x \div m
             p == y \div m
             rest == x % m
             over == y % m
  <2>1. /\ q \in Nat /\ rest \in 0..m-1 /\ x = m * q + rest
        /\ p \in Nat /\ over \in 0..m-1 /\ y = m * p + over
    BY <1>1
  <2> HIDE DEF q, p, rest, over
  <2>2. CASE q >= p + 1
    <3>1. m * q >= m * p + m /\ m * q \in Nat /\ m * p \in Nat
      BY <1>2, <2>1, <2>2
    <3> QED BY <1>4, <2>1, <3>1
  <2>3. CASE q <= p
    BY <2>3 DEF q, p
  <2> QED BY <2>1, <2>2, <2>3
<1> QED BY <1>1, <1>3, <1>4

\* The rounds without prefix come last.
LEMMA Rounds ==
  ASSUME NEW u \in Under
  PROVE  /\ RoundCount(u) \in Nat \ {0}
         /\ \A r \in 1..RoundCount(u) :
              \/ Prefix(u, r) = NoPrefix
              \/ IsSource(u, Prefix(u, r)) \/ IsDestination(u, Prefix(u, r))
         /\ \A r \in 1..RoundCount(u) : \A q \in r..RoundCount(u) :
              Prefix(u, r) = NoPrefix => Prefix(u, q) = NoPrefix
<1> DEFINE L == Len(pfxl[u])
           m == Len(u.imms)
           At(r) == (r - 1) \div m
<1>1. L \in Nat \ {0} /\ m \in Nat \ {0} /\ RoundCount(u) = L * m
  BY PrefixesAre, UnderType DEF RoundCount
<1>2. RoundCount(u) \in Nat \ {0}
  <2> HIDE DEF L, m
  <2> QED BY <1>1
<1>3. \A r \in 1..RoundCount(u) : /\ At(r) \in 0..L-1
                                  /\ \A q \in r..RoundCount(u) : At(r) <= At(q)
  <2> HIDE DEF L, m
  <2> TAKE r \in 1..RoundCount(u)
  <2>1. r - 1 \in Nat /\ r - 1 < L * m
    BY <1>1, <1>2
  <2>2. At(r) \in Nat /\ At(r) < L
    BY <1>1, <2>1, Division
  <2>3. ASSUME NEW q \in r..RoundCount(u) PROVE At(r) <= At(q)
    <3>1. q - 1 \in Nat /\ r - 1 <= q - 1
      BY <1>2
    <3> QED BY <1>1, <2>1, <3>1, Division
  <2> QED BY <2>2, <2>3, <1>1
<1>4. \A r \in 1..RoundCount(u) : Prefix(u, r) = pfxl[u][At(r) + 1]
  BY DEF Prefix
<1>5. /\ pfxl[u][L] = NoPrefix
      /\ \A c \in 1..L-1 : IsSource(u, pfxl[u][c]) \/ IsDestination(u, pfxl[u][c])
  BY PrefixesAre
<1>6. \A p : IsSource(u, p) \/ IsDestination(u, p) => p # NoPrefix
  BY DEF IsSource, IsDestination, NoPrefix
<1> HIDE DEF L, m, At
<1>7. \A r \in 1..RoundCount(u) : At(r) + 1 \in 1..L /\ (At(r) + 1 = L \/ At(r) + 1 \in 1..L-1)
  BY <1>1, <1>3
<1>8. ASSUME NEW r \in 1..RoundCount(u), NEW q \in r..RoundCount(u), Prefix(u, r) = NoPrefix
      PROVE  Prefix(u, q) = NoPrefix
  <2>1. At(r) + 1 = L
    BY <1>4, <1>5, <1>6, <1>7, <1>8
  <2>2. q \in 1..RoundCount(u) /\ At(r) <= At(q)
    BY <1>2, <1>3
  <2>3. At(q) + 1 = L
    BY <1>1, <1>3, <1>7, <2>1, <2>2
  <2> QED BY <1>4, <1>5, <2>2, <2>3
<1> QED BY <1>2, <1>4, <1>5, <1>7, <1>8

\* The prefix of a round is in the list of the instruction.
LEMMA PrefixInList ==
  ASSUME NEW u \in Under, NEW r \in 1..RoundCount(u)
  PROVE  \E c \in DOMAIN pfxl[u] : Prefix(u, r) = pfxl[u][c]
<1> DEFINE L == Len(pfxl[u])
           m == Len(u.imms)
<1>1. L \in Nat \ {0} /\ m \in Nat \ {0} /\ RoundCount(u) = L * m /\ DOMAIN pfxl[u] = 1..L
      /\ Prefix(u, r) = pfxl[u][((r - 1) \div m) + 1]
  BY PrefixesAre, UnderType DEF RoundCount, Prefix
<1> HIDE DEF L, m
<1>2. r - 1 \in Nat /\ r - 1 < L * m
  BY <1>1, Rounds
<1>3. (r - 1) \div m \in Nat /\ (r - 1) \div m < L
  BY <1>1, <1>2, Division
<1>4. ((r - 1) \div m) + 1 \in 1..L
  BY <1>1, <1>3
<1> QED BY <1>1, <1>4

\* The round without prefix is of no operand.
LEMMA NoPrefixIsNone ==
  ASSUME NEW u, NEW p
  PROVE  /\ NoPrefix[1] = "none"
         /\ IsSource(u, p) => p # NoPrefix /\ p[1] \in {"rs", "rt"}
         /\ IsDestination(u, p) => p # NoPrefix /\ p[1] = "rd"
BY DEF IsSource, IsDestination, NoPrefix

\* Every instruction is tested with at least one input.
LEMMA InputCountType ==
  ASSUME NEW u \in Under
  PROVE  InputCount(u) \in Nat \ {0}
<1>1. Len(regsin(u)) \in 0..2
  BY UnderType DEF regsin
<1> QED BY <1>1, BoundsAssumption DEF InputCount

-----------------------------------------------------------------------------
(* Numbers.                                                                 *)

\* The operands that each kind of instruction reads.
LEMMA KindInputs ==
  ASSUME NEW u \in Under
  PROVE  /\ HasInput(u, "rs") <=> u.kind # "vzero"
         /\ HasInput(u, "rt") <=> u.kind \in {"vadd", "vcmp"}
         /\ HasInput(u, "vfpu_cc") <=> u.kind = "vcmovt"
         /\ ~HasInput(u, "rd") /\ ~HasInput(u, "none")
BY UnderType DEF HasInput, regsin

\* The inputs are small: their exponents fit into six bits.
LEMMA InputSmall ==
  ASSUME NEW n \in Nat
  PROVE  gen_input_f32(n) \in -76..76
<1> DEFINE m == IF n < 16 THEN n ELSE (7 * n) % 16
<1>1. m \in 0..15
  OBVIOUS
<1> HIDE DEF m
<1>2. gen_input_f32(n) = <<0, 0, 8, -8, 4, 16, 1, -32, 40, -52, 25, -25, 64, -64, 62, -76>>[1 + m]
  BY DEF gen_input_f32, m
<1> QED BY <1>1, <1>2

\* So are the operands loaded from them.
LEMMA RefSmall ==
  ASSUME NEW u \in Under, NEW reg, NEW x \in Nat
  PROVE  \A l \in 0..3 : Ref(u, reg, x)[l] \in -76..76
<1>1. CASE ~HasInput(u, reg)
  BY <1>1 DEF Ref, Zeros
<1>2. CASE HasInput(u, reg)
  <2> DEFINE k == CHOOSE k \in DOMAIN regsin(u) : regsin(u)[k] = reg
  <2>1. DOMAIN regsin(u) \subseteq 1..2
    BY UnderType DEF regsin
  <2>2. k \in DOMAIN regsin(u)
    BY <1>2 DEF HasInput
  <2>3. k - 1 \in 0..2
    BY <2>1, <2>2
  <2> HIDE DEF k
  <2>4. TestCnt^(k - 1) \in Nat \ {0}
    BY <2>3, BoundsAssumption
  <2>5. \A m \in Nat \ {0} : x \div m \in Nat
    OBVIOUS
  <2>6. Shifted(u, reg, x) \in Nat
    BY <2>4, <2>5 DEF Shifted, k
  <2>7. \A l \in 0..3 : l < u.n => Shifted(u, reg, x) + u.n-1 - l \in Nat
    BY <2>6, UnderType
  <2>8. \A l \in 0..3 : Ref(u, reg, x)[l] =
          IF l < u.n THEN gen_input_f32(Shifted(u, reg, x) + u.n-1 - l) ELSE 0
    BY <1>2 DEF Ref, gen_inputs_f32
  <2> QED BY <2>7, <2>8, InputSmall
<1> QED BY <1>1, <1>2

\* A prefix keeps small numbers small, and depends on no other lane.
LEMMA BitType ==
  ASSUME NEW w \in Nat, NEW l \in 0..3
  PROVE  /\ Bit(w, 8 + l) \in {0, 1} /\ Bit(w, 12 + l) \in {0, 1} /\ Bit(w, 16 + l) \in {0, 1}
         /\ Selected(w, l) \in 0..3
BY Powers DEF Bit, Selected

\* A prefixed operand of small lanes has small lanes.
LEMMA SourceSmall ==
  ASSUME NEW n \in 1..4, NEW w \in SourceWords(n) \cup {\hE4}, NEW input,
         \A l \in 0..n-1 : input[l] \in -76..76
  PROVE  \A l \in 0..n-1 : pfx_src(input, w, n)[l] \in -76..76
<1> TAKE l \in 0..n-1
<1> DEFINE swsel == Selected(w, l)
           absel == Bit(w, 8 + l)
           value == IF Bit(w, 12 + l) = 1 THEN prefix_cnt[swsel + 4 * absel]
                    ELSE IF absel = 1 THEN Abs(input[swsel]) ELSE input[swsel]
<1>1. w \in Nat
  BY WordFits
<1>2. swsel \in 0..3 /\ absel \in {0, 1}
  BY <1>1, BitType
<1>3. Bit(w, 12 + l) = 1 \/ swsel \in 0..n-1
  BY WordSelects
<1>4. pfx_src(input, w, n)[l] = IF Bit(w, 16 + l) = 1 THEN -value ELSE value
  BY DEF pfx_src, Selected
<1> HIDE DEF swsel, absel
<1>5. CASE Bit(w, 12 + l) = 1
  <2>1. swsel + 4 * absel \in 0..7
    BY <1>2
  <2>2. prefix_cnt[swsel + 4 * absel] \in 0..24
    BY <2>1 DEF prefix_cnt
  <2>3. value \in -76..76
    BY <1>5, <2>2
  <2> HIDE DEF value
  <2> QED BY <1>4, <2>3
<1>6. CASE Bit(w, 12 + l) # 1
  <2>1. input[swsel] \in -76..76 /\ Abs(input[swsel]) \in -76..76
    BY <1>3, <1>6 DEF Abs
  <2>2. value \in -76..76
    BY <1>6, <2>1
  <2> HIDE DEF value
  <2> QED BY <1>4, <2>2
<1> QED BY <1>5, <1>6

\* A prefixed operand depends on the lanes of the instruction only.
LEMMA SourceSame ==
  ASSUME NEW n \in 1..4, NEW w \in SourceWords(n) \cup {\hE4}, NEW a, NEW b,
         \A l \in 0..n-1 : a[l] = b[l]
  PROVE  \A l \in 0..n-1 : pfx_src(a, w, n)[l] = pfx_src(b, w, n)[l]
<1> TAKE l \in 0..n-1
<1> DEFINE swsel == Selected(w, l)
           value(v) == IF Bit(w, 12 + l) = 1 THEN prefix_cnt[swsel + 4 * Bit(w, 8 + l)]
                       ELSE IF Bit(w, 8 + l) = 1 THEN Abs(v[swsel]) ELSE v[swsel]
<1>1. Bit(w, 12 + l) = 1 \/ swsel \in 0..n-1
  BY WordSelects
<1>2. \A v : pfx_src(v, w, n)[l] = IF Bit(w, 16 + l) = 1 THEN -value(v) ELSE value(v)
  BY DEF pfx_src, Selected
<1> HIDE DEF swsel
<1>3. value(a) = value(b)
  <2>1. CASE Bit(w, 12 + l) = 1
    BY <2>1
  <2>2. CASE swsel \in 0..n-1
    BY <2>2
  <2> QED BY <1>1, <2>1, <2>2
<1> HIDE DEF value
<1> QED BY <1>2, <1>3

\* The loop that finds the exponent ends at a number.
LEMMA ExponentOf ==
  ASSUME NEW v \in 1..127
  PROVE  exponent(v) \in Nat
<1>1. Abs(v) = v
  BY DEF Abs
<1>2. \E e \in 0..6 : 2^e <= v /\ v < 2^(e + 1)
  <2>1. CASE v < 2
    <3>1. 2^0 <= v /\ v < 2^(0 + 1)
      BY <2>1
    <3> QED BY <3>1
  <2>2. CASE 2 <= v /\ v < 4
    <3>1. 2^1 <= v /\ v < 2^(1 + 1)
      BY <2>2
    <3> QED BY <3>1
  <2>3. CASE 4 <= v /\ v < 8
    <3>1. 2^2 <= v /\ v < 2^(2 + 1)
      BY <2>3
    <3> QED BY <3>1
  <2>4. CASE 8 <= v /\ v < 16
    <3>1. 2^3 <= v /\ v < 2^(3 + 1)
      BY <2>4
    <3> QED BY <3>1
  <2>5. CASE 16 <= v /\ v < 32
    <3>1. 2^4 <= v /\ v < 2^(4 + 1)
      BY <2>5
    <3> QED BY <3>1
  <2>6. CASE 32 <= v /\ v < 64
    <3>1. 2^5 <= v /\ v < 2^(5 + 1)
      BY <2>6
    <3> QED BY <3>1
  <2>7. CASE 64 <= v
    <3>1. 2^6 <= v /\ v < 2^(6 + 1)
      BY <2>7
    <3> QED BY <3>1
  <2> QED BY <2>1, <2>2, <2>3, <2>4, <2>5, <2>6, <2>7
<1>3. 0..6 \subseteq 0..Mantissa
  BY BoundsAssumption
<1>4. \E e \in 0..Mantissa : 2^e <= Abs(v) /\ Abs(v) < 2^(e + 1)
  BY <1>1, <1>2, <1>3
<1>5. exponent(v) \in 0..Mantissa
  BY <1>4 DEF exponent
<1> QED BY <1>5, BoundsAssumption

\* The infinity and NaN are numbers here.
LEMMA Specials ==
  Inf = 65536 /\ NaN = 131072
BY DEF Inf, NaN

\* A destination prefix makes numbers of numbers.
LEMMA DestinationInt ==
  ASSUME NEW old, NEW input, NEW w \in Nat, NEW n \in 1..4,
         \A l \in 0..3 : old[l] \in Int /\ input[l] \in Int
  PROVE  \A l \in 0..3 : pfx_dst(old, input, w, n)[l] \in Int
BY Specials DEF pfx_dst, Saturated

\* Without saturation or mask the result is written as it is.
LEMMA DestinationPlain ==
  ASSUME NEW old, NEW input, NEW n \in 1..4
  PROVE  pfx_dst(old, input, 0, n) = [l \in 0..3 |-> IF l >= n THEN old[l] ELSE input[l]]
<1>1. \A l \in 0..3 : Bit(0, 8 + l) # 1 /\ Bit(0, 2 * l) = 0
  <2> TAKE l \in 0..3
  <2>1. CASE l = 0
    BY <2>1 DEF Bit
  <2>2. CASE l = 1
    BY <2>2 DEF Bit
  <2>3. CASE l = 2
    BY <2>3 DEF Bit
  <2>4. CASE l = 3
    BY <2>4 DEF Bit
  <2> QED BY <2>1, <2>2, <2>3, <2>4
<1> QED BY <1>1 DEF pfx_dst

\* The result of the emulation has four lanes.
LEMMA PcodeLanes ==
  ASSUME NEW u, NEW imm, NEW rs, NEW rt, NEW cc, NEW rd
  PROVE  pcode(u, imm, rs, rt, cc, rd) = [l \in 0..3 |-> pcode(u, imm, rs, rt, cc, rd)[l]]
<1> DEFINE lane(l) ==
      IF l >= u.n THEN rd[l]
      ELSE CASE u.kind = "vadd"   -> rs[l] + rt[l]
             [] u.kind = "vcmovt" -> IF (IF imm = 6 THEN l ELSE imm) \in cc THEN rs[l] ELSE rd[l]
             [] u.kind = "vzero"  -> 0
             [] u.kind = "vrcp"   -> Reciprocal(rs[l])
             [] u.kind = "vlog2"  -> log2(rs[l])
<1>1. pcode(u, imm, rs, rt, cc, rd) = [l \in 0..3 |-> lane(l)]
  BY DEF pcode
<1> HIDE DEF lane
<1> QED BY <1>1

\* Operands small enough, or not read.
Small(u, reg, values) ==
  HasInput(u, reg) => \A l \in 0..u.n-1 : values[l] \in -76..76

\* The emulation makes numbers of small operands.
LEMMA PcodeInt ==
  ASSUME NEW u \in Under, HasOutput(u), NEW imm, NEW rs, NEW rt, NEW cc, NEW rd,
         Small(u, "rs", rs), Small(u, "rt", rt), \A l \in 0..3 : rd[l] \in Int
  PROVE  \A l \in 0..3 : pcode(u, imm, rs, rt, cc, rd)[l] \in Int
<1> TAKE l \in 0..3
<1>1. CASE l >= u.n
  BY <1>1 DEF pcode
<1> SUFFICES ASSUME l < u.n PROVE pcode(u, imm, rs, rt, cc, rd)[l] \in Int
  BY <1>1, UnderType
<1>i. l \in 0..u.n-1 /\ ~(l >= u.n)
  BY UnderType
<1>2. CASE u.kind = "vadd"
  <2>1. rs[l] \in Int /\ rt[l] \in Int
    BY <1>2, <1>i, KindInputs DEF Small
  <2>2. pcode(u, imm, rs, rt, cc, rd)[l] = rs[l] + rt[l]
    BY <1>2, <1>i DEF pcode
  <2> QED BY <2>1, <2>2
<1>3. CASE u.kind = "vcmovt"
  <2>1. rs[l] \in Int
    BY <1>3, <1>i, KindInputs DEF Small
  <2>2. pcode(u, imm, rs, rt, cc, rd)[l] \in {rs[l], rd[l]}
    BY <1>3, <1>i DEF pcode
  <2> QED BY <2>1, <2>2
<1>4. CASE u.kind = "vzero"
  BY <1>4, <1>i DEF pcode
<1>5. CASE u.kind = "vrcp"
  <2>1. rs[l] \in -76..76
    BY <1>5, <1>i, KindInputs DEF Small
  <2>2. pcode(u, imm, rs, rt, cc, rd)[l] = Reciprocal(rs[l])
    BY <1>5, <1>i DEF pcode
  <2>3. \A v \in -76..76 : Reciprocal(v) \in Int
    BY Specials DEF Reciprocal, Abs
  <2> QED BY <2>1, <2>2, <2>3
<1>6. CASE u.kind = "vlog2"
  <2>1. rs[l] \in -76..76
    BY <1>6, <1>i, KindInputs DEF Small
  <2>2. pcode(u, imm, rs, rt, cc, rd)[l] = log2(rs[l])
    BY <1>6, <1>i DEF pcode
  <2>3. \A v \in 1..127 : exponent(v) \in Nat
    BY ExponentOf
  <2>4. \A v \in -76..76 : log2(v) \in Int
    BY <2>3, Specials DEF log2
  <2> QED BY <2>1, <2>2, <2>4
<1> QED BY <1>2, <1>3, <1>4, <1>5, <1>6, UnderType DEF HasOutput

-----------------------------------------------------------------------------
(* An instruction, and what it depends on.                                  *)

\* The prefixes pending in a round.
Pending(u, r) ==
  IF Prefix(u, r) = NoPrefix THEN DefaultPrefixes
  ELSE [DefaultPrefixes EXCEPT ![Reg[Prefix(u, r)[1]]] = Prefix(u, r)[3]]

\* The prefixes pending in a round are words of the list, or defaults.
LEMMA PendingWords ==
  ASSUME NEW u \in Under, NEW r \in 1..RoundCount(u)
  PROVE  /\ Pending(u, r)["s"] \in SourceWords(u.n) \cup {\hE4}
         /\ Pending(u, r)["t"] \in SourceWords(u.n) \cup {\hE4}
         /\ Pending(u, r)["d"] \in {0, \hF00, \h55, \hFF}
<1>0. /\ DefaultPrefixes["s"] = \hE4 /\ DefaultPrefixes["t"] = \hE4 /\ DefaultPrefixes["d"] = 0
      /\ DefaultPrefixes = [x \in {"s", "t", "d"} |-> DefaultPrefixes[x]]
  BY DEF DefaultPrefixes, Prefixed, Sources
<1>1. CASE Prefix(u, r) = NoPrefix
  BY <1>0, <1>1 DEF Pending
<1>2. CASE IsSource(u, Prefix(u, r)) /\ Prefix(u, r) # NoPrefix
  <2>1. Prefix(u, r)[1] \in {"rs", "rt"} /\ Prefix(u, r)[3] \in SourceWords(u.n)
    BY <1>2 DEF IsSource
  <2>2. Reg[Prefix(u, r)[1]] \in {"s", "t"}
    BY <2>1 DEF Reg
  <2> QED BY <1>0, <1>2, <2>1, <2>2 DEF Pending
<1>3. CASE IsDestination(u, Prefix(u, r)) /\ Prefix(u, r) # NoPrefix
  <2>1. Prefix(u, r)[1] = "rd" /\ Prefix(u, r)[3] \in {\hF00, \h55, \hFF}
    BY <1>3 DEF IsDestination
  <2>2. Reg[Prefix(u, r)[1]] = "d"
    BY <2>1 DEF Reg
  <2> QED BY <1>0, <1>3, <2>1, <2>2 DEF Pending
<1> QED BY <1>1, <1>2, <1>3, Rounds

\* Registers that agree where the instruction reads them.
Agree(u, reg, a, b) ==
  HasInput(u, reg) => \A l \in 0..u.n-1 : a[l] = b[l]

\* What the hardware sees of an operand depends on the lanes it reads only.
LEMMA SeenSame ==
  ASSUME NEW u \in Under, NEW reg \in {"rs", "rt"}, NEW h,
         NEW w \in SourceWords(u.n) \cup {\hE4}, NEW a, NEW b, Agree(u, reg, a, b)
  PROVE  Agree(u, reg, Seen(h, u, reg, a, w), Seen(h, u, reg, b, w))
<1> SUFFICES ASSUME HasInput(u, reg)
             PROVE  \A l \in 0..u.n-1 : Seen(h, u, reg, a, w)[l] = Seen(h, u, reg, b, w)[l]
  BY DEF Agree
<1>1. \A l \in 0..u.n-1 : a[l] = b[l]
  BY DEF Agree
<1>2. u.n \in 1..4
  BY UnderType
<1>3. \A l \in 0..u.n-1 : pfx_src(a, w, u.n)[l] = pfx_src(b, w, u.n)[l]
  BY <1>1, <1>2, SourceSame
<1>4. CASE h.name = u.name /\ <<reg, w>> \in h.ignored
  BY <1>1, <1>4 DEF Seen
<1>5. CASE ~(h.name = u.name /\ <<reg, w>> \in h.ignored)
  BY <1>3, <1>5 DEF Seen
<1> QED BY <1>4, <1>5

\* The hardware sees small operands if they are small.
LEMMA SeenSmall ==
  ASSUME NEW u \in Under, NEW reg \in {"rs", "rt"}, NEW h,
         NEW w \in SourceWords(u.n) \cup {\hE4}, NEW a, Small(u, reg, a)
  PROVE  Small(u, reg, Seen(h, u, reg, a, w))
<1> SUFFICES ASSUME HasInput(u, reg)
             PROVE  \A l \in 0..u.n-1 : Seen(h, u, reg, a, w)[l] \in -76..76
  BY DEF Small
<1>1. \A l \in 0..u.n-1 : a[l] \in -76..76
  BY DEF Small
<1>2. u.n \in 1..4
  BY UnderType
<1>3. \A l \in 0..u.n-1 : pfx_src(a, w, u.n)[l] \in -76..76
  BY <1>1, <1>2, SourceSmall
<1>4. CASE h.name = u.name /\ <<reg, w>> \in h.ignored
  BY <1>1, <1>4 DEF Seen
<1>5. CASE ~(h.name = u.name /\ <<reg, w>> \in h.ignored)
  BY <1>3, <1>5 DEF Seen
<1> QED BY <1>4, <1>5

\* The emulation depends on the lanes that the instruction reads only.
LEMMA PcodeSame ==
  ASSUME NEW u \in Under, HasOutput(u), NEW imm, NEW cc, NEW rd,
         NEW a, NEW b, NEW c, NEW d, Agree(u, "rs", a, b), Agree(u, "rt", c, d)
  PROVE  pcode(u, imm, a, c, cc, rd) = pcode(u, imm, b, d, cc, rd)
<1> DEFINE lane(x, y, l) ==
      IF l >= u.n THEN rd[l]
      ELSE CASE u.kind = "vadd"   -> x[l] + y[l]
             [] u.kind = "vcmovt" -> IF (IF imm = 6 THEN l ELSE imm) \in cc THEN x[l] ELSE rd[l]
             [] u.kind = "vzero"  -> 0
             [] u.kind = "vrcp"   -> Reciprocal(x[l])
             [] u.kind = "vlog2"  -> log2(x[l])
<1>1. ASSUME NEW l \in 0..3 PROVE lane(a, c, l) = lane(b, d, l)
  <2>1. CASE l >= u.n
    BY <2>1
  <2>2. CASE ~(l >= u.n)
    <3>1. l \in 0..u.n-1
      BY <2>2, UnderType
    <3>2. u.kind # "vzero" => a[l] = b[l]
      BY <3>1, KindInputs DEF Agree
    <3>3. u.kind = "vadd" => c[l] = d[l]
      BY <3>1, KindInputs DEF Agree
    <3>4. u.kind \in {"vadd", "vcmovt", "vzero", "vrcp", "vlog2"}
      BY UnderType DEF HasOutput
    <3> QED BY <2>2, <3>2, <3>3, <3>4
  <2> QED BY <2>1, <2>2
<1>2. /\ pcode(u, imm, a, c, cc, rd) = [l \in 0..3 |-> lane(a, c, l)]
      /\ pcode(u, imm, b, d, cc, rd) = [l \in 0..3 |-> lane(b, d, l)]
  BY DEF pcode
<1> HIDE DEF lane
<1> QED BY <1>1, <1>2

\* So do the truths of a comparison.
LEMMA TruthsSame ==
  ASSUME NEW u \in Under, ~HasOutput(u), NEW imm,
         NEW a, NEW b, NEW c, NEW d, Agree(u, "rs", a, b), Agree(u, "rt", c, d)
  PROVE  Truths(u, imm, a, c) = Truths(u, imm, b, d)
<1>1. \A l \in Lanes(u.n) : a[l] = b[l] /\ c[l] = d[l]
  BY KindInputs DEF Agree, HasOutput, Lanes
<1> QED BY <1>1 DEF Truths

\* The same of the result of the hardware, whatever it ignores.
LEMMA ExecuteValuesSame ==
  ASSUME NEW u \in Under, HasOutput(u), NEW imm, NEW cc, NEW rd, NEW h, NEW pfx,
         pfx["s"] \in SourceWords(u.n) \cup {\hE4}, pfx["t"] \in SourceWords(u.n) \cup {\hE4},
         NEW a, NEW b, NEW c, NEW d, Agree(u, "rs", a, b), Agree(u, "rt", c, d)
  PROVE  ExecuteValues(h, u, imm, a, c, cc, rd, pfx) = ExecuteValues(h, u, imm, b, d, cc, rd, pfx)
<1>1. pcode(u, imm, Seen(h, u, "rs", a, pfx["s"]), Seen(h, u, "rt", c, pfx["t"]), cc, rd)
        = pcode(u, imm, Seen(h, u, "rs", b, pfx["s"]), Seen(h, u, "rt", d, pfx["t"]), cc, rd)
  BY SeenSame, PcodeSame
<1> QED BY <1>1 DEF ExecuteValues

\* And of the truths it finds.
LEMMA ExecuteTruthsSame ==
  ASSUME NEW u \in Under, ~HasOutput(u), NEW imm, NEW h, NEW pfx,
         pfx["s"] \in SourceWords(u.n) \cup {\hE4}, pfx["t"] \in SourceWords(u.n) \cup {\hE4},
         NEW a, NEW b, NEW c, NEW d, Agree(u, "rs", a, b), Agree(u, "rt", c, d)
  PROVE  ExecuteTruths(h, u, imm, a, c, pfx) = ExecuteTruths(h, u, imm, b, d, pfx)
<1> DEFINE s1 == Seen(h, u, "rs", a, pfx["s"])
           s2 == Seen(h, u, "rs", b, pfx["s"])
           t1 == Seen(h, u, "rt", c, pfx["t"])
           t2 == Seen(h, u, "rt", d, pfx["t"])
<1>1. Agree(u, "rs", s1, s2) /\ Agree(u, "rt", t1, t2)
  BY SeenSame
<1>2. Truths(u, imm, s1, t1) = Truths(u, imm, s2, t2)
  <2> HIDE DEF s1, s2, t1, t2
  <2> QED BY <1>1, TruthsSame
<1>3. s1[0] = s2[0]
  <2> HIDE DEF s1, s2
  <2> QED BY <1>1, KindInputs, UnderType DEF Agree, HasOutput
<1> QED BY <1>2, <1>3 DEF ExecuteTruths

\* The operands that are loaded are small enough for the emulation.
LEMMA RefFits ==
  ASSUME NEW u \in Under, NEW reg, NEW x \in Nat
  PROVE  Small(u, reg, Ref(u, reg, x))
<1>1. 0..u.n-1 \subseteq 0..3
  BY UnderType
<1> QED BY <1>1, RefSmall DEF Small

\* The hardware makes numbers of small operands.
LEMMA ExecuteValuesInt ==
  ASSUME NEW u \in Under, HasOutput(u), NEW imm, NEW a, NEW b, NEW cc, NEW rd, NEW pfx, NEW h,
         h.off \in Int, Small(u, "rs", a), Small(u, "rt", b), \A l \in 0..3 : rd[l] \in Int,
         pfx["s"] \in SourceWords(u.n) \cup {\hE4}, pfx["t"] \in SourceWords(u.n) \cup {\hE4},
         pfx["d"] \in Nat
  PROVE  \A l \in 0..3 : ExecuteValues(h, u, imm, a, b, cc, rd, pfx)[l] \in Int
<1> DEFINE value == pcode(u, imm, Seen(h, u, "rs", a, pfx["s"]), Seen(h, u, "rt", b, pfx["t"]), cc, rd)
           made  == [value EXCEPT ![0] = IF Miscomputes(h, u, @) THEN @ + h.off ELSE @]
<1>1. \A l \in 0..3 : value[l] \in Int
  BY SeenSmall, PcodeInt
<1>2. value = [l \in 0..3 |-> value[l]]
  BY PcodeLanes
<1>3. \A l \in 0..3 : made[l] = IF l = 0 /\ Miscomputes(h, u, value[l]) THEN value[l] + h.off ELSE value[l]
  <2> HIDE DEF value
  <2> QED BY <1>2
<1>4. \A l \in 0..3 : made[l] \in Int
  <2> HIDE DEF value, made
  <2> QED BY <1>1, <1>3
<1>5. ExecuteValues(h, u, imm, a, b, cc, rd, pfx)
        = IF h.name = u.name /\ <<"rd", pfx["d"]>> \in h.ignored
          THEN made ELSE pfx_dst(rd, made, pfx["d"], u.n)
  BY DEF ExecuteValues
<1> HIDE DEF made
<1>6. \A l \in 0..3 : pfx_dst(rd, made, pfx["d"], u.n)[l] \in Int
  BY <1>4, DestinationInt, UnderType
<1> QED BY <1>4, <1>5, <1>6

\* The expected result of every round is made of numbers.
LEMMA FinalInt ==
  ASSUME NEW u \in Under, HasOutput(u), NEW x \in Nat, NEW r \in 1..RoundCount(u)
  PROVE  \A l \in 0..3 : Final(u, x, r)[l] \in Int
<1> DEFINE rs == EmulatedSource(u, x, r, "rs")
           rt == EmulatedSource(u, x, r, "rt")
           rd == pcode(u, Imm(u, r), rs, rt, CcRef(u, x), Zeros)
<1>1. ASSUME NEW reg \in {"rs", "rt"} PROVE Small(u, reg, EmulatedSource(u, x, r, reg))
  <2>1. CASE Prefix(u, r)[1] = reg
    <3>1. IsSource(u, Prefix(u, r))
      BY <2>1, Rounds, NoPrefixIsNone
    <3>2. Prefix(u, r)[3] \in SourceWords(u.n) /\ HasInput(u, reg)
      BY <2>1, <3>1 DEF IsSource
    <3>3. \A l \in 0..u.n-1 : Ref(u, reg, x)[l] \in -76..76
      BY <3>2, RefFits DEF Small
    <3>4. \A l \in 0..u.n-1 : pfx_src(Ref(u, reg, x), Prefix(u, r)[3], u.n)[l] \in -76..76
      BY <3>2, <3>3, UnderType, SourceSmall
    <3> QED BY <2>1, <3>4 DEF EmulatedSource, Small
  <2>2. CASE Prefix(u, r)[1] # reg
    BY <2>2, RefFits DEF EmulatedSource
  <2> QED BY <2>1, <2>2
<1>2. \A l \in 0..3 : Zeros[l] \in Int
  BY DEF Zeros
<1>3. \A l \in 0..3 : rd[l] \in Int
  <2> HIDE DEF rs, rt
  <2>1. Small(u, "rs", rs) /\ Small(u, "rt", rt)
    BY <1>1 DEF rs, rt
  <2> QED BY <1>2, <2>1, PcodeInt
<1>4. Final(u, x, r) = IF Prefix(u, r)[1] = "rd" THEN pfx_dst(Zeros, rd, Prefix(u, r)[3], u.n) ELSE rd
  BY DEF Final
<1> HIDE DEF rd
<1>5. CASE Prefix(u, r)[1] = "rd"
  <2>1. IsDestination(u, Prefix(u, r))
    BY <1>5, Rounds, NoPrefixIsNone
  <2>2. Prefix(u, r)[3] \in Nat
    BY <2>1 DEF IsDestination
  <2>3. \A l \in 0..3 : pfx_dst(Zeros, rd, Prefix(u, r)[3], u.n)[l] \in Int
    BY <1>2, <1>3, <2>2, UnderType, DestinationInt
  <2> QED BY <1>4, <1>5, <2>3
<1>6. CASE Prefix(u, r)[1] # "rd"
  BY <1>3, <1>4, <1>6
<1> QED BY <1>5, <1>6

-----------------------------------------------------------------------------
(* The comparisons are what the accuracy says.                              *)

\* A quotient is exceeded when the product is.
LEMMA Quotient ==
  ASSUME NEW k \in Nat \ {0}, NEW a \in Nat, NEW b \in Nat
  PROVE  a * k > b <=> a > b \div k
<1> DEFINE q == b \div k
           rest == b % k
<1>1. q \in Nat /\ rest \in 0..k-1 /\ b = k * q + rest
  OBVIOUS
<1> HIDE DEF q, rest
<1>2. CASE a >= q + 1
  <2>1. PICK m \in Nat : a = q + 1 + m
    <3>1. a - (q + 1) \in Nat /\ a = q + 1 + (a - (q + 1))
      BY <1>1, <1>2
    <3> QED BY <3>1
  <2>2. a * k = k * q + k + m * k /\ m * k >= 0 /\ k * q \in Nat /\ m * k \in Nat
    BY <1>1, <2>1
  <2>3. a * k > b
    BY <1>1, <2>2
  <2> QED BY <1>1, <1>2, <2>3 DEF q
<1>3. CASE a <= q
  <2>1. PICK m \in Nat : q = a + m
    <3>1. q - a \in Nat /\ q = a + (q - a)
      BY <1>1, <1>3
    <3> QED BY <3>1
  <2>2. k * q = a * k + m * k /\ m * k >= 0 /\ a * k \in Nat /\ m * k \in Nat
    BY <1>1, <2>1
  <2>3. ~(a * k > b)
    BY <1>1, <2>2
  <2> QED BY <1>1, <1>3, <2>3 DEF q
<1> QED BY <1>1, <1>2, <1>3

\* fprelerr() is the accuracy relative to the result.
LEMMA RelativeIs ==
  ASSUME NEW k \in Nat \ {0}, NEW want \in Int, NEW got \in Int
  PROVE  fprelerr(want, got, k) <=> Outside(<<"relative", k>>, want, got)
<1>1. Abs(want - got) \in Nat /\ Abs(got) \in Nat
  BY DEF Abs
<1>2. Abs(want - got) * k > Abs(got) <=> Abs(want - got) > Abs(got) \div k
  BY <1>1, Quotient
<1> DEFINE m == Abs(got) \div k
<1>3. m \in Nat
  BY <1>1
<1>4. Abs(got) = Inf <=> got \in {Inf, -Inf}
  BY Specials DEF Abs
<1> HIDE DEF m
<1>5. Abs(want - got) > m <=> want \notin got - m..got + m
  BY <1>3 DEF Abs
<1> QED BY <1>2, <1>4, <1>5 DEF fprelerr, Outside, m

\* fpabserr() is the absolute accuracy.
LEMMA AbsoluteIs ==
  ASSUME NEW d \in Nat, NEW want \in Int, NEW got \in Int
  PROVE  fpabserr(want, got, d) <=> Outside(<<"absolute", d>>, want, got)
<1>1. Abs(want - got) > d <=> want \notin got - d..got + d
  BY DEF Abs
<1> QED BY <1>1 DEF fpabserr, Outside

\* compare_code: a result is refused just if a lane is outside the accuracy.
LEMMA MiscompareIs ==
  ASSUME NEW u \in Under, NEW want, NEW got,
         \A l \in 0..3 : want[l] \in Int /\ got[l] \in Int
  PROVE  Miscompare(u, want, got) <=> \E l \in Lanes(u.n) : Outside(u.accuracy, want[l], got[l])
<1>1. Lanes(u.n) \subseteq 0..3
  BY UnderType DEF Lanes
<1>2. CASE u.accuracy[1] = "exact"
  BY <1>2 DEF Miscompare, Outside
<1>3. CASE u.accuracy[1] = "relative"
  <2>1. u.accuracy = <<"relative", u.accuracy[2]>> /\ u.accuracy[2] \in Nat \ {0}
    BY <1>3, UnderType DEF Accuracies
  <2>2. \A l \in Lanes(u.n) : fprelerr(want[l], got[l], u.accuracy[2])
                               <=> Outside(u.accuracy, want[l], got[l])
    BY <1>1, <2>1, RelativeIs
  <2> QED BY <1>3, <2>2 DEF Miscompare
<1>4. CASE u.accuracy[1] = "absolute"
  <2>1. u.accuracy = <<"absolute", u.accuracy[2]>> /\ u.accuracy[2] \in Nat
    BY <1>4, UnderType DEF Accuracies
  <2>2. \A l \in Lanes(u.n) : fpabserr(want[l], got[l], u.accuracy[2])
                               <=> Outside(u.accuracy, want[l], got[l])
    BY <1>1, <2>1, AbsoluteIs
  <2> QED BY <1>4, <2>2 DEF Miscompare
<1>5. u.accuracy[1] \in {"exact", "relative", "absolute"}
  BY UnderType DEF Accuracies
<1> QED BY <1>2, <1>3, <1>4, <1>5

\* A word is its bits.
LEMMA WordIs ==
  ASSUME NEW a \in SUBSET (0..5), NEW b \in SUBSET (0..5)
  PROVE  Word(a) = Word(b) <=> a = b
<1>1. \A s : Word(s) = (IF 0 \in s THEN 1 ELSE 0) + (IF 1 \in s THEN 2 ELSE 0)
                       + (IF 2 \in s THEN 4 ELSE 0) + (IF 3 \in s THEN 8 ELSE 0)
                       + (IF 4 \in s THEN 16 ELSE 0) + (IF 5 \in s THEN 32 ELSE 0)
  BY DEF Word
<1>2. a = b <=> \A l \in 0..5 : l \in a <=> l \in b
  OBVIOUS
<1>3. ASSUME Word(a) = Word(b)
      PROVE  /\ (0 \in a <=> 0 \in b) /\ (1 \in a <=> 1 \in b) /\ (2 \in a <=> 2 \in b)
             /\ (3 \in a <=> 3 \in b) /\ (4 \in a <=> 4 \in b) /\ (5 \in a <=> 5 \in b)
  BY <1>1, <1>3
<1> QED BY <1>2, <1>3

\* A condition code is made of six bits.
LEMMA AggregateIs ==
  ASSUME NEW u \in Under, NEW true \in SUBSET Lanes(u.n)
  PROVE  Aggregate({}, u.n, true) \in SUBSET (0..5)
<1>1. true \subseteq 0..3 /\ 4 \in 0..5 /\ 5 \in 0..5
  BY UnderType DEF Lanes
<1>2. true \subseteq 0..5
  BY <1>1
<1>3. \A S, T : S \subseteq 0..5 /\ T \subseteq 0..5 => S \cup T \subseteq 0..5
  OBVIOUS
<1>4. {b \in {4} : true # {}} \subseteq 0..5 /\ {b \in {5} : true = 0..u.n-1} \subseteq 0..5
  BY <1>1
<1>5. {} \ (0..u.n-1 \cup {4, 5}) \subseteq 0..5
  OBVIOUS
<1> QED BY <1>2, <1>4, <1>5, Zenon DEF Aggregate

\* The truths that the hardware finds are lanes of the instruction.
LEMMA ExecuteTruthsType ==
  ASSUME NEW u \in Under, NEW imm, NEW a, NEW b, NEW h, NEW pfx
  PROVE  ExecuteTruths(h, u, imm, a, b, pfx) \in SUBSET Lanes(u.n)
<1>1. 0 \in Lanes(u.n)
  BY UnderType DEF Lanes
<1> QED BY <1>1 DEF ExecuteTruths, Truths

-----------------------------------------------------------------------------
(* A round finds the machine as if it were the first.                       *)

\* The matrices of the operands.
Operands == {"rs", "rt", "rd"}

\* Where the program is.
PlaceInv ==
  /\ hw \in Hardware
  /\ test \in 1..Len(Tests) + 1 /\ i \in Nat /\ round \in Nat \ {0}
  /\ test <= Len(Tests) => i < InputCount(t) /\ round <= RoundCount(t)
  /\ pc \in {"prologue", "prefix", "inst", "read"}
  /\ pc # "prologue" => test <= Len(Tests)

\* The operands are loaded and the matrix is clear.
Loaded ==
  /\ regs["rd"] = Zeros
  /\ \A reg \in {"rs", "rt"} : Agree(t, reg, regs[reg], Ref(t, reg, i))

\* What the instruction leaves for the comparison.
Outcome ==
  IF HasOutput(t) THEN regs["rd"] = Alone(test, i, round) ELSE ctl.cc = Alone(test, i, round)

\* The machine between the steps of a round: what an earlier round left of the
\* matrix, the condition code and the prefixes is gone by the time it matters.
MachineInv ==
  /\ regs = [reg \in Operands |-> regs[reg]]
  /\ \A reg \in Operands, l \in 0..3 : regs[reg][l] \in Int
  /\ ctl = [pfx |-> ctl.pfx, cc |-> ctl.cc, seen |-> ctl.seen]
  /\ ctl.pfx = IF pc = "inst" THEN Pending(t, round) ELSE DefaultPrefixes
  /\ pc \in {"prefix", "inst"} => ctl.cc = CcRef(t, i) /\ Loaded
  /\ pc = "read" => Outcome

\* The first half of the invariant.
RoundInv == PlaceInv /\ MachineInv

\* Every entry of the table is an instruction under test.
LEMMA TestUnder ==
  ASSUME NEW k \in 1..Len(Tests)
  PROVE  Tests[k] \in Under /\ k \in DOMAIN Tests
<1>1. DOMAIN Tests = 1..Len(Tests)
  BY TestsAssumption
<1> QED BY <1>1 DEF Under

\* So is the current one; its input and round exist.
LEMMA CurrentUnder ==
  ASSUME PlaceInv, test <= Len(Tests)
  PROVE  /\ test \in 1..Len(Tests) /\ t \in Under /\ i \in Nat /\ i \in 0..InputCount(t)-1
         /\ round \in 1..RoundCount(t) /\ RoundCount(t) \in Nat \ {0} /\ InputCount(t) \in Nat \ {0}
<1>1. Len(Tests) \in Nat
  BY TestsAssumption
<1>2. test \in 1..Len(Tests)
  BY <1>1 DEF PlaceInv
<1>3. t \in Under
  BY <1>2, TestUnder DEF t
<1>4. RoundCount(t) \in Nat \ {0} /\ InputCount(t) \in Nat \ {0}
  BY <1>3, Rounds, InputCountType
<1> QED BY <1>2, <1>3, <1>4 DEF PlaceInv

\* The default prefixes.
LEMMA DefaultsAre ==
  /\ DefaultPrefixes["s"] = \hE4 /\ DefaultPrefixes["t"] = \hE4 /\ DefaultPrefixes["d"] = 0
  /\ DefaultPrefixes = [x \in {"s", "t", "d"} |-> DefaultPrefixes[x]]
BY DEF DefaultPrefixes, Prefixed, Sources

\* The program starts at the first round.
LEMMA RoundStart ==
  ASSUME Init
  PROVE  RoundInv
<1>1. PlaceInv
  <2>1. Len(Tests) \in Nat
    BY TestsAssumption
  <2>2. ASSUME test <= Len(Tests) PROVE i < InputCount(t) /\ round <= RoundCount(t)
    <3>1. t \in Under
      BY <2>1, <2>2, TestUnder DEF Init, t
    <3> QED BY <3>1, Rounds, InputCountType DEF Init
  <2> QED BY <2>1, <2>2 DEF Init, PlaceInv
<1>2. MachineInv
  BY DEF Init, MachineInv, Reset, Operands, Zeros
<1> QED BY <1>1, <1>2 DEF RoundInv

\* The prologue clears the matrix and loads the operands and the condition code,
\* so that the prefix or the instruction finds the machine as if it were the first.
LEMMA PrologueStep ==
  ASSUME RoundInv, Prologue
  PROVE  RoundInv'
<1>1. PlaceInv /\ MachineInv /\ test <= Len(Tests) /\ pc = "prologue" /\ pc' = "prefix"
  BY DEF RoundInv, Prologue
<1>2. hw' = hw /\ test' = test /\ i' = i /\ round' = round /\ t' = t
  BY DEF Prologue, t
<1>3. PlaceInv'
  BY <1>1, <1>2 DEF PlaceInv
<1>4. t \in Under /\ i \in Nat
  BY <1>1, CurrentUnder
<1>5. ctl' = [pfx |-> DefaultPrefixes, cc |-> CcRef(t, i), seen |-> CcRef(t, i)]
  BY <1>1 DEF Prologue, MachineInv, Mtvc, Vector, Settled
<1>6. ctl.pfx["d"] = 0
  BY <1>1, DefaultsAre DEF MachineInv
<1>7. regs'["rd"] = Zeros
  <2>1. regs'["rd"] = pfx_dst(regs["rd"], Zeros, 0, 4)
    BY <1>6 DEF Prologue
  <2>2. pfx_dst(regs["rd"], Zeros, 0, 4) = [l \in 0..3 |-> IF l >= 4 THEN regs["rd"][l] ELSE Zeros[l]]
    BY DestinationPlain
  <2>3. [l \in 0..3 |-> IF l >= 4 THEN regs["rd"][l] ELSE Zeros[l]] = Zeros
    BY DEF Zeros
  <2> QED BY <2>1, <2>2, <2>3
<1>8. \A reg \in {"rs", "rt"}, l \in 0..3 :
        regs'[reg][l] = IF HasInput(t, reg) /\ l < t.n THEN Ref(t, reg, i)[l] ELSE regs[reg][l]
  BY DEF Prologue
<1>9. \A reg \in Operands, l \in 0..3 : regs'[reg][l] \in Int
  <2>1. \A reg \in {"rs", "rt"}, l \in 0..3 : regs[reg][l] \in Int
    BY <1>1 DEF MachineInv, Operands
  <2>2. \A reg \in {"rs", "rt"}, l \in 0..3 : Ref(t, reg, i)[l] \in Int
    BY <1>4, RefSmall
  <2>3. \A reg \in {"rs", "rt"}, l \in 0..3 : regs'[reg][l] \in Int
    BY <1>8, <2>1, <2>2
  <2> QED BY <1>7, <2>3 DEF Operands, Zeros
<1>10. \A reg \in {"rs", "rt"} : Agree(t, reg, regs'[reg], Ref(t, reg, i))
  <2>1. \A l \in 0..t.n-1 : l \in 0..3 /\ l < t.n
    BY <1>4, UnderType
  <2> QED BY <1>8, <2>1 DEF Agree
<1>11. regs' = [reg \in Operands |-> regs'[reg]]
  BY DEF Prologue, Operands
<1>12. Loaded'
  BY <1>2, <1>7, <1>10 DEF Loaded
<1>13. MachineInv'
  BY <1>1, <1>2, <1>5, <1>9, <1>11, <1>12 DEF MachineInv
<1> QED BY <1>3, <1>13 DEF RoundInv

\* The prefix instruction leaves the defaults and one prefix pending.
LEMMA SetPrefixStep ==
  ASSUME RoundInv, SetPrefix
  PROVE  RoundInv'
<1>1. PlaceInv /\ MachineInv /\ test <= Len(Tests) /\ pc = "prefix" /\ pc' = "inst"
  BY DEF RoundInv, PlaceInv, SetPrefix
<1>2. hw' = hw /\ test' = test /\ i' = i /\ round' = round /\ t' = t /\ regs' = regs
  BY DEF SetPrefix, t
<1>3. PlaceInv'
  BY <1>1, <1>2 DEF PlaceInv
<1>4. t \in Under /\ round \in 1..RoundCount(t)
  BY <1>1, CurrentUnder
<1>5. /\ ctl = [pfx |-> DefaultPrefixes, cc |-> CcRef(t, i), seen |-> ctl.seen]
      /\ Loaded
  BY <1>1 DEF MachineInv
<1>6. /\ ctl' = [pfx |-> ctl'.pfx, cc |-> ctl'.cc, seen |-> ctl'.seen]
      /\ ctl'.pfx = Pending(t, round) /\ ctl'.cc = CcRef(t, i)
  <2> DEFINE p == Prefix(t, round)
  <2>1. CASE p = NoPrefix
    BY <1>5, <2>1 DEF SetPrefix, Pending
  <2>2. CASE p # NoPrefix
    <3>1. IsSource(t, p) \/ IsDestination(t, p)
      BY <1>4, <2>2, Rounds
    <3>2. p[3] % 2^PayloadBits(Reg[p[1]]) = p[3]
      <4>1. CASE IsSource(t, p)
        <5>1. Reg[p[1]] \in {"s", "t"} /\ p[3] \in SourceWords(t.n)
          BY <4>1 DEF IsSource, Reg
        <5>2. PayloadBits(Reg[p[1]]) = 20
          BY <5>1 DEF PayloadBits, Sources
        <5> QED BY <1>4, <5>1, <5>2, UnderType, WordFits
      <4>2. CASE IsDestination(t, p)
        <5>1. Reg[p[1]] = "d" /\ p[3] \in {\hF00, \h55, \hFF}
          BY <4>2 DEF IsDestination, Reg
        <5>2. PayloadBits(Reg[p[1]]) = 12
          BY <5>1 DEF PayloadBits, Sources
        <5>3. p[3] % 2^12 = p[3]
          BY <5>1, DestinationWordFits
        <5> HIDE DEF p
        <5> QED BY <5>2, <5>3
      <4> QED BY <3>1, <4>1, <4>2
    <3>3. ctl' = Vpfx(ctl, Reg[p[1]], p[3])
      BY <2>2 DEF SetPrefix
    <3> HIDE DEF p
    <3>4. Settled(ctl) = [pfx |-> DefaultPrefixes, cc |-> CcRef(t, i), seen |-> CcRef(t, i)]
      BY <1>5 DEF Settled
    <3>5. ctl' = [pfx |-> [DefaultPrefixes EXCEPT ![Reg[p[1]]] = p[3]],
                  cc |-> CcRef(t, i), seen |-> CcRef(t, i)]
      BY <3>2, <3>3, <3>4 DEF Vpfx
    <3>6. Pending(t, round) = [DefaultPrefixes EXCEPT ![Reg[p[1]]] = p[3]]
      BY <2>2 DEF Pending, p
    <3> QED BY <3>5, <3>6
  <2> QED BY <2>1, <2>2
<1>7. Loaded'
  BY <1>2, <1>5 DEF Loaded
<1>8. MachineInv'
  BY <1>1, <1>2, <1>6, <1>7 DEF MachineInv
<1> QED BY <1>3, <1>8 DEF RoundInv

\* What the instruction writes is what it writes alone.
LEMMA InstructionStep ==
  ASSUME RoundInv, Instruction
  PROVE  RoundInv'
<1>1. PlaceInv /\ MachineInv /\ test <= Len(Tests) /\ pc = "inst" /\ pc' = "read"
  BY DEF RoundInv, PlaceInv, Instruction
<1>2. hw' = hw /\ test' = test /\ i' = i /\ round' = round /\ t' = t
  BY DEF Instruction, t
<1>3. PlaceInv'
  BY <1>1, <1>2 DEF PlaceInv
<1>4. /\ test \in 1..Len(Tests) /\ t \in Under /\ round \in 1..RoundCount(t) /\ i \in Nat
  BY <1>1, CurrentUnder
<1> DEFINE imm == Imm(t, round)
           pfx == Pending(t, round)
<1>5. /\ ctl.pfx = pfx /\ ctl.cc = CcRef(t, i) /\ Loaded
      /\ ctl = [pfx |-> ctl.pfx, cc |-> ctl.cc, seen |-> ctl.seen]
      /\ regs = [reg \in Operands |-> regs[reg]]
      /\ \A reg \in Operands, l \in 0..3 : regs[reg][l] \in Int
  BY <1>1 DEF MachineInv
<1>6. /\ pfx["s"] \in SourceWords(t.n) \cup {\hE4} /\ pfx["t"] \in SourceWords(t.n) \cup {\hE4}
      /\ pfx["d"] \in Nat
  BY <1>4, PendingWords
<1>7. /\ Agree(t, "rs", regs["rs"], Ref(t, "rs", i))
      /\ Agree(t, "rt", regs["rt"], Ref(t, "rt", i)) /\ regs["rd"] = Zeros
  BY <1>5 DEF Loaded
<1> DEFINE alone == IF HasOutput(t)
             THEN ExecuteValues(hw, t, imm, Ref(t, "rs", i), Ref(t, "rt", i), CcRef(t, i), Zeros, pfx)
             ELSE Aggregate({}, t.n, ExecuteTruths(hw, t, imm, Ref(t, "rs", i), Ref(t, "rt", i), pfx))
<1>8. Alone(test, i, round) = alone
  BY DEF Alone, Pending, t
<1>9. Alone(test, i, round)' = Alone(test, i, round)
  BY <1>2 DEF Alone
<1> HIDE DEF pfx, imm
<1>10. CASE HasOutput(t)
  <2>1. /\ ctl' = Vector(ctl)
        /\ regs' = [regs EXCEPT !["rd"] =
             ExecuteValues(hw, t, imm, regs["rs"], regs["rt"], ctl.cc, @, ctl.pfx)]
    BY <1>10 DEF Instruction, imm
  <2>2. ExecuteValues(hw, t, imm, regs["rs"], regs["rt"], CcRef(t, i), Zeros, pfx) = alone
    BY <1>4, <1>6, <1>7, <1>10, ExecuteValuesSame
  <2>3. \A l \in 0..3 : alone[l] \in Int
    <3>1. hw.off \in Int
      BY <1>1, HardwareAssumption DEF PlaceInv
    <3>2. Small(t, "rs", Ref(t, "rs", i)) /\ Small(t, "rt", Ref(t, "rt", i))
      BY <1>4, RefFits
    <3>3. \A l \in 0..3 : Zeros[l] \in Int
      BY DEF Zeros
    <3> QED BY <1>4, <1>6, <1>10, <3>1, <3>2, <3>3, ExecuteValuesInt
  <2> HIDE DEF alone
  <2>4. regs' = [regs EXCEPT !["rd"] = alone]
    BY <1>5, <1>7, <2>1, <2>2
  <2>5. /\ regs'["rd"] = alone /\ regs' = [reg \in Operands |-> regs'[reg]]
        /\ \A reg \in Operands, l \in 0..3 : regs'[reg][l] \in Int
    BY <1>5, <2>3, <2>4 DEF Operands
  <2>6. /\ ctl' = [pfx |-> ctl'.pfx, cc |-> ctl'.cc, seen |-> ctl'.seen]
        /\ ctl'.pfx = DefaultPrefixes
    BY <1>5, <2>1 DEF Vector, Settled
  <2>7. Outcome'
    BY <1>2, <1>8, <1>9, <1>10, <2>5 DEF Outcome
  <2>8. MachineInv'
    BY <1>1, <2>5, <2>6, <2>7 DEF MachineInv
  <2> QED BY <1>3, <2>8 DEF RoundInv
<1>11. CASE ~HasOutput(t)
  <2>1. /\ ctl' = Vcmp(ctl, t.n, ExecuteTruths(hw, t, imm, regs["rs"], regs["rt"], ctl.pfx))
        /\ regs' = regs
    BY <1>11 DEF Instruction, imm
  <2>2. ExecuteTruths(hw, t, imm, regs["rs"], regs["rt"], pfx)
          = ExecuteTruths(hw, t, imm, Ref(t, "rs", i), Ref(t, "rt", i), pfx)
    BY <1>4, <1>6, <1>7, <1>11, ExecuteTruthsSame
  <2>3. ctl.cc = {}
    <3>1. ~HasInput(t, "vfpu_cc")
      BY <1>4, <1>11, KindInputs DEF HasOutput
    <3> QED BY <1>5, <3>1 DEF CcRef
  <2>4. ctl' = [pfx |-> DefaultPrefixes, cc |-> alone, seen |-> ctl.cc]
    BY <1>5, <1>11, <2>1, <2>2, <2>3 DEF Vcmp
  <2> HIDE DEF alone
  <2>5. Outcome'
    BY <1>2, <1>8, <1>9, <1>11, <2>4 DEF Outcome
  <2>6. MachineInv'
    BY <1>1, <1>5, <2>1, <2>4, <2>5 DEF MachineInv
  <2> QED BY <1>3, <2>6 DEF RoundInv
<1> QED BY <1>10, <1>11

\* The comparison leaves the machine ready and goes on to a place that exists.
LEMMA CompareStep ==
  ASSUME RoundInv, Compare
  PROVE  RoundInv'
<1>1. PlaceInv /\ MachineInv /\ test <= Len(Tests) /\ pc = "read" /\ pc' = "prologue"
      /\ hw' = hw /\ regs' = regs
  BY DEF RoundInv, PlaceInv, Compare
<1>2. /\ test \in 1..Len(Tests) /\ t \in Under /\ i \in Nat /\ i \in 0..InputCount(t)-1
      /\ round \in 1..RoundCount(t) /\ RoundCount(t) \in Nat \ {0} /\ InputCount(t) \in Nat \ {0}
  BY <1>1, CurrentUnder
<1>3. Advance \/ Break
  BY DEF Compare
<1>4. PlaceInv'
  <2>1. CASE test' = test
    <3>1. t' = t
      BY <2>1 DEF t
    <3>2. i' \in Nat /\ i' < InputCount(t) /\ round' \in Nat \ {0} /\ round' <= RoundCount(t)
      BY <1>2, <1>3, <2>1 DEF Advance, Break
    <3> QED BY <1>1, <2>1, <3>1, <3>2 DEF PlaceInv
  <2>2. CASE test' = test + 1 /\ i' = 0 /\ round' = 1
    <3>1. Len(Tests) \in Nat
      BY TestsAssumption
    <3>2. test' \in 1..Len(Tests) + 1
      BY <1>2, <2>2, <3>1
    <3>3. ASSUME test' <= Len(Tests) PROVE i' < InputCount(t') /\ round' <= RoundCount(t')
      <4>1. t' \in Under
        BY <3>1, <3>2, <3>3, TestUnder DEF t
      <4> QED BY <2>2, <4>1, Rounds, InputCountType
    <3>4. (test <= Len(Tests) => i < InputCount(t) /\ round <= RoundCount(t))'
      BY <3>3
    <3> QED BY <1>1, <2>2, <3>2, <3>4 DEF PlaceInv
  <2> QED BY <1>3, <2>1, <2>2 DEF Advance, Break
<1>5. MachineInv'
  <2>1. /\ ctl' = [pfx |-> ctl'.pfx, cc |-> ctl'.cc, seen |-> ctl'.seen]
        /\ ctl'.pfx = DefaultPrefixes
    BY <1>1 DEF Compare, MachineInv, Vector, Settled
  <2> QED BY <1>1, <2>1 DEF MachineInv
<1> QED BY <1>4, <1>5 DEF RoundInv

\* Every step keeps the invariant of the rounds.
LEMMA RoundStep ==
  ASSUME RoundInv, [Next]_vars
  PROVE  RoundInv'
<1>1. CASE Next
  BY <1>1, PrologueStep, SetPrefixStep, InstructionStep, CompareStep DEF Next
<1>2. CASE UNCHANGED vars
  BY <1>2 DEF vars, RoundInv, PlaceInv, MachineInv, Loaded, Outcome, Alone, t
<1> QED BY <1>1, <1>2

\* The comparison of a round is exact about the deviation of the hardware.
LEMMA MismatchIs ==
  ASSUME RoundInv, pc = "read"
  PROVE  Mismatch <=> Differs(test, i, round)
<1>1. PlaceInv /\ MachineInv /\ test <= Len(Tests) /\ Outcome
  BY DEF RoundInv, PlaceInv, MachineInv
<1>2. /\ test \in 1..Len(Tests) /\ t \in Under /\ i \in Nat /\ round \in 1..RoundCount(t)
  BY <1>1, CurrentUnder
<1>3. CASE HasOutput(t)
  <2>1. regs["rd"] = Alone(test, i, round)
    BY <1>1, <1>3 DEF Outcome
  <2>2. \A l \in 0..3 : regs["rd"][l] \in Int
    BY <1>1 DEF MachineInv, Operands
  <2>3. \A l \in 0..3 : Final(t, i, round)[l] \in Int
    BY <1>2, <1>3, FinalInt
  <2>4. Miscompare(t, Final(t, i, round), regs["rd"])
          <=> \E l \in Lanes(t.n) : Outside(t.accuracy, Final(t, i, round)[l], regs["rd"][l])
    BY <1>2, <2>2, <2>3, MiscompareIs
  <2> QED BY <1>3, <2>1, <2>4 DEF Mismatch, Differs, t
<1>4. CASE ~HasOutput(t)
  <2>1. ctl.cc = Alone(test, i, round)
    BY <1>1, <1>4 DEF Outcome
  <2>2. Mfvc(Vector(ctl), 131) = Word(ctl.cc)
    <3>1. ctl = [pfx |-> ctl.pfx, cc |-> ctl.cc, seen |-> ctl.seen]
      BY <1>1 DEF MachineInv
    <3>2. Vector(ctl).seen = ctl.cc
      BY <3>1 DEF Vector, Settled
    <3> QED BY <3>2 DEF Mfvc
  <2>3. Alone(test, i, round) \in SUBSET (0..5)
    <3>1. PICK a, b, h, imm, pfx :
            Alone(test, i, round) = Aggregate({}, t.n, ExecuteTruths(h, t, imm, a, b, pfx))
      BY <1>4 DEF Alone, t
    <3> QED BY <1>2, <3>1, ExecuteTruthsType, AggregateIs
  <2>4. EmulatedCc(t, i, round) \in SUBSET (0..5)
    <3>1. \A imm, a, b : Truths(t, imm, a, b) \in SUBSET Lanes(t.n)
      BY DEF Truths
    <3> QED BY <1>2, <3>1, AggregateIs DEF EmulatedCc
  <2>5. Mismatch <=> Word(ctl.cc) # Word(EmulatedCc(t, i, round))
    BY <1>4, <2>2 DEF Mismatch
  <2>6. Differs(test, i, round) <=> EmulatedCc(t, i, round) # Alone(test, i, round)
    BY <1>4 DEF Differs, t
  <2> QED BY <2>1, <2>3, <2>4, <2>5, <2>6, WordIs
<1> QED BY <1>3, <1>4

-----------------------------------------------------------------------------
(* What the rounds add up to.                                               *)

\* Rounds of the current instruction that are over.
Done(y, q) == y < i \/ (y = i /\ q < round)

\* A round that sets a bit of the errors of an operand.
SetsBit(k, reg, y, q, b) ==
  /\ Prefix(Tests[k], q)[1] = reg /\ enum[Prefix(Tests[k], q)[2]] = b
  /\ Differs(k, y, q)

\* pfxinfo has an entry for every instruction, and one for each of its operands.
InfoInv ==
  /\ pfxinfo = [k \in DOMAIN Tests |-> pfxinfo[k]]
  /\ \A k \in DOMAIN Tests :
       /\ pfxinfo[k] = [tested |-> pfxinfo[k].tested, errors |-> pfxinfo[k].errors]
       /\ pfxinfo[k].errors = [reg \in Operands |-> pfxinfo[k].errors[reg]]
       /\ pfxinfo[k].tested \subseteq Operands

\* At most one report for an instruction that is over.
ListInv ==
  /\ errlist \in Seq([test : Nat \ {0}, i : Nat, round : Nat]) /\ Len(errlist) < test
  /\ \A e \in 1..Len(errlist) : errlist[e].test < test

\* Of an instruction that is over, the report and the errors of the prefixes are
\* what the property says.
PastInv ==
  \A k \in 1..test-1 :
    /\ {errlist[e] : e \in {e \in 1..Len(errlist) : errlist[e].test = k}} = Report(k)
    /\ \A reg \in Operands : \A b :
         b \in pfxinfo[k].errors[reg] <=>
           \E y \in Tried(k), q \in 1..RoundCount(Tests[k]) : SetsBit(k, reg, y, q, b)

\* Of the current one, no round that is over and had no prefix differed, and the
\* errors of the prefixes are those of the rounds that are over.
CurrentInv ==
  test <= Len(Tests) =>
    /\ \A y \in 0..InputCount(t)-1, q \in 1..RoundCount(t) :
         Done(y, q) /\ Prefix(t, q) = NoPrefix => ~Differs(test, y, q)
    /\ \A reg \in Operands : \A b :
         b \in pfxinfo[test].errors[reg] <=>
           \E y \in 0..InputCount(t)-1, q \in 1..RoundCount(t) : Done(y, q) /\ SetsBit(test, reg, y, q, b)

\* Nothing is recorded of an instruction that is to come.
FutureInv ==
  \A k \in DOMAIN Tests : k > test => \A reg \in Operands : pfxinfo[k].errors[reg] = {}

\* The second half of the invariant.
TallyInv == InfoInv /\ ListInv /\ PastInv /\ CurrentInv /\ FutureInv

\* What a round shows depends on the hardware, which stays the same.
LEMMA SameHardware ==
  ASSUME hw' = hw
  PROVE  /\ \A k, y, q : Differs(k, y, q)' <=> Differs(k, y, q)
         /\ \A k, reg, y, q, b : SetsBit(k, reg, y, q, b)' <=> SetsBit(k, reg, y, q, b)
         /\ \A k : Failing(k)' = Failing(k)
         /\ \A k : Tried(k)' = Tried(k)
         /\ \A k : Report(k)' = Report(k)
<1>1. \A k, y, q : Differs(k, y, q)' <=> Differs(k, y, q)
  BY DEF Differs, Alone
<1>2. \A k, reg, y, q, b : SetsBit(k, reg, y, q, b)' <=> SetsBit(k, reg, y, q, b)
  BY <1>1 DEF SetsBit
<1>3. \A k : Failing(k)' = Failing(k)
  BY <1>1 DEF Failing
<1>4. \A k : Tried(k)' = Tried(k)
  BY <1>3 DEF Tried
<1>5. \A k : Report(k)' = Report(k)
  BY <1>1, <1>3 DEF Report
<1> QED BY <1>1, <1>2, <1>3, <1>4, <1>5

\* The table is a finite list.
LEMMA TestsLen ==
  Len(Tests) \in Nat /\ DOMAIN Tests = 1..Len(Tests)
BY TestsAssumption

\* No round is over, and nothing is recorded.
LEMMA TallyStart ==
  ASSUME Init
  PROVE  TallyInv
<1>1. InfoInv /\ FutureInv
  BY DEF Init, InfoInv, FutureInv, Operands
<1>2. ListInv /\ PastInv
  BY DEF Init, ListInv, PastInv
<1>3. CurrentInv
  <2> SUFFICES ASSUME test <= Len(Tests)
               PROVE  \A reg \in Operands : pfxinfo[test].errors[reg] = {}
    BY DEF CurrentInv, Done, Init
  <2>1. 1 \in DOMAIN Tests
    BY TestsLen DEF Init
  <2> QED BY <2>1 DEF Init, Operands
<1> QED BY <1>1, <1>2, <1>3 DEF TallyInv

\* The entries of the error list are of instructions that are over.
LEMMA ListType ==
  ASSUME ListInv
  PROVE  /\ Len(errlist) \in Nat /\ DOMAIN errlist = 1..Len(errlist)
         /\ \A e \in 1..Len(errlist) : /\ errlist[e].test \in Nat /\ errlist[e].test < test
                                       /\ errlist[e].test # 0
<1> DEFINE S == [test : Nat \ {0}, i : Nat, round : Nat]
<1>1. errlist \in Seq(S)
  BY DEF ListInv
<1>2. \A r \in S : r.test \in Nat /\ r.test # 0
  OBVIOUS
<1> HIDE DEF S
<1>3. Len(errlist) \in Nat /\ DOMAIN errlist = 1..Len(errlist) /\ \A e \in 1..Len(errlist) : errlist[e] \in S
  BY <1>1
<1> QED BY <1>2, <1>3 DEF ListInv

\* Nothing that counts changes.
LEMMA StillStep ==
  ASSUME TallyInv, hw' = hw, test' = test, i' = i, round' = round, errlist' = errlist,
         InfoInv', \A k \in DOMAIN Tests : pfxinfo'[k].errors = pfxinfo[k].errors,
         test \in 1..Len(Tests) + 1
  PROVE  TallyInv'
<1>1. t' = t
  BY DEF t
<1>2. \A k \in 1..test-1 : k \in DOMAIN Tests
  BY TestsLen
<1>3. test <= Len(Tests) => test \in DOMAIN Tests
  BY TestsLen
<1>4. ListInv' /\ FutureInv'
  BY DEF TallyInv, ListInv, FutureInv
<1>5. PastInv'
  BY <1>2, SameHardware DEF TallyInv, PastInv
<1>6. CurrentInv'
  <2>1. \A y, q : Done(y, q)' <=> Done(y, q)
    BY DEF Done
  <2> QED BY <1>1, <1>3, <2>1, SameHardware DEF TallyInv, CurrentInv
<1> QED BY <1>4, <1>5, <1>6 DEF TallyInv

\* A new entry for one instruction.
LEMMA InfoChange ==
  ASSUME InfoInv, NEW k \in DOMAIN Tests, NEW tested, NEW errors,
         tested \subseteq Operands, errors = [reg \in Operands |-> errors[reg]],
         pfxinfo' = [pfxinfo EXCEPT ![k] = [tested |-> tested, errors |-> errors]]
  PROVE  /\ InfoInv' /\ pfxinfo'[k].errors = errors
         /\ \A m \in DOMAIN Tests : m # k => pfxinfo'[m].errors = pfxinfo[m].errors
<1> DEFINE D == DOMAIN Tests
<1>1. pfxinfo = [m \in D |-> pfxinfo[m]]
  BY DEF InfoInv
<1>2. pfxinfo' = [m \in D |-> IF m = k THEN [tested |-> tested, errors |-> errors] ELSE pfxinfo[m]]
  BY <1>1
<1>3. \A m \in D : pfxinfo'[m] = IF m = k THEN [tested |-> tested, errors |-> errors] ELSE pfxinfo[m]
  BY <1>2
<1>4. pfxinfo' = [m \in D |-> pfxinfo'[m]]
  BY <1>2
<1>5. ASSUME NEW m \in D
      PROVE  /\ pfxinfo'[m] = [tested |-> pfxinfo'[m].tested, errors |-> pfxinfo'[m].errors]
             /\ pfxinfo'[m].errors = [reg \in Operands |-> pfxinfo'[m].errors[reg]]
             /\ pfxinfo'[m].tested \subseteq Operands
  <2>1. CASE m = k
    <3>1. pfxinfo'[m].tested = tested /\ pfxinfo'[m].errors = errors
          /\ pfxinfo'[m] = [tested |-> tested, errors |-> errors]
      BY <1>3, <2>1
    <3> QED BY <3>1
  <2>2. CASE m # k
    <3>1. pfxinfo'[m] = pfxinfo[m]
      BY <1>3, <2>2
    <3> QED BY <3>1 DEF InfoInv
  <2> QED BY <2>1, <2>2
<1>6. InfoInv'
  BY <1>4, <1>5 DEF InfoInv
<1>7. pfxinfo'[k] = [tested |-> tested, errors |-> errors]
  BY <1>3
<1>8. \A m \in DOMAIN Tests : m # k => pfxinfo'[m].errors = pfxinfo[m].errors
  BY <1>3
<1> QED BY <1>6, <1>7, <1>8

\* The prologue notes which operands have been tested and records no error.
LEMMA PrologueTally ==
  ASSUME RoundInv, TallyInv, Prologue
  PROVE  TallyInv'
<1>1. PlaceInv /\ test <= Len(Tests) /\ InfoInv
  BY DEF RoundInv, Prologue, TallyInv
<1>2. t \in Under /\ test \in DOMAIN Tests
  BY <1>1, CurrentUnder, TestsLen
<1> DEFINE operands == {pfxl[t][c][1] : c \in DOMAIN pfxl[t]} \ {"none"}
<1>3. operands \subseteq Operands
  <2> SUFFICES ASSUME NEW c \in DOMAIN pfxl[t], pfxl[t][c][1] # "none" PROVE pfxl[t][c][1] \in Operands
    OBVIOUS
  <2> DEFINE p == pfxl[t][c]
  <2>1. Len(pfxl[t]) \in Nat \ {0} /\ c \in 1..Len(pfxl[t])
    BY <1>2, PrefixesAre
  <2>2. c = Len(pfxl[t]) \/ c \in 1..Len(pfxl[t])-1
    BY <2>1
  <2>3. p = NoPrefix \/ IsSource(t, p) \/ IsDestination(t, p)
    BY <1>2, <2>2, PrefixesAre
  <2> HIDE DEF p
  <2>4. p[1] \in {"none", "rs", "rt", "rd"}
    BY <2>3, NoPrefixIsNone
  <2> QED BY <2>4 DEF Operands, p
<1>4. pfxinfo' = [pfxinfo EXCEPT ![test].tested = operands]
  BY DEF Prologue
<1> HIDE DEF operands
<1>5. InfoInv' /\ \A k \in DOMAIN Tests : pfxinfo'[k].errors = pfxinfo[k].errors
  <2> DEFINE info == pfxinfo[test]
  <2>1. info = [tested |-> info.tested, errors |-> info.errors]
    BY <1>1, <1>2 DEF InfoInv
  <2>2. [info EXCEPT !.tested = operands] = [tested |-> operands, errors |-> info.errors]
    BY <2>1
  <2>3. pfxinfo' = [pfxinfo EXCEPT ![test] = [tested |-> operands, errors |-> info.errors]]
    BY <1>4, <2>2
  <2> QED BY <1>1, <1>2, <1>3, <2>3, InfoChange DEF InfoInv
<1>6. hw' = hw /\ test' = test /\ i' = i /\ round' = round /\ errlist' = errlist
  BY DEF Prologue
<1>7. test \in 1..Len(Tests) + 1
  BY <1>1 DEF PlaceInv
<1> QED BY <1>5, <1>6, <1>7, StillStep

\* Prefix and instruction record nothing.
LEMMA QuietTally ==
  ASSUME RoundInv, TallyInv, SetPrefix \/ Instruction \/ UNCHANGED vars
  PROVE  TallyInv'
<1>1. /\ hw' = hw /\ test' = test /\ i' = i /\ round' = round /\ errlist' = errlist
      /\ pfxinfo' = pfxinfo
  BY DEF SetPrefix, Instruction, vars
<1>2. InfoInv'
  BY <1>1 DEF TallyInv, InfoInv
<1>3. test \in 1..Len(Tests) + 1
  BY DEF RoundInv, PlaceInv
<1> QED BY <1>1, <1>2, <1>3, StillStep

\* The records of the errors after a comparison.
LEMMA CompareErrors ==
  ASSUME RoundInv, TallyInv, Compare
  PROVE  /\ InfoInv'
         /\ \A k \in DOMAIN Tests : k # test => pfxinfo'[k].errors = pfxinfo[k].errors
         /\ \A reg \in Operands : \A b :
              b \in pfxinfo'[test].errors[reg] <=>
                b \in pfxinfo[test].errors[reg] \/ SetsBit(test, reg, i, round, b)
<1>1. PlaceInv /\ InfoInv /\ test <= Len(Tests) /\ pc = "read"
  BY DEF RoundInv, PlaceInv, Compare, TallyInv
<1>2. t \in Under /\ test \in DOMAIN Tests /\ round \in 1..RoundCount(t)
  BY <1>1, CurrentUnder, TestsLen
<1> DEFINE p == Prefix(t, round)
<1>3. Mismatch <=> Differs(test, i, round)
  BY <1>1, MismatchIs
<1>4. p = NoPrefix \/ (p # NoPrefix /\ p[1] \in Operands)
  BY <1>2, Rounds, NoPrefixIsNone DEF Operands
<1>5. CASE Mismatch /\ p # NoPrefix
  <2>1. pfxinfo' = [pfxinfo EXCEPT ![test].errors[p[1]] = @ \cup {enum[p[2]]}]
    BY <1>5 DEF Compare, Note
  <2>2. \A reg, b : SetsBit(test, reg, i, round, b) <=> p[1] = reg /\ enum[p[2]] = b
    BY <1>3, <1>5 DEF SetsBit, t
  <2>3. p[1] \in Operands
    BY <1>4, <1>5
  <2> HIDE DEF p
  <2> DEFINE info == pfxinfo[test]
             errors == [info.errors EXCEPT ![p[1]] = @ \cup {enum[p[2]]}]
  <2>4. /\ info = [tested |-> info.tested, errors |-> info.errors]
        /\ info.errors = [reg \in Operands |-> info.errors[reg]] /\ info.tested \subseteq Operands
    BY <1>1, <1>2 DEF InfoInv
  <2>5. [info EXCEPT !.errors[p[1]] = @ \cup {enum[p[2]]}] = [tested |-> info.tested, errors |-> errors]
    <3>1. \A r, a, e, x, v : r = [tested |-> a, errors |-> e] =>
            [r EXCEPT !.errors[x] = @ \cup v] = [tested |-> a, errors |-> [e EXCEPT ![x] = @ \cup v]]
      OBVIOUS
    <3> HIDE DEF info
    <3>2. info = [tested |-> info.tested, errors |-> info.errors]
      BY <2>4
    <3> QED BY <3>1, <3>2
  <2>6. /\ errors = [reg \in Operands |-> errors[reg]]
        /\ \A reg \in Operands : errors[reg] =
             IF reg = p[1] THEN info.errors[reg] \cup {enum[p[2]]} ELSE info.errors[reg]
    BY <2>3, <2>4
  <2>7. pfxinfo' = [pfxinfo EXCEPT ![test] = [tested |-> info.tested, errors |-> errors]]
    BY <2>1, <2>5
  <2> HIDE DEF errors
  <2>8. /\ InfoInv' /\ pfxinfo'[test].errors = errors
        /\ \A k \in DOMAIN Tests : k # test => pfxinfo'[k].errors = pfxinfo[k].errors
    BY <1>1, <1>2, <2>4, <2>6, <2>7, InfoChange
  <2>9. ASSUME NEW reg \in Operands, NEW b
        PROVE  b \in pfxinfo'[test].errors[reg] <=>
                 b \in pfxinfo[test].errors[reg] \/ SetsBit(test, reg, i, round, b)
    <3>1. CASE reg = p[1]
      BY <2>2, <2>6, <2>8, <3>1
    <3>2. CASE reg # p[1]
      BY <2>2, <2>6, <2>8, <3>2
    <3> QED BY <3>1, <3>2
  <2> QED BY <2>8, <2>9
<1>6. CASE ~(Mismatch /\ p # NoPrefix)
  <2>1. pfxinfo' = pfxinfo
    BY <1>6 DEF Compare
  <2>2. \A reg \in Operands : \A b : ~SetsBit(test, reg, i, round, b)
    BY <1>3, <1>6, NoPrefixIsNone DEF SetsBit, Operands, t
  <2>3. InfoInv'
    BY <1>1, <2>1 DEF InfoInv
  <2> QED BY <2>1, <2>2, <2>3
<1> QED BY <1>5, <1>6

\* On to the next round or input: the round is one more that is over.
LEMMA AdvanceTally ==
  ASSUME RoundInv, TallyInv, Compare, test' = test
  PROVE  TallyInv'
<1>1. PlaceInv /\ test <= Len(Tests) /\ pc = "read" /\ hw' = hw /\ t' = t
  BY DEF RoundInv, PlaceInv, Compare, t
<1>2. /\ test \in 1..Len(Tests) /\ t \in Under /\ i \in Nat /\ i \in 0..InputCount(t)-1
      /\ round \in 1..RoundCount(t) /\ RoundCount(t) \in Nat \ {0} /\ InputCount(t) \in Nat \ {0}
  BY <1>1, CurrentUnder
<1>3. /\ errlist' = errlist /\ Advance
      /\ ~(Differs(test, i, round) /\ Prefix(t, round) = NoPrefix)
  <2>1. ~Break
    BY <1>2 DEF Break
  <2> QED BY <1>1, <2>1, MismatchIs DEF Compare
<1>4. \A y \in 0..InputCount(t)-1, q \in 1..RoundCount(t) :
        Done(y, q)' <=> Done(y, q) \/ (y = i /\ q = round)
  BY <1>2, <1>3 DEF Advance, Done
<1>5. ListInv'
  BY <1>3 DEF TallyInv, ListInv
<1>6. PastInv'
  <2>1. \A k \in 1..test-1 : k \in DOMAIN Tests /\ k # test
    BY <1>2, TestsLen
  <2>2. \A k \in 1..test-1 : pfxinfo'[k].errors = pfxinfo[k].errors
    BY <2>1, CompareErrors
  <2> QED BY <1>1, <1>3, <2>2, SameHardware DEF TallyInv, PastInv
<1>7. FutureInv'
  <2>1. \A k \in DOMAIN Tests : k > test => k # test
    BY <1>2
  <2> QED BY <2>1, CompareErrors DEF TallyInv, FutureInv
<1>8. CurrentInv'
  <2>1. ASSUME NEW y \in 0..InputCount(t)-1, NEW q \in 1..RoundCount(t),
               Done(y, q)', Prefix(t, q) = NoPrefix
        PROVE  ~Differs(test, y, q)'
    BY <1>1, <1>3, <1>4, <2>1, SameHardware DEF TallyInv, CurrentInv
  <2>2. ASSUME NEW reg \in Operands, NEW b
        PROVE  b \in pfxinfo'[test].errors[reg] <=>
                 \E y \in 0..InputCount(t)-1, q \in 1..RoundCount(t) :
                   Done(y, q)' /\ SetsBit(test, reg, y, q, b)'
    <3>1. b \in pfxinfo'[test].errors[reg] <=>
            b \in pfxinfo[test].errors[reg] \/ SetsBit(test, reg, i, round, b)
      BY CompareErrors
    <3>2. b \in pfxinfo[test].errors[reg] <=>
            \E y \in 0..InputCount(t)-1, q \in 1..RoundCount(t) : Done(y, q) /\ SetsBit(test, reg, y, q, b)
      BY <1>1 DEF TallyInv, CurrentInv
    <3>3. \A y, q : SetsBit(test, reg, y, q, b)' <=> SetsBit(test, reg, y, q, b)
      BY <1>1, SameHardware
    <3> QED BY <1>2, <1>4, <3>1, <3>2, <3>3
  <2> QED BY <1>1, <2>1, <2>2 DEF CurrentInv
<1> QED BY <1>5, <1>6, <1>7, <1>8, CompareErrors DEF TallyInv

\* On to the next instruction, which nothing is known of yet.
LEMMA NextTest ==
  ASSUME RoundInv, TallyInv, Compare, test' = test + 1
  PROVE  /\ hw' = hw /\ i' = 0 /\ round' = 1 /\ test \in 1..Len(Tests)
         /\ CurrentInv' /\ FutureInv'
<1>1. PlaceInv /\ test <= Len(Tests) /\ hw' = hw
  BY DEF RoundInv, PlaceInv, Compare
<1>2. test \in 1..Len(Tests) /\ i' = 0 /\ round' = 1
  <2>1. test \in 1..Len(Tests) /\ test # test + 1
    BY <1>1, CurrentUnder
  <2> QED BY <2>1 DEF Compare, Advance, Break
<1>3. FutureInv'
  <2>1. \A k \in DOMAIN Tests : k > test + 1 => k > test /\ k # test
    BY <1>2, TestsLen
  <2> QED BY <2>1, CompareErrors DEF TallyInv, FutureInv
<1>4. CurrentInv'
  <2> SUFFICES ASSUME test + 1 <= Len(Tests)
               PROVE  (/\ \A y \in 0..InputCount(t)-1, q \in 1..RoundCount(t) : ~Done(y, q)
                       /\ \A reg \in Operands : pfxinfo[test].errors[reg] = {})'
    BY DEF CurrentInv
  <2>1. \A y \in 0..InputCount(t')-1, q \in 1..RoundCount(t') : ~Done(y, q)'
    BY <1>2 DEF Done
  <2>2. test + 1 \in DOMAIN Tests /\ test + 1 > test /\ test + 1 # test
    BY <1>2, TestsLen
  <2>3. \A reg \in Operands : pfxinfo'[test + 1].errors[reg] = {}
    BY <2>2, CompareErrors DEF TallyInv, FutureInv
  <2> QED BY <2>1, <2>3
<1> QED BY <1>1, <1>2, <1>3, <1>4

\* Every round of the instruction is over, or this one was the last.
LEMMA EndTally ==
  ASSUME RoundInv, TallyInv, Compare, test' = test + 1,
         ~(Differs(test, i, round) /\ Prefix(t, round) = NoPrefix)
  PROVE  TallyInv'
<1>1. PlaceInv /\ test <= Len(Tests) /\ pc = "read" /\ hw' = hw /\ t = Tests[test]
  BY DEF RoundInv, PlaceInv, Compare, t
<1>2. /\ test \in 1..Len(Tests) /\ t \in Under /\ i \in Nat /\ i \in 0..InputCount(t)-1
      /\ round \in 1..RoundCount(t) /\ RoundCount(t) \in Nat \ {0} /\ InputCount(t) \in Nat \ {0}
  BY <1>1, CurrentUnder
<1>3. errlist' = errlist /\ Advance
  BY <1>1, MismatchIs DEF Compare
<1>4. \A y \in 0..InputCount(t)-1, q \in 1..RoundCount(t) : Done(y, q) \/ (y = i /\ q = round)
  <2>1. round = RoundCount(t) /\ i = InputCount(t) - 1
    BY <1>2, <1>3 DEF Advance
  <2> QED BY <1>2, <2>1 DEF Done
<1>5. ListInv'
  <2>1. test \in Nat /\ test' = test + 1 /\ errlist' = errlist /\ Len(errlist) \in Nat
    BY <1>2, <1>3, ListType DEF TallyInv
  <2>2. \A e \in 1..Len(errlist) : errlist[e].test \in Nat /\ errlist[e].test < test
    BY ListType DEF TallyInv
  <2>3. \A m \in Nat : m < test => m < test + 1
    BY <2>1
  <2> QED BY <2>1, <2>2, <2>3 DEF TallyInv, ListInv
<1>6. Failing(test) = {}
  <2> SUFFICES ASSUME NEW y \in 0..InputCount(t)-1, NEW q \in 1..RoundCount(t),
                      Prefix(t, q) = NoPrefix
               PROVE  ~Differs(test, y, q)
    BY <1>1 DEF Failing
  <2> QED BY <1>1, <1>4 DEF TallyInv, CurrentInv
<1>7. PastInv'
  <2>1. \A k \in 1..test : k \in DOMAIN Tests /\ (k = test \/ k \in 1..test-1)
    BY <1>2, TestsLen
  <2>2. ASSUME NEW k \in 1..test-1
        PROVE  /\ {errlist[e] : e \in {e \in 1..Len(errlist) : errlist[e].test = k}} = Report(k)
               /\ \A reg \in Operands : \A b :
                    b \in pfxinfo'[k].errors[reg] <=>
                      \E y \in Tried(k), q \in 1..RoundCount(Tests[k]) : SetsBit(k, reg, y, q, b)
    <3>1. k # test /\ k \in DOMAIN Tests
      BY <1>2, TestsLen
    <3>2. pfxinfo'[k].errors = pfxinfo[k].errors
      BY <3>1, CompareErrors
    <3> QED BY <3>2 DEF TallyInv, PastInv
  <2>3. {errlist[e] : e \in {e \in 1..Len(errlist) : errlist[e].test = test}} = Report(test)
    <3>1. \A e \in 1..Len(errlist) : errlist[e].test # test
      <4> SUFFICES ASSUME NEW e \in 1..Len(errlist) PROVE errlist[e].test # test
        OBVIOUS
      <4>1. errlist[e].test \in Nat /\ errlist[e].test < test
        BY ListType DEF TallyInv
      <4> QED BY <1>2, <4>1
    <3>2. Report(test) = {}
      BY <1>6 DEF Report
    <3> QED BY <3>1, <3>2
  <2>4. ASSUME NEW reg \in Operands, NEW b
        PROVE  b \in pfxinfo'[test].errors[reg] <=>
                 \E y \in Tried(test), q \in 1..RoundCount(Tests[test]) : SetsBit(test, reg, y, q, b)
    <3>1. b \in pfxinfo'[test].errors[reg] <=>
            b \in pfxinfo[test].errors[reg] \/ SetsBit(test, reg, i, round, b)
      BY CompareErrors
    <3>2. b \in pfxinfo[test].errors[reg] <=>
            \E y \in 0..InputCount(t)-1, q \in 1..RoundCount(t) : Done(y, q) /\ SetsBit(test, reg, y, q, b)
      BY <1>1 DEF TallyInv, CurrentInv
    <3>3. Tried(test) = 0..InputCount(t)-1
      BY <1>1, <1>6 DEF Tried
    <3> QED BY <1>1, <1>2, <1>4, <3>1, <3>2, <3>3
  <2>5. \A k \in 1..test'-1 : k \in 1..test
    BY <1>2
  <2> HIDE DEF Operands
  <2>6. ASSUME NEW k \in 1..test
        PROVE  /\ {errlist[e] : e \in {e \in 1..Len(errlist) : errlist[e].test = k}} = Report(k)
               /\ \A reg \in Operands : \A b :
                    b \in pfxinfo'[k].errors[reg] <=>
                      \E y \in Tried(k), q \in 1..RoundCount(Tests[k]) : SetsBit(k, reg, y, q, b)
    <3>1. CASE k = test
      BY <2>3, <2>4, <3>1
    <3>2. CASE k \in 1..test-1
      BY <2>2, <3>2
    <3> QED BY <2>1, <3>1, <3>2
  <2> QED BY <1>1, <1>3, <2>5, <2>6, SameHardware DEF PastInv
<1> QED BY <1>5, <1>7, CompareErrors, NextTest DEF TallyInv

\* The instruction is left at its first failing round without prefix.
LEMMA BreakTally ==
  ASSUME RoundInv, TallyInv, Compare, test' = test + 1,
         Differs(test, i, round), Prefix(t, round) = NoPrefix
  PROVE  TallyInv'
<1>1. PlaceInv /\ test <= Len(Tests) /\ pc = "read" /\ hw' = hw /\ t = Tests[test]
  BY DEF RoundInv, PlaceInv, Compare, t
<1>2. /\ test \in 1..Len(Tests) /\ t \in Under /\ i \in Nat /\ i \in 0..InputCount(t)-1
      /\ round \in 1..RoundCount(t) /\ RoundCount(t) \in Nat \ {0} /\ InputCount(t) \in Nat \ {0}
  BY <1>1, CurrentUnder
<1> DEFINE rep == [test |-> test, i |-> i, round |-> round]
           S == [test : Nat \ {0}, i : Nat, round : Nat]
<1>3. errlist' = Append(errlist, rep)
  BY <1>1, MismatchIs DEF Compare
<1>4. /\ errlist \in Seq(S) /\ rep \in S /\ Len(errlist) \in Nat
      /\ \A e \in 1..Len(errlist) : errlist[e].test \in Nat /\ errlist[e].test < test
      /\ Len(errlist) < test
  BY <1>2, ListType DEF TallyInv, ListInv
<1>5. /\ errlist' \in Seq(S) /\ Len(errlist') = Len(errlist) + 1
      /\ errlist'[Len(errlist) + 1] = rep
      /\ \A e \in 1..Len(errlist) : errlist'[e] = errlist[e]
  <2> HIDE DEF S, rep
  <2> QED BY <1>3, <1>4
<1>6. rep.test = test /\ rep.i = i /\ rep.round = round
  OBVIOUS
<1>7. ListInv'
  <2> HIDE DEF rep
  <2>1. \A e \in 1..Len(errlist) + 1 : e = Len(errlist) + 1 \/ e \in 1..Len(errlist)
    BY <1>4
  <2>2. \A m \in Nat : m < test => m < test + 1
    BY <1>2
  <2>3. \A e \in 1..Len(errlist') : errlist'[e].test < test + 1
    <3> SUFFICES ASSUME NEW e \in 1..Len(errlist') PROVE errlist'[e].test < test + 1
      OBVIOUS
    <3>1. CASE e = Len(errlist) + 1
      <4>1. errlist'[e].test = test
        BY <1>5, <1>6, <3>1
      <4> QED BY <1>2, <4>1
    <3>2. CASE e \in 1..Len(errlist)
      <4>1. errlist'[e].test \in Nat /\ errlist'[e].test < test
        BY <1>4, <1>5, <3>2
      <4> QED BY <2>2, <4>1
    <3> QED BY <1>5, <2>1, <3>1, <3>2
  <2>4. Len(errlist') < test + 1
    BY <1>2, <1>4, <1>5
  <2> QED BY <1>5, <2>3, <2>4 DEF ListInv
\* No input before this one fails, and no round before this one of this input.
<1>8. \A y \in 0..InputCount(t)-1, q \in 1..RoundCount(t) :
        Done(y, q) /\ Prefix(t, q) = NoPrefix => ~Differs(test, y, q)
  BY <1>1 DEF TallyInv, CurrentInv
<1>9. Failing(test) \subseteq 0..InputCount(t)-1 /\ i \in Failing(test) /\ \A x \in Failing(test) : i <= x
  <2>1. i \in Failing(test) /\ Failing(test) \subseteq 0..InputCount(t)-1
    BY <1>1, <1>2 DEF Failing
  <2>2. ASSUME NEW x \in Failing(test), ~(i <= x) PROVE FALSE
    <3>1. PICK q \in 1..RoundCount(t) : Prefix(t, q) = NoPrefix /\ Differs(test, x, q)
      BY <1>1 DEF Failing
    <3>2. x \in 0..InputCount(t)-1
      BY <2>1
    <3>3. x < i
      BY <1>2, <2>2, <3>2
    <3> QED BY <1>8, <3>1, <3>2, <3>3 DEF Done
  <2> QED BY <2>1, <2>2
<1>10. Min(Failing(test)) = i
  <2> DEFINE F == Failing(test)
  <2>1. F \subseteq Int /\ i \in F /\ \A x \in F : i <= x
    BY <1>2, <1>9
  <2> HIDE DEF F
  <2>2. Min(F) \in F /\ \A x \in F : Min(F) <= x
    BY <2>1 DEF Min
  <2>3. Min(F) \in Int /\ i \in Int /\ Min(F) <= i /\ i <= Min(F)
    BY <2>1, <2>2
  <2>4. Min(F) = i
    BY <2>3
  <2> QED BY <2>4 DEF F
<1>11. Report(test) = {rep}
  <2>1. rep \in Report(test)
    <3>1. rep \in [test : {test}, i : Failing(test), round : 1..RoundCount(Tests[test])]
      BY <1>1, <1>2, <1>9
    <3>2. ASSUME NEW q \in 1..round-1, Prefix(t, q) = NoPrefix PROVE ~Differs(test, i, q)
      <4>1. q \in 1..RoundCount(t) /\ q < round
        BY <1>2
      <4> QED BY <1>2, <1>8, <3>2, <4>1 DEF Done
    <3> HIDE DEF rep
    <3> QED BY <1>1, <1>6, <1>10, <3>1, <3>2 DEF Report
  <2>2. ASSUME NEW e \in Report(test) PROVE e = rep
    <3>1. /\ e \in [test : {test}, i : Failing(test), round : 1..RoundCount(Tests[test])]
          /\ e.i = i /\ Prefix(t, e.round) = NoPrefix /\ Differs(test, i, e.round)
          /\ \A q \in 1..e.round-1 : Prefix(t, q) = NoPrefix => ~Differs(test, i, q)
      BY <1>1, <1>10 DEF Report
    <3>2. e.test = test /\ e.round \in 1..RoundCount(t)
          /\ e = [test |-> e.test, i |-> e.i, round |-> e.round]
      BY <1>1, <3>1
    <3>3. ~(e.round < round)
      BY <1>2, <1>8, <3>1, <3>2 DEF Done
    <3>4. ~(round < e.round)
      <4> SUFFICES ASSUME round < e.round PROVE FALSE
        OBVIOUS
      <4>1. round \in 1..e.round-1
        BY <1>2, <3>2
      <4> QED BY <3>1, <4>1
    <3>5. e.round = round
      BY <1>2, <3>2, <3>3, <3>4
    <3> QED BY <3>1, <3>2, <3>5
  <2> QED BY <2>1, <2>2
\* The rounds that follow have no prefix.
<1>12. ASSUME NEW reg \in Operands, NEW b
       PROVE  b \in pfxinfo'[test].errors[reg] <=>
                \E y \in Tried(test), q \in 1..RoundCount(Tests[test]) : SetsBit(test, reg, y, q, b)
  <2>1. b \in pfxinfo'[test].errors[reg] <=>
          b \in pfxinfo[test].errors[reg] \/ SetsBit(test, reg, i, round, b)
    BY CompareErrors
  <2>2. b \in pfxinfo[test].errors[reg] <=>
          \E y \in 0..InputCount(t)-1, q \in 1..RoundCount(t) : Done(y, q) /\ SetsBit(test, reg, y, q, b)
    BY <1>1 DEF TallyInv, CurrentInv
  <2>3. Tried(test) = 0..i
    BY <1>9, <1>10 DEF Tried
  <2>4. \A y, q : SetsBit(test, reg, y, q, b) => Prefix(t, q) # NoPrefix
    BY <1>1, NoPrefixIsNone DEF SetsBit, Operands
  <2>5. ASSUME NEW q \in 1..RoundCount(t), Prefix(t, q) # NoPrefix PROVE q < round
    <3> SUFFICES ASSUME ~(q < round) PROVE FALSE
      OBVIOUS
    <3>1. q \in round..RoundCount(t)
      BY <1>2
    <3> QED BY <1>2, <2>5, <3>1, Rounds
  <2>6. ASSUME NEW y \in 0..InputCount(t)-1, NEW q \in 1..RoundCount(t), Prefix(t, q) # NoPrefix
        PROVE  Done(y, q) <=> y \in 0..i
    <3>1. q < round
      BY <2>5, <2>6
    <3> QED BY <1>2, <3>1 DEF Done
  <2>7. 0..i \subseteq 0..InputCount(t)-1
    BY <1>2
  <2>8. ~SetsBit(test, reg, i, round, b)
    BY <2>4
  <2> QED BY <1>1, <2>1, <2>2, <2>3, <2>4, <2>6, <2>7, <2>8
<1>13. PastInv'
  <2> HIDE DEF rep
  <2>1. ASSUME NEW k \in 1..test
        PROVE  {errlist'[e] : e \in {e \in 1..Len(errlist') : errlist'[e].test = k}}
                 = IF k = test THEN {rep}
                   ELSE {errlist[e] : e \in {e \in 1..Len(errlist) : errlist[e].test = k}}
    <3>1. \A e \in 1..Len(errlist) : errlist[e].test # test
      <4> SUFFICES ASSUME NEW e \in 1..Len(errlist) PROVE errlist[e].test # test
        OBVIOUS
      <4>1. errlist[e].test \in Nat /\ errlist[e].test < test
        BY <1>4
      <4> QED BY <1>2, <4>1
    <3>2. \A e \in 1..Len(errlist') : e = Len(errlist) + 1 \/ e \in 1..Len(errlist)
      BY <1>4, <1>5
    <3>3. Len(errlist) + 1 \in 1..Len(errlist') /\ 1..Len(errlist) \subseteq 1..Len(errlist')
      BY <1>4, <1>5
    <3>4. CASE k = test
      BY <1>5, <1>6, <3>1, <3>2, <3>3, <3>4
    <3>5. CASE k # test
      BY <1>5, <1>6, <3>2, <3>3, <3>5
    <3> QED BY <3>4, <3>5
  <2>2. ASSUME NEW k \in 1..test
        PROVE  /\ {errlist'[e] : e \in {e \in 1..Len(errlist') : errlist'[e].test = k}} = Report(k)
               /\ \A reg \in Operands : \A b :
                    b \in pfxinfo'[k].errors[reg] <=>
                      \E y \in Tried(k), q \in 1..RoundCount(Tests[k]) : SetsBit(k, reg, y, q, b)
    <3>1. CASE k = test
      BY <1>11, <1>12, <2>1, <3>1
    <3>2. CASE k # test
      <4>1. k \in 1..test-1 /\ k \in DOMAIN Tests
        BY <1>2, <3>2, TestsLen
      <4>2. pfxinfo'[k].errors = pfxinfo[k].errors
        BY <3>2, <4>1, CompareErrors
      <4> QED BY <2>1, <3>2, <4>1, <4>2 DEF TallyInv, PastInv
    <3> QED BY <3>1, <3>2
  <2>3. \A k \in 1..test'-1 : k \in 1..test
    BY <1>2
  <2> QED BY <1>1, <2>2, <2>3, SameHardware DEF PastInv
<1> QED BY <1>7, <1>13, CompareErrors, NextTest DEF TallyInv

\* Every step keeps what the rounds add up to.
LEMMA TallyStep ==
  ASSUME RoundInv, TallyInv, [Next]_vars
  PROVE  TallyInv'
<1>1. CASE Compare
  <2>1. test' = test \/ test' = test + 1
    BY <1>1 DEF Compare, Advance, Break
  <2> QED BY <1>1, <2>1, AdvanceTally, EndTally, BreakTally
<1>2. CASE Prologue
  BY <1>2, PrologueTally
<1>3. CASE SetPrefix \/ Instruction \/ UNCHANGED vars
  BY <1>3, QuietTally
<1> QED BY <1>1, <1>2, <1>3 DEF Next

\* Both invariants always hold.
LEMMA AlwaysInv ==
  Spec => [](RoundInv /\ TallyInv)
<1>1. Init => RoundInv /\ TallyInv
  BY RoundStart, TallyStart
<1>2. RoundInv /\ TallyInv /\ [Next]_vars => (RoundInv /\ TallyInv)'
  BY RoundStep, TallyStep
<1> QED BY <1>1, <1>2, PTL DEF Spec

-----------------------------------------------------------------------------

\* The program keeps to the inputs and rounds of its table, the registers hold
\* numbers, pfxinfo has bits of errors the operand's prefixes have, and no
\* instruction is reported twice (gen-tests.py 317-329, main.c 40-77).
THEOREM TypeCorrect ==
  Spec => []TypeOK
<1>1. ASSUME RoundInv, TallyInv PROVE TypeOK
  <2>1. PlaceInv /\ InfoInv /\ ListInv /\ PastInv /\ CurrentInv /\ FutureInv
    BY <1>1 DEF RoundInv, TallyInv
  <2>2. DOMAIN regs = Operands /\ \A reg \in Operands, l \in 0..3 : regs[reg][l] \in Int
    BY <1>1 DEF RoundInv, MachineInv
  <2>3. DOMAIN pfxinfo = DOMAIN Tests
    BY <2>1 DEF InfoInv
  <2>4. ASSUME NEW k \in DOMAIN Tests, NEW reg \in Operands, NEW b \in pfxinfo[k].errors[reg]
        PROVE  b \in 0..(IF reg = "rd" THEN 1 ELSE 3)
    <3>0. k \in Nat /\ test \in Nat /\ k \in 1..Len(Tests)
      BY <2>1, TestsLen DEF PlaceInv
    <3>1. ~(k > test)
      BY <2>1, <2>4 DEF FutureInv
    <3>2. k \in 1..test-1 \/ (k = test /\ test <= Len(Tests))
      BY <3>0, <3>1
    <3>3. \E y, q : q \in 1..RoundCount(Tests[k]) /\ SetsBit(k, reg, y, q, b)
      BY <2>1, <2>4, <3>2 DEF PastInv, CurrentInv, t
    <3>4. PICK q \in 1..RoundCount(Tests[k]) :
            Prefix(Tests[k], q)[1] = reg /\ enum[Prefix(Tests[k], q)[2]] = b
      BY <3>3 DEF SetsBit
    <3>5. IsSource(Tests[k], Prefix(Tests[k], q)) \/ IsDestination(Tests[k], Prefix(Tests[k], q))
      BY <3>0, <3>4, TestUnder, Rounds, NoPrefixIsNone DEF Operands
    <3> QED BY <3>4, <3>5 DEF IsSource, IsDestination, enum, Operands
  <2>5. Len(errlist) < test
    BY <2>1 DEF ListInv
  <2> QED BY <2>1, <2>2, <2>3, <2>4, <2>5 DEF TypeOK, PlaceInv, Operands
<1>2. RoundInv /\ TallyInv => TypeOK
  BY <1>1
<1> QED BY <1>2, AlwaysInv, PTL

\* run_tests reports every instruction that the hardware miscomputes once, with
\* the first input and immediate that show it, and no other instruction, for any
\* table of instructions, any bounds and any hardware (gen-tests.py 249, 322).
THEOREM VerdictIsExact ==
  Spec => []VerdictExact
<1>1. ASSUME RoundInv, TallyInv PROVE VerdictExact
  <2> SUFFICES ASSUME Ended, NEW k \in DOMAIN Tests
               PROVE  {errlist[e] : e \in {e \in DOMAIN errlist : errlist[e].test = k}} = Report(k)
    BY DEF VerdictExact
  <2>1. k \in 1..test-1
    BY <1>1, TestsLen DEF RoundInv, PlaceInv, Ended
  <2>2. DOMAIN errlist = 1..Len(errlist)
    BY <1>1, ListType DEF TallyInv
  <2> QED BY <1>1, <2>1, <2>2 DEF TallyInv, PastInv
<1>2. RoundInv /\ TallyInv => VerdictExact
  BY <1>1
<1> QED BY <1>2, AlwaysInv, PTL

\* The prefix matrix marks a kind of prefix just if some round with it, up to
\* the input at which the instruction itself failed, gives another result than
\* the emulation, for any table, bounds and hardware (main.c 47-72).
THEOREM PrefixMatrixIsExact ==
  Spec => []PrefixMatrixExact
<1>1. ASSUME RoundInv, TallyInv PROVE PrefixMatrixExact
  <2> SUFFICES ASSUME Ended, NEW k \in DOMAIN Tests, NEW reg \in pfxinfo[k].tested
               PROVE  Matrix(k)[reg] = {op \in DOMAIN enum : Marked(k, reg, op)}
    BY DEF PrefixMatrixExact
  <2>1. k \in 1..test-1 /\ k \in 1..Len(Tests)
    BY <1>1, TestsLen DEF RoundInv, PlaceInv, Ended
  <2>2. reg \in Operands
    BY <1>1 DEF TallyInv, InfoInv
  <2> DEFINE kinds == IF reg = "rd" THEN {"msk", "sat"} ELSE {"swz", "neg", "abs", "cst"}
  <2>3. Matrix(k)[reg] = {op \in kinds : enum[op] \in pfxinfo[k].errors[reg]}
    BY DEF Matrix
  <2>4. \A b : b \in pfxinfo[k].errors[reg] <=>
          \E y \in Tried(k), q \in 1..RoundCount(Tests[k]) : SetsBit(k, reg, y, q, b)
    BY <1>1, <2>1, <2>2 DEF TallyInv, PastInv
  <2>5. kinds \subseteq DOMAIN enum
    BY DEF enum
  <2>6. \A q \in 1..RoundCount(Tests[k]) : Prefix(Tests[k], q)[1] = reg => Prefix(Tests[k], q)[2] \in kinds
    <3> SUFFICES ASSUME NEW q \in 1..RoundCount(Tests[k]), Prefix(Tests[k], q)[1] = reg
                 PROVE  Prefix(Tests[k], q)[2] \in kinds
      OBVIOUS
    <3>1. IsSource(Tests[k], Prefix(Tests[k], q)) \/ IsDestination(Tests[k], Prefix(Tests[k], q))
      BY <2>1, <2>2, TestUnder, Rounds, NoPrefixIsNone DEF Operands
    <3> QED BY <3>1 DEF IsSource, IsDestination
  <2>7. \A op, other \in kinds : enum[op] = enum[other] => op = other
    BY DEF enum
  <2> HIDE DEF kinds
  <2>8. ASSUME NEW op \in kinds PROVE enum[op] \in pfxinfo[k].errors[reg] <=> Marked(k, reg, op)
    <3>1. \A y, q : q \in 1..RoundCount(Tests[k]) =>
            (SetsBit(k, reg, y, q, enum[op]) <=>
               Prefix(Tests[k], q)[1] = reg /\ Prefix(Tests[k], q)[2] = op /\ Differs(k, y, q))
      BY <2>6, <2>7, <2>8 DEF SetsBit
    <3> QED BY <2>4, <3>1 DEF Marked
  <2>9. ASSUME NEW op, Marked(k, reg, op) PROVE op \in kinds
    BY <2>6, <2>9 DEF Marked
  <2> QED BY <2>3, <2>5, <2>8, <2>9
<1>2. RoundInv /\ TallyInv => PrefixMatrixExact
  BY <1>1
<1> QED BY <1>2, AlwaysInv, PTL

-----------------------------------------------------------------------------
(* What the harness says of hardware that computes right.                   *)

\* The default prefix of a source changes nothing.
LEMMA SourcePlain ==
  ASSUME NEW input, NEW n \in 1..4, NEW l \in 0..n-1
  PROVE  pfx_src(input, \hE4, n)[l] = input[l]
<1>1. /\ Selected(\hE4, l) = l /\ Bit(\hE4, 8 + l) = 0 /\ Bit(\hE4, 12 + l) = 0
      /\ Bit(\hE4, 16 + l) = 0
  <2>1. CASE l = 0
    BY <2>1 DEF Selected, Bit
  <2>2. CASE l = 1
    BY <2>2 DEF Selected, Bit
  <2>3. CASE l = 2
    BY <2>3 DEF Selected, Bit
  <2>4. CASE l = 3
    BY <2>4 DEF Selected, Bit
  <2> QED BY <2>1, <2>2, <2>3, <2>4
<1>2. l \in 0..3 /\ ~(l >= n)
  OBVIOUS
<1> QED BY <1>1, <1>2 DEF pfx_src, Selected

\* The hardware obeys the prefix of a round.
Obeys(h, u, r) ==
  ~(h.name = u.name /\ <<Prefix(u, r)[1], Prefix(u, r)[3]>> \in h.ignored)

\* Then it sees the operands that the emulation computes.
LEMMA SeenIsEmulated ==
  ASSUME NEW u \in Under, NEW r \in 1..RoundCount(u), NEW x, NEW h,
         Prefix(u, r) # NoPrefix => Obeys(h, u, r), NEW reg \in {"rs", "rt"}
  PROVE  Agree(u, reg, Seen(h, u, reg, Ref(u, reg, x), Pending(u, r)[Reg[reg]]),
                       EmulatedSource(u, x, r, reg))
<1> DEFINE p == Prefix(u, r)
           seen == Seen(h, u, reg, Ref(u, reg, x), Pending(u, r)[Reg[reg]])
<1>1. Reg[reg] \in {"s", "t"} /\ (reg = "rs" => Reg[reg] = "s") /\ (reg = "rt" => Reg[reg] = "t")
      /\ Reg["rd"] = "d" /\ Reg["rs"] = "s" /\ Reg["rt"] = "t"
  BY DEF Reg
<1>2. CASE p[1] = reg
  <2>1. p # NoPrefix /\ Obeys(h, u, r)
    BY <1>2, NoPrefixIsNone
  <2>2. Pending(u, r)[Reg[reg]] = p[3]
    BY <1>1, <1>2, <2>1, DefaultsAre DEF Pending
  <2>3. seen = pfx_src(Ref(u, reg, x), p[3], u.n)
    BY <1>2, <2>1, <2>2 DEF Seen, Obeys
  <2> QED BY <1>2, <2>3 DEF EmulatedSource, Agree
<1>3. CASE p[1] # reg
  <2>1. Pending(u, r)[Reg[reg]] = \hE4
    <3>1. CASE p = NoPrefix
      BY <1>1, <3>1, DefaultsAre DEF Pending
    <3>2. CASE p # NoPrefix
      <4>1. p[1] \in {"rs", "rt", "rd"}
        BY <3>2, Rounds, NoPrefixIsNone
      <4>2. Reg[p[1]] # Reg[reg]
        BY <1>1, <1>3, <4>1
      <4> QED BY <1>1, <3>2, <4>2, DefaultsAre DEF Pending
    <3> QED BY <3>1, <3>2
  <2>2. \A l \in 0..u.n-1 : seen[l] = Ref(u, reg, x)[l]
    <3> TAKE l \in 0..u.n-1
    <3>1. pfx_src(Ref(u, reg, x), \hE4, u.n)[l] = Ref(u, reg, x)[l]
      BY SourcePlain, UnderType
    <3> QED BY <2>1, <3>1 DEF Seen
  <2>3. EmulatedSource(u, x, r, reg) = Ref(u, reg, x)
    BY <1>3 DEF EmulatedSource
  <2> HIDE DEF seen
  <2> QED BY <2>2, <2>3 DEF Agree, seen
<1> QED BY <1>2, <1>3

\* No value is outside of any accuracy of itself.
LEMMA NotOutside ==
  ASSUME NEW u \in Under, NEW v \in Int
  PROVE  ~Outside(u.accuracy, v, v)
<1>1. CASE u.accuracy[1] = "exact"
  BY <1>1 DEF Outside, fpdif
<1>2. CASE u.accuracy[1] = "absolute"
  <2>1. u.accuracy[2] \in Nat
    BY <1>2, UnderType DEF Accuracies
  <2> QED BY <1>2, <2>1 DEF Outside
<1>3. CASE u.accuracy[1] = "relative"
  <2>1. u.accuracy[2] \in Nat \ {0}
    BY <1>3, UnderType DEF Accuracies
  <2>2. Abs(v) \in Nat
    BY DEF Abs
  <2>3. Abs(v) \div u.accuracy[2] \in Nat
    BY <2>1, <2>2
  <2>4. \A m \in Nat : v \in v - m..v + m
    OBVIOUS
  <2> QED BY <1>3, <2>3, <2>4 DEF Outside
<1> QED BY <1>1, <1>2, <1>3, UnderType DEF Accuracies

\* Hardware that computes right differs only where it ignores the prefix.
LEMMA RightRound ==
  ASSUME NEW k \in 1..Len(Tests), NEW r \in 1..RoundCount(Tests[k]), NEW x \in Nat,
         hw.when = {}, Prefix(Tests[k], r) # NoPrefix => Obeys(hw, Tests[k], r)
  PROVE  ~Differs(k, x, r)
<1> DEFINE u   == Tests[k]
           p   == Prefix(u, r)
           imm == Imm(u, r)
           pfx == Pending(u, r)
           s   == Seen(hw, u, "rs", Ref(u, "rs", x), pfx["s"])
           tt  == Seen(hw, u, "rt", Ref(u, "rt", x), pfx["t"])
           es  == EmulatedSource(u, x, r, "rs")
           et  == EmulatedSource(u, x, r, "rt")
<1>1. u \in Under
  BY TestUnder
<1>2. Agree(u, "rs", s, es) /\ Agree(u, "rt", tt, et)
  BY <1>1, SeenIsEmulated DEF Reg
<1>3. \A v : ~Miscomputes(hw, u, v)
  BY DEF Miscomputes
<1>4. CASE HasOutput(u)
  <2> DEFINE value == pcode(u, imm, s, tt, CcRef(u, x), Zeros)
             plain == pcode(u, imm, es, et, CcRef(u, x), Zeros)
             alone == ExecuteValues(hw, u, imm, Ref(u, "rs", x), Ref(u, "rt", x), CcRef(u, x), Zeros, pfx)
  <2>1. value = plain
    <3> HIDE DEF s, tt, es, et, u
    <3> QED BY <1>1, <1>2, <1>4, PcodeSame
  <2>2. [value EXCEPT ![0] = IF Miscomputes(hw, u, @) THEN @ + hw.off ELSE @] = value
    <3>1. value = [l \in 0..3 |-> value[l]]
      BY PcodeLanes
    <3> HIDE DEF value
    <3> QED BY <1>3, <3>1
  <2>3. alone = IF hw.name = u.name /\ <<"rd", pfx["d"]>> \in hw.ignored
                THEN value ELSE pfx_dst(Zeros, value, pfx["d"], u.n)
    BY <2>2 DEF ExecuteValues
  <2>4. Final(u, x, r) = IF p[1] = "rd" THEN pfx_dst(Zeros, plain, p[3], u.n) ELSE plain
    BY DEF Final
  <2>5. Alone(k, x, r) = alone
    BY <1>4 DEF Alone, Pending
  <2> HIDE DEF alone, value, plain
  <2>6. \A l \in 0..u.n-1 : alone[l] = Final(u, x, r)[l]
    <3>1. CASE p[1] = "rd"
      <4>1. p # NoPrefix
        BY <3>1, NoPrefixIsNone
      <4>2. pfx["d"] = p[3]
        BY <3>1, <4>1, DefaultsAre DEF Pending, Reg
      <4>3. alone = pfx_dst(Zeros, value, p[3], u.n)
        BY <2>3, <3>1, <4>1, <4>2 DEF Obeys
      <4> QED BY <2>1, <2>4, <3>1, <4>3
    <3>2. CASE p[1] # "rd"
      <4>1. pfx["d"] = 0
        <5>1. CASE p = NoPrefix
          BY <5>1, DefaultsAre DEF Pending
        <5>2. CASE p # NoPrefix
          <6>1. p[1] \in {"rs", "rt"}
            BY <1>1, <3>2, <5>2, Rounds, NoPrefixIsNone
          <6>2. Reg[p[1]] \in {"s", "t"}
            BY <6>1 DEF Reg
          <6>3. pfx = [DefaultPrefixes EXCEPT ![Reg[p[1]]] = p[3]]
            BY <5>2 DEF Pending
          <6> HIDE DEF pfx, p
          <6> QED BY <6>2, <6>3, DefaultsAre
        <5> QED BY <5>1, <5>2
      <4>2. \A l \in 0..u.n-1 : pfx_dst(Zeros, value, 0, u.n)[l] = value[l]
        <5>1. pfx_dst(Zeros, value, 0, u.n) = [l \in 0..3 |-> IF l >= u.n THEN Zeros[l] ELSE value[l]]
          <6>1. u.n \in 1..4
            BY <1>1, UnderType
          <6> HIDE DEF u
          <6> QED BY <6>1, DestinationPlain
        <5>2. \A l \in 0..u.n-1 : l \in 0..3 /\ ~(l >= u.n)
          BY <1>1, UnderType
        <5> QED BY <5>1, <5>2
      <4> QED BY <2>1, <2>3, <2>4, <3>2, <4>1, <4>2
    <3> QED BY <3>1, <3>2
  <2>7. \A l \in 0..u.n-1 : Final(u, x, r)[l] \in Int
    <3>1. \A l \in 0..3 : Final(u, x, r)[l] \in Int
      BY <1>1, <1>4, FinalInt
    <3>2. 0..u.n-1 \subseteq 0..3
      BY <1>1, UnderType
    <3> HIDE DEF u
    <3> QED BY <3>1, <3>2
  <2>8. \A l \in Lanes(u.n) : ~Outside(u.accuracy, Final(u, x, r)[l], Alone(k, x, r)[l])
    BY <1>1, <2>5, <2>6, <2>7, NotOutside DEF Lanes
  <2> QED BY <1>4, <2>8 DEF Differs
<1>5. CASE ~HasOutput(u)
  <2>1. Truths(u, imm, s, tt) = Truths(u, imm, es, et)
    <3> HIDE DEF s, tt, es, et, u
    <3> QED BY <1>1, <1>2, <1>5, TruthsSame
  <2>2. ExecuteTruths(hw, u, imm, Ref(u, "rs", x), Ref(u, "rt", x), pfx) = Truths(u, imm, s, tt)
    BY <1>3 DEF ExecuteTruths
  <2>3. Alone(k, x, r) = EmulatedCc(u, x, r)
    BY <1>5, <2>1, <2>2 DEF Alone, EmulatedCc, Pending
  <2> QED BY <1>5, <2>3 DEF Differs
<1> QED BY <1>4, <1>5

\* On hardware that computes right no instruction is reported, and a kind of
\* prefix is marked only for the instruction that ignores one of its words: the
\* first half of MatrixShowsHardware.
NothingMadeUp ==
  Ended /\ hw.when = {} =>
    /\ errlist = <<>>
    /\ \A k \in DOMAIN Tests : \A reg \in pfxinfo[k].tested : \A op \in Matrix(k)[reg] :
         /\ Tests[k].name = hw.name
         /\ \E c \in DOMAIN pfxl[Tests[k]] :
              /\ pfxl[Tests[k]][c][1] = reg /\ pfxl[Tests[k]][c][2] = op
              /\ <<reg, pfxl[Tests[k]][c][3]>> \in hw.ignored

\* The program makes nothing up about hardware that computes right, whatever
\* prefixes it ignores, for any table and bounds: it reports no instruction, and
\* marks a kind of prefix only of the instruction that ignores a word of it
\* (gen-tests.py 5-8 and 317-322).
THEOREM NothingIsMadeUp ==
  Spec => []NothingMadeUp
<1>1. ASSUME VerdictExact, PrefixMatrixExact, RoundInv, TallyInv, Ended, hw.when = {}
      PROVE  errlist = <<>>
  <2>1. ASSUME NEW e \in 1..Len(errlist) PROVE FALSE
    <3>1. errlist[e].test \in 1..Len(Tests)
      BY <1>1, ListType, TestsLen DEF TallyInv, RoundInv, PlaceInv, Ended
    <3> DEFINE k == errlist[e].test
    <3>2. errlist[e] \in Report(k)
      BY <1>1, <3>1, ListType, TestsLen DEF VerdictExact, TallyInv
    <3> HIDE DEF k
    <3>3. PICK x \in Failing(k) : TRUE
      BY <3>2 DEF Report
    <3>4. PICK r \in 1..RoundCount(Tests[k]) : Prefix(Tests[k], r) = NoPrefix /\ Differs(k, x, r)
      BY <3>3 DEF Failing
    <3>5. x \in Nat /\ k \in 1..Len(Tests)
      BY <3>1, <3>3 DEF Failing, k
    <3> QED BY <1>1, <3>4, <3>5, RightRound
  <2>2. Len(errlist) \in Nat
    BY <1>1, ListType DEF TallyInv
  <2>3. Len(errlist) = 0
    BY <2>1, <2>2
  <2> QED BY <1>1, <2>3 DEF TallyInv, ListInv
<1>2. ASSUME VerdictExact, PrefixMatrixExact, RoundInv, TallyInv, Ended, hw.when = {},
             NEW k \in DOMAIN Tests, NEW reg \in pfxinfo[k].tested, NEW op \in Matrix(k)[reg]
      PROVE  /\ Tests[k].name = hw.name
             /\ \E c \in DOMAIN pfxl[Tests[k]] :
                  /\ pfxl[Tests[k]][c][1] = reg /\ pfxl[Tests[k]][c][2] = op
                  /\ <<reg, pfxl[Tests[k]][c][3]>> \in hw.ignored
  <2>1. Marked(k, reg, op)
    BY <1>2 DEF PrefixMatrixExact
  <2>2. PICK x \in Tried(k), r \in 1..RoundCount(Tests[k]) :
          Prefix(Tests[k], r)[1] = reg /\ Prefix(Tests[k], r)[2] = op /\ Differs(k, x, r)
    BY <2>1 DEF Marked
  <2>3. k \in 1..Len(Tests) /\ Tests[k] \in Under
    BY TestsLen, TestUnder
  <2>4. x \in Nat
    <3>1. CASE Failing(k) = {}
      BY <3>1 DEF Tried
    <3>2. CASE Failing(k) # {}
      BY <3>2 DEF Tried
    <3> QED BY <3>1, <3>2
  <2>5. Tests[k].name = hw.name /\ <<reg, Prefix(Tests[k], r)[3]>> \in hw.ignored
    BY <1>2, <2>2, <2>3, <2>4, RightRound DEF Obeys
  <2>6. PICK c \in DOMAIN pfxl[Tests[k]] : Prefix(Tests[k], r) = pfxl[Tests[k]][c]
    BY <2>3, PrefixInList
  <2> QED BY <2>2, <2>5, <2>6
<1>3. VerdictExact /\ PrefixMatrixExact /\ RoundInv /\ TallyInv => NothingMadeUp
  BY <1>1, <1>2 DEF NothingMadeUp
<1> QED BY <1>3, AlwaysInv, VerdictIsExact, PrefixMatrixIsExact, PTL
=============================================================================
