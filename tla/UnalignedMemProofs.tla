------------------------- MODULE UnalignedMemProofs -------------------------
(***************************************************************************)
(* Proofs about UnalignedMem, for memory of every size: a pair of partial  *)
(* accesses is one move of a quad. The invariant is TypeOK and HalfMoved,  *)
(* which is inductive because the pair's two parts meet: the first starts  *)
(* one lane after the second ends (PairParts).                             *)
(***************************************************************************)
EXTENDS UnalignedMem, TLAPS

\* The words of the address 12 bytes on, and where its part of the quad starts.
LEMMA PairParts ==
  ASSUME NEW a \in Nat
  PROVE  /\ Word(a) \in Nat /\ Word(a + 12) = Word(a) + 3
         /\ Place(a) \in Lanes /\ Place(a + 12) \in Lanes
         /\ Place(a) = 0 => Place(a + 12) = 3
         /\ Place(a) # 0 => Place(a + 12) = Place(a) - 1
<1>1. Word(a) \in Nat /\ Word(a + 12) = Word(a) + 3
  BY DEF Word
<1>2. Place(a) \in 0..3 /\ Place(a + 12) = (Word(a) + 3) % 4
  BY <1>1 DEF Place
<1>3. ASSUME NEW w \in Nat
      PROVE  /\ w % 4 = 0 => (w + 3) % 4 = 3
             /\ w % 4 # 0 => (w + 3) % 4 = (w % 4) - 1
             /\ (w + 3) % 4 \in 0..3
  OBVIOUS
<1> QED
  BY <1>1, <1>2, <1>3 DEF Place, Lanes

\* An address and the word it names are numbers, and its quad ends in memory.
LEMMA AddressTypes ==
  ASSUME NEW a \in Addresses
  PROVE  a \in Nat /\ Word(a) \in Nat /\ Word(a) + 3 < Size
BY SizeAssumption DEF Addresses, Word

\* A quad that is accessed lies in memory.
LEMMA QuadInMemory ==
  ASSUME NEW a \in Addresses, NEW j \in Lanes
  PROVE  Word(a) + j \in Words
BY AddressTypes, SizeAssumption DEF Words, Lanes

IInv == TypeOK /\ HalfMoved

-----------------------------------------------------------------------------
(* Typing of the partial accesses.                                          *)

\* Both partial loads, and the whole one, make a quad of values.
LEMMA LoadTypes ==
  ASSUME NEW m \in [Words -> Values], NEW quad \in [Lanes -> Values], NEW a \in Addresses
  PROVE  /\ LoadedLeft(m, quad, a + 12) \in [Lanes -> Values]
         /\ LoadedRight(m, quad, a) \in [Lanes -> Values]
         /\ [j \in Lanes |-> m[Word(a) + j]] \in [Lanes -> Values]
<1>1. a \in Nat /\ Word(a) \in Nat
  BY AddressTypes
<1>2. \A j \in Lanes : Word(a) + j \in Words /\ Word(a + 12) - 3 + j = Word(a) + j
  BY <1>1, QuadInMemory, PairParts DEF Lanes
<1> QED
  BY <1>2 DEF LoadedLeft, LoadedRight

\* Both partial stores, and the whole one, make a memory of values.
LEMMA StoreTypes ==
  ASSUME NEW m \in [Words -> Values], NEW quad \in [Lanes -> Values], NEW a \in Addresses
  PROVE  /\ StoredLeft(m, quad, a + 12) \in [Words -> Values]
         /\ StoredRight(m, quad, a) \in [Words -> Values]
         /\ [x \in Words |-> IF x - Word(a) \in Lanes THEN quad[x - Word(a)] ELSE m[x]]
              \in [Words -> Values]
<1>1. a \in Nat /\ Word(a) \in Nat /\ Word(a + 12) = Word(a) + 3
  BY AddressTypes, PairParts
<1>2. Place(a) \in Lanes /\ Place(a + 12) \in Lanes
  BY <1>1, PairParts
<1>3. \A x \in Words : x \in Word(a + 12) - Place(a + 12)..Word(a + 12)
                         => x - Word(a + 12) + 3 \in Lanes
  BY <1>1, <1>2 DEF Lanes, Words
<1>4. \A x \in Words : x \in Word(a)..Word(a) + 3 - Place(a) => x - Word(a) \in Lanes
  BY <1>1, <1>2 DEF Lanes, Words
<1> QED
  BY <1>3, <1>4 DEF StoredLeft, StoredRight

-----------------------------------------------------------------------------
(* The halves of a pair.                                                    *)

\* After the first load, the lanes it leaves to the second are the only ones
\* that differ from memory.
LEMMA FirstLoad ==
  ASSUME NEW m, NEW quad, NEW a \in Addresses, NEW j \in Rest(a)
  PROVE  LoadedLeft(m, quad, a + 12)[j] = m[Word(a) + j]
<1>1. a \in Nat /\ Word(a) \in Nat /\ j \in Lanes /\ j > 3 - Place(a)
  BY AddressTypes DEF Rest
<1>2. j >= 3 - Place(a + 12) /\ Word(a + 12) - 3 + j = Word(a) + j
  BY <1>1, PairParts DEF Lanes
<1> QED
  BY <1>1, <1>2 DEF LoadedLeft

\* The same of the first store.
LEMMA FirstStore ==
  ASSUME NEW m, NEW quad, NEW a \in Addresses, NEW j \in Rest(a)
  PROVE  StoredLeft(m, quad, a + 12)[Word(a) + j] = quad[j]
<1>1. a \in Nat /\ Word(a) \in Nat /\ j \in Lanes /\ j > 3 - Place(a)
  BY AddressTypes DEF Rest
<1> DEFINE x == Word(a) + j
<1>2. /\ Word(a + 12) = Word(a) + 3
      /\ Place(a) # 0 /\ Place(a) \in 0..3 /\ Place(a + 12) = Place(a) - 1
  BY <1>1, PairParts DEF Lanes
<1>3. x \in Word(a + 12) - Place(a + 12)..Word(a + 12) /\ x - Word(a + 12) + 3 = j
  BY <1>1, <1>2 DEF Lanes
<1>4. x \in Words
  BY <1>1, QuadInMemory
<1> HIDE DEF x
<1>5. StoredLeft(m, quad, a + 12)[x] = quad[x - Word(a + 12) + 3]
  BY <1>3, <1>4 DEF StoredLeft
<1> QED
  BY <1>3, <1>5 DEF x

\* The first store touches no word outside the quad.
LEMMA FirstStoreInside ==
  ASSUME NEW m, NEW quad, NEW a \in Addresses, NEW x \in Words, x - Word(a) \notin Lanes
  PROVE  StoredLeft(m, quad, a + 12)[x] = m[x]
<1>1. a \in Nat /\ x \in Int /\ Word(a) \in Nat
  BY AddressTypes DEF Words
<1>2. Word(a + 12) = Word(a) + 3 /\ Place(a + 12) \in 0..3
  BY <1>1, PairParts DEF Lanes
<1>3. ~(x - Word(a) >= 0 /\ x - Word(a) <= 3)
  BY <1>1 DEF Lanes
<1>4. x \notin Word(a + 12) - Place(a + 12)..Word(a + 12)
  BY <1>1, <1>2, <1>3
<1> QED
  BY <1>4 DEF StoredLeft

\* The second load completes the quad.
LEMMA SecondLoad ==
  ASSUME NEW m, NEW quad \in [Lanes -> Values], NEW a \in Addresses,
         \A j \in Rest(a) : quad[j] = m[Word(a) + j]
  PROVE  LoadedRight(m, quad, a) = [j \in Lanes |-> m[Word(a) + j]]
<1>1. a \in Nat /\ Place(a) \in Lanes
  BY AddressTypes, PairParts
<1>2. \A j \in Lanes : j <= 3 - Place(a) \/ j \in Rest(a)
  BY <1>1 DEF Rest, Lanes
<1> QED
  BY <1>2 DEF LoadedRight

\* And so does the second store.
LEMMA SecondStore ==
  ASSUME NEW m \in [Words -> Values], NEW quad, NEW a \in Addresses,
         \A j \in Rest(a) : quad[j] = m[Word(a) + j]
  PROVE  StoredRight(m, quad, a)
           = [x \in Words |-> IF x - Word(a) \in Lanes THEN quad[x - Word(a)] ELSE m[x]]
<1>1. a \in Nat /\ Place(a) \in Lanes /\ Word(a) \in Nat
  BY AddressTypes, PairParts
<1>2. ASSUME NEW x \in Words
      PROVE  (IF x \in Word(a)..Word(a) + 3 - Place(a) THEN quad[x - Word(a)] ELSE m[x])
               = (IF x - Word(a) \in Lanes THEN quad[x - Word(a)] ELSE m[x])
  <2>1. CASE x \in Word(a)..Word(a) + 3 - Place(a)
    BY <1>1, <2>1 DEF Lanes, Words
  <2>2. CASE x \notin Word(a)..Word(a) + 3 - Place(a) /\ x - Word(a) \in Lanes
    <3>1. x - Word(a) \in Rest(a) /\ x = Word(a) + (x - Word(a))
      BY <1>1, <2>2 DEF Rest, Lanes, Words
    <3> QED
      BY <2>2, <3>1
  <2>3. CASE x \notin Word(a)..Word(a) + 3 - Place(a) /\ x - Word(a) \notin Lanes
    BY <2>3
  <2> QED
    BY <2>1, <2>2, <2>3
<1> QED
  BY <1>2 DEF StoredRight

-----------------------------------------------------------------------------
(* The invariant.                                                           *)

\* The invariant holds before the first access.
LEMMA InitInv == Init => IInv
BY QuadsAssumption DEF Init, IInv, TypeOK, HalfMoved, NoHalf, Halves

\* Every access, of a whole quad or of a half, keeps the invariant.
LEMMA InductiveInv == IInv /\ [Next]_vars => IInv'
<1> SUFFICES ASSUME IInv, [Next]_vars PROVE IInv'
  OBVIOUS
<1> USE DEF IInv, TypeOK, Halves, NoHalf, Free
<1>1. ASSUME NEW r \in Quads, NEW a \in Addresses, Lv(r, a)
      PROVE  IInv'
  <2>1. vreg' \in [Quads -> [Lanes -> Values]]
    BY <1>1, LoadTypes DEF Lv
  <2> QED
    BY <1>1, <2>1 DEF Lv, HalfMoved
<1>2. ASSUME NEW r \in Quads, NEW a \in Addresses, Sv(r, a)
      PROVE  IInv'
  <2>1. mem' \in [Words -> Values]
    BY <1>2, StoreTypes DEF Sv
  <2> QED
    BY <1>2, <2>1 DEF Sv, HalfMoved
<1>3. ASSUME NEW r \in Quads, NEW a \in Addresses, Ulv(r, a)
      PROVE  IInv'
  <2>1. vreg' \in [Quads -> [Lanes -> Values]]
    BY <1>3, LoadTypes DEF Ulv
  <2>2. half' \in [op : Halves, reg : Quads, at : {0} \cup Addresses] /\ half'.at \in Addresses
    BY <1>3 DEF Ulv
  <2>3. HalfMoved'
    BY <1>3, FirstLoad DEF Ulv, HalfMoved
  <2> QED
    BY <1>3, <2>1, <2>2, <2>3 DEF Ulv
<1>4. ASSUME NEW r \in Quads, NEW a \in Addresses, Usv(r, a)
      PROVE  IInv'
  <2>1. mem' \in [Words -> Values]
    BY <1>4, StoreTypes DEF Usv
  <2>2. half' \in [op : Halves, reg : Quads, at : {0} \cup Addresses] /\ half'.at \in Addresses
    BY <1>4 DEF Usv
  <2>3. HalfMoved'
    BY <1>4, FirstStore DEF Usv, HalfMoved
  <2> QED
    BY <1>4, <2>1, <2>2, <2>3 DEF Usv
<1>5. CASE Lvr
  <2>1. half.at \in Addresses
    BY <1>5 DEF Lvr
  <2>2. vreg' \in [Quads -> [Lanes -> Values]]
    BY <1>5, <2>1, LoadTypes DEF Lvr
  <2> QED
    BY <1>5, <2>1, <2>2 DEF Lvr, HalfMoved
<1>6. CASE Svr
  <2>1. half.at \in Addresses
    BY <1>6 DEF Svr
  <2>2. mem' \in [Words -> Values]
    BY <1>6, <2>1, StoreTypes DEF Svr
  <2> QED
    BY <1>6, <2>1, <2>2 DEF Svr, HalfMoved
<1>7. ASSUME NEW r \in Quads, NEW j \in Lanes, NEW v \in Values, Compute(r, j, v)
      PROVE  IInv'
  BY <1>7 DEF Compute, HalfMoved
<1>8. CASE UNCHANGED vars
  BY <1>8 DEF vars, HalfMoved
<1> QED
  BY <1>1, <1>2, <1>3, <1>4, <1>5, <1>6, <1>7, <1>8 DEF Next

\* The invariant always holds.
LEMMA Invariance == Spec => []IInv
BY InitInv, InductiveInv, PTL DEF Spec

\* Every variable keeps its type: the accesses stay inside register and memory.
THEOREM TypeCorrect == Spec => []TypeOK
<1>1. IInv => TypeOK
  BY DEF IInv
<1> QED
  BY Invariance, <1>1, PTL

\* Register and memory agree, between the instructions of a pair, on every lane
\* that the second one leaves alone.
THEOREM NoTornQuad == Spec => []HalfMoved
<1>1. IInv => HalfMoved
  BY DEF IInv
<1> QED
  BY Invariance, <1>1, PTL

-----------------------------------------------------------------------------
(* Refinement.                                                              *)

\* With no half pending, memory and registers are those of QuadMem.
LEMMA InitRefines == Init => Atomic!Init
BY DEF Init, Atomic!Init, FullMem, FullReg, NoHalf, Words, Lanes, Atomic!Words, Atomic!Lanes

\* The first half of a pair is the move of the quad, the second changes nothing.
LEMMA StepRefines == IInv /\ [Next]_vars => [Atomic!Next]_<<FullMem, FullReg>>
<1> SUFFICES ASSUME IInv, [Next]_vars
             PROVE  Atomic!Next \/ UNCHANGED <<FullMem, FullReg>>
  OBVIOUS
<1> USE DEF NoHalf, Free
<1>1. /\ mem \in [Words -> Values] /\ vreg \in [Quads -> [Lanes -> Values]]
      /\ half.op # NoHalf => half.at \in Addresses /\ half.reg \in Quads
  BY DEF IInv, TypeOK, Halves
<1>2. Words = Atomic!Words /\ Lanes = Atomic!Lanes /\ Addresses = Atomic!Addresses
  BY DEF Words, Lanes, Addresses, Atomic!Words, Atomic!Lanes, Atomic!Addresses
<1>3. ASSUME NEW r \in Quads, NEW a \in Addresses, Lv(r, a)
      PROVE  Atomic!Next
  <2>1. Atomic!Load(r, a)
    BY <1>2, <1>3 DEF Lv, Atomic!Load, Atomic!Quad, FullMem, FullReg, Word
  <2> QED
    BY <1>2, <2>1 DEF Atomic!Next
<1>4. ASSUME NEW r \in Quads, NEW a \in Addresses, Sv(r, a)
      PROVE  Atomic!Next
  <2>1. Atomic!Store(r, a)
    BY <1>2, <1>4 DEF Sv, Atomic!Store, Atomic!Written, FullMem, FullReg, Word
  <2> QED
    BY <1>2, <2>1 DEF Atomic!Next
<1>5. ASSUME NEW r \in Quads, NEW a \in Addresses, Ulv(r, a)
      PROVE  Atomic!Next
  <2>1. FullMem = mem /\ FullMem' = mem /\ FullReg = vreg
    BY <1>5 DEF Ulv, FullMem, FullReg
  <2>2. FullReg' = [vreg EXCEPT ![r] = [j \in Lanes |-> mem[Word(a) + j]]]
    BY <1>1, <1>5 DEF Ulv, FullReg
  <2>3. Atomic!Load(r, a)
    BY <1>2, <2>1, <2>2 DEF Atomic!Load, Atomic!Quad, Word
  <2> QED
    BY <1>2, <2>3 DEF Atomic!Next
<1>6. ASSUME NEW r \in Quads, NEW a \in Addresses, Usv(r, a)
      PROVE  Atomic!Next
  <2>1. FullReg = vreg /\ FullReg' = vreg /\ FullMem = mem
    BY <1>6 DEF Usv, FullMem, FullReg
  <2>2. FullMem' = [x \in Words |-> IF x - Word(a) \in Lanes THEN vreg[r][x - Word(a)] ELSE mem[x]]
    <3>1. FullMem' = [x \in Words |-> IF x - Word(a) \in Lanes THEN vreg[r][x - Word(a)]
                                     ELSE StoredLeft(mem, vreg[r], a + 12)[x]]
      BY <1>6 DEF Usv, FullMem
    <3>2. \A x \in Words : x - Word(a) \notin Lanes => StoredLeft(mem, vreg[r], a + 12)[x] = mem[x]
      BY FirstStoreInside
    <3> QED
      BY <3>1, <3>2
  <2>3. Atomic!Store(r, a)
    BY <1>2, <2>1, <2>2 DEF Atomic!Store, Atomic!Written, Word
  <2> QED
    BY <1>2, <2>3 DEF Atomic!Next
<1>7. CASE Lvr
  <2>1. half.at \in Addresses /\ half.reg \in Quads /\ half.op = "lvr"
    BY <1>1, <1>7 DEF Lvr
  <2>2. LoadedRight(mem, vreg[half.reg], half.at) = [j \in Lanes |-> mem[Word(half.at) + j]]
    BY <1>1, <2>1, SecondLoad DEF IInv, HalfMoved
  <2>3. FullReg = [vreg EXCEPT ![half.reg] = LoadedRight(mem, vreg[half.reg], half.at)]
    BY <2>1, <2>2 DEF FullReg
  <2>4. half'.op = NoHalf
    BY <1>7 DEF Lvr, IInv, TypeOK
  <2> QED
    BY <1>7, <2>1, <2>3, <2>4 DEF Lvr, FullReg, FullMem
<1>8. CASE Svr
  <2>1. half.at \in Addresses /\ half.reg \in Quads /\ half.op = "svr"
    BY <1>1, <1>8 DEF Svr
  <2>2. StoredRight(mem, vreg[half.reg], half.at) = FullMem
    BY <1>1, <2>1, SecondStore DEF IInv, HalfMoved, FullMem
  <2>3. half'.op = NoHalf
    BY <1>8 DEF Svr, IInv, TypeOK
  <2> QED
    BY <1>8, <2>1, <2>2, <2>3 DEF Svr, FullReg, FullMem
<1>9. ASSUME NEW r \in Quads, NEW j \in Lanes, NEW v \in Values, Compute(r, j, v)
      PROVE  Atomic!Next
  <2>1. Atomic!Compute(r, j, v)
    BY <1>9 DEF Compute, Atomic!Compute, FullMem, FullReg
  <2> QED
    BY <1>2, <2>1 DEF Atomic!Next
<1>10. CASE UNCHANGED vars
  BY <1>10 DEF vars, FullMem, FullReg
<1> QED
  BY <1>3, <1>4, <1>5, <1>6, <1>7, <1>8, <1>9, <1>10 DEF Next

\* The pairs ulv.q and usv.q implement single moves of a quad, at any address.
THEOREM PairsImplementQuads == Spec => ImplementsQuad
BY Invariance, InitRefines, StepRefines, PTL DEF Spec, ImplementsQuad, Atomic!Spec
=============================================================================
