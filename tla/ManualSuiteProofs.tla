------------------------- MODULE ManualSuiteProofs -------------------------
(***************************************************************************)
(* For any consoles, inputs and numbers of interrupts: the variables of    *)
(* the manual test program stay within their types; it prints every error  *)
(* its checks have found, once and in order; the checks of the control     *)
(* registers fail just where an interrupt came between vcmp and mfvc, and  *)
(* no vcmp works on values another test left; the check of the load bug    *)
(* reports nothing but loads that deviate, and all of them; and the check  *)
(* of delay slots exactly the programs whose transfers take effect in      *)
(* another order than the source expects.                                  *)
(***************************************************************************)
EXTENDS ManualSuite, SequenceTheorems, TLAPS

-----------------------------------------------------------------------------
(* Sequences.                                                               *)

IsSequence(s) == s \in Seq(Range(s))

LEMMA SequenceOf == ASSUME NEW S, NEW s \in Seq(S) PROVE IsSequence(s)
BY SeqOfRange DEF IsSequence

\* Appending makes a sequence, whatever is appended.
LEMMA AppendSequence ==
  ASSUME NEW s, IsSequence(s), NEW e
  PROVE  IsSequence(Append(s, e))
<1> DEFINE S == Range(s) \cup {e}
<1>1. s \in Seq(S) /\ e \in S
  BY SeqMonotonic DEF IsSequence
<1>2. Append(s, e) \in Seq(S)
  BY <1>1, AppendProperties
<1> QED BY <1>2, SequenceOf

\* So does concatenation, of which this is the length and the elements.
LEMMA ConcatSequence ==
  ASSUME NEW s, IsSequence(s), NEW t, IsSequence(t)
  PROVE  /\ IsSequence(s \o t)
         /\ Len(s) \in Nat /\ Len(t) \in Nat /\ Len(s \o t) = Len(s) + Len(t)
         /\ \A k \in 1..Len(s) + Len(t) :
              (s \o t)[k] = IF k <= Len(s) THEN s[k] ELSE t[k - Len(s)]
<1> DEFINE S == Range(s) \cup Range(t)
<1>1. s \in Seq(S) /\ t \in Seq(S)
  BY SeqMonotonic DEF IsSequence
<1>2. s \o t \in Seq(S)
  BY <1>1, ConcatProperties
<1> HIDE DEF S
<1> QED BY <1>1, <1>2, SequenceOf, ConcatProperties, LenProperties

LEMMA ConcatRange ==
  ASSUME NEW s, IsSequence(s), NEW t, IsSequence(t)
  PROVE  Range(s \o t) = Range(s) \cup Range(t)
<1> DEFINE S == Range(s) \cup Range(t)
<1>1. s \in Seq(S) /\ t \in Seq(S)
  BY SeqMonotonic DEF IsSequence
<1> HIDE DEF S
<1> QED BY <1>1, RangeConcatenation

LEMMA AppendRange ==
  ASSUME NEW s, IsSequence(s), NEW e
  PROVE  Range(Append(s, e)) = Range(s) \cup {e}
<1> DEFINE S == Range(s) \cup {e}
<1>1. s \in Seq(S) /\ e \in S
  BY SeqMonotonic DEF IsSequence
<1> HIDE DEF S
<1>2. s \in Seq(S) /\ Len(s) \in Nat /\ DOMAIN s = 1..Len(s)
  BY <1>1, LenProperties
<1>3. /\ DOMAIN Append(s, e) = 1..Len(s) + 1
      /\ \A k \in 1..Len(s) : Append(s, e)[k] = s[k]
      /\ Append(s, e)[Len(s) + 1] = e
  <2>1. Len(Append(s, e)) = Len(s) + 1 /\ Append(s, e) \in Seq(S)
    BY <1>1, AppendProperties
  <2> QED BY <1>1, <2>1, AppendProperties, LenProperties
<1>4. 1..Len(s) + 1 = 1..Len(s) \cup {Len(s) + 1}
  BY <1>2
<1> QED BY <1>2, <1>3, <1>4 DEF Range

LEMMA SameSequence ==
  ASSUME NEW s, IsSequence(s), NEW t, IsSequence(t), Len(s) = Len(t),
         \A k \in 1..Len(s) : s[k] = t[k]
  PROVE  s = t
<1> DEFINE S == Range(s) \cup Range(t)
<1>1. s \in Seq(S) /\ t \in Seq(S)
  BY SeqMonotonic DEF IsSequence
<1> HIDE DEF S
<1> QED BY <1>1, SeqEqual

\* A function on 1..n is a sequence of that length.
LEMMA FunctionSequence ==
  ASSUME NEW n \in Nat, NEW s, DOMAIN s = 1..n, s = [k \in 1..n |-> s[k]]
  PROVE  IsSequence(s) /\ Len(s) = n
<1>1. s \in [1..n -> Range(s)]
  BY DEF Range
<1>2. s \in Seq(Range(s))
  BY <1>1, SeqDef
<1> QED BY <1>2, LenProperties DEF IsSequence

-----------------------------------------------------------------------------
(* The arrays.                                                              *)

\* The entries of an array that are in use.
InUse(array, n) == [k \in 1..n |-> Entry(array, k-1)]

LEMMA InUseSequence ==
  ASSUME NEW array, NEW n \in Nat
  PROVE  IsSequence(InUse(array, n)) /\ Len(InUse(array, n)) = n
BY FunctionSequence DEF InUse

\* A check that fills in its errors where those in use end adds them to these.
LEMMA FilledInUse ==
  ASSUME NEW array, NEW n \in Nat, DOMAIN array = 0..n-1,
         NEW list, IsSequence(list)
  PROVE  /\ DOMAIN Filled(array, n, list) = 0..n + Len(list) - 1
         /\ InUse(Filled(array, n, list), n + Len(list)) = InUse(array, n) \o list
<1> DEFINE l == Len(list)
           new == Filled(array, n, list)
<1>1. l \in Nat
  BY LenProperties DEF IsSequence
<1>2. DOMAIN new = 0..n + l - 1
  BY <1>1 DEF Filled
<1>3. /\ IsSequence(InUse(array, n)) /\ Len(InUse(array, n)) = n
      /\ IsSequence(InUse(new, n + l)) /\ Len(InUse(new, n + l)) = n + l
  BY <1>1, InUseSequence, n + l \in Nat
<1>4. ASSUME NEW k \in 1..n + l PROVE InUse(new, n + l)[k] = (InUse(array, n) \o list)[k]
  <2>1. InUse(new, n + l)[k] = new[k-1]
    BY <1>1, <1>2 DEF InUse, Entry
  <2>2. new[k-1] = IF k-1 >= n THEN list[k - n] ELSE array[k-1]
    BY <1>1, <1>2 DEF Filled
  <2>3. k <= n => InUse(array, n)[k] = array[k-1]
    BY <1>1 DEF InUse, Entry
  <2>4. (InUse(array, n) \o list)[k] = IF k <= n THEN InUse(array, n)[k] ELSE list[k - n]
    BY <1>1, <1>3, ConcatSequence
  <2> HIDE DEF new
  <2> QED BY <1>1, <2>1, <2>2, <2>3, <2>4
<1>5. InUse(new, n + l) = InUse(array, n) \o list
  <2> DEFINE u == InUse(new, n + l)
             v == InUse(array, n) \o list
  <2>1. IsSequence(u) /\ IsSequence(v) /\ Len(u) = n + l /\ Len(v) = n + l
    BY <1>3, ConcatSequence
  <2>2. \A k \in 1..Len(u) : u[k] = v[k]
    BY <1>4, <2>1
  <2> HIDE DEF u, v
  <2>3. u = v
    BY <2>1, <2>2, SameSequence
  <2> QED BY <2>3 DEF u, v
<1> QED BY <1>2, <1>5

-----------------------------------------------------------------------------
(* The checks: each adds to its own list of errors.                         *)

LEMMA ControlReports ==
  ASSUME IsSequence(errs), RunControl
  PROVE  IsSequence(errs') /\ UNCHANGED mainVars
<1>1. errs' = errs \/ errs' = Append(errs, pc)
  BY DEF RunControl, Control!Next, Control!ExecVpfx, Control!ExecVector, Control!ExecVnop,
         Control!ExecVcmp, Control!ExecMtvc, Control!ExecMfvc, Control!readrndreg,
         Control!ExecBranch, Control!Check, Control!RetErr, Control!SetInterrupts,
         Control!Interrupt
<1> QED BY <1>1, AppendSequence DEF RunControl

LEMMA LoadBugReports ==
  ASSUME IsSequence(errs), RunLoadBug
  PROVE  IsSequence(errs') /\ UNCHANGED mainVars
<1>1. \A op : IsSequence(Bug!Wrong(op))
  <2> TAKE op
  <2>1. IsSequence(<<>>) /\ IsSequence(<<<<op, load>>>>)
    BY SequenceOf, <<>> \in Seq({}), <<<<op, load>>>> \in Seq({<<op, load>>})
  <2> QED BY <2>1 DEF Bug!Wrong
<1>2. \/ errs' = errs
      \/ errs' = errs \o Bug!Wrong("lvl") \o Bug!Wrong("lvr") \o Bug!Wrong("ulv")
  BY DEF RunLoadBug, Bug!Next, Bug!Fill, Bug!Interrupt, Bug!Load, Bug!Save, Bug!Accumulate,
         Bug!NextRun, Bug!Compare
<1> QED BY <1>1, <1>2, ConcatSequence DEF RunLoadBug

LEMMA FpuReports ==
  ASSUME IsSequence(errs), RunFpu
  PROVE  IsSequence(errs') /\ UNCHANGED mainVars
<1>1. errs' = errs \/ errs' = Append(errs, Fpu!i.report)
  BY DEF RunFpu, Fpu!Next, Fpu!Draw, Fpu!ExecWrite, Fpu!Interrupt, Fpu!ExecRead,
         Fpu!ExecMatch, Fpu!ExecDiffer, Fpu!LeaveBlock
<1> QED BY <1>1, AppendSequence DEF RunFpu

LEMMA DelayReports ==
  ASSUME IsSequence(errs), RunDelay
  PROVE  IsSequence(errs') /\ UNCHANGED mainVars
<1>1. errs' = errs \/ errs' = Append(errs, prog)
  BY DEF RunDelay, Slot!Next, Slot!Start, Slot!Cycle, Slot!Interrupt, Slot!Judge
<1> QED BY <1>1, AppendSequence DEF RunDelay

-----------------------------------------------------------------------------
(* main                                                                     *)

\* What the checks have found is what the arrays hold, those of the sanity
\* checks first: the second array is empty until the last of them returns.
KeptInv ==
  /\ check \in 1..11
  /\ IsSequence(errs)
  /\ checkcnt \in Nat /\ nerrs \in Nat
  /\ DOMAIN check_info = 0..checkcnt-1 /\ DOMAIN err_info = 0..nerrs-1
  /\ check \in Sanity => nerrs = 0
  /\ found = InUse(check_info, checkcnt) \o InUse(err_info, nerrs)
  /\ check > 10 => printed = found

LEMMA ChecksCount == Len(Checks) = 9
BY DEF Checks

LEMMA KeptStart == Init => KeptInv
<1> SUFFICES ASSUME Init PROVE KeptInv
  OBVIOUS
<1>1. IsSequence(errs)
  BY SequenceOf, <<>> \in Seq({}) DEF Init, Control!Init
<1>2. DOMAIN check_info = 0..checkcnt-1 /\ DOMAIN err_info = 0..nerrs-1
  BY DEF Init
<1>3. found = InUse(check_info, checkcnt) \o InUse(err_info, nerrs)
  BY DEF Init, InUse
<1> QED BY <1>1, <1>2, <1>3 DEF Init, KeptInv

LEMMA KeptReturn == KeptInv /\ Return => KeptInv'
<1> SUFFICES ASSUME KeptInv, Return PROVE KeptInv'
  OBVIOUS
<1>1. check \in 1..9 /\ check' = check + 1
  BY ChecksCount DEF Return, KeptInv
<1>2. IsSequence(errs')
  BY SequenceOf, <<>> \in Seq({}) DEF Return
<1>3. PICK list \in Returned :
        /\ found' = found \o Tagged(list)
        /\ IF check \in Sanity
           THEN /\ check_info' = Filled(check_info, checkcnt, Tagged(list))
                /\ checkcnt' = checkcnt + Len(list)
                /\ UNCHANGED <<err_info, nerrs>>
           ELSE /\ err_info' = Filled(err_info, nerrs, Tagged(list))
                /\ nerrs' = nerrs + Len(list)
                /\ UNCHANGED <<check_info, checkcnt>>
  BY DEF Return
<1> DEFINE tagged == Tagged(list)
           first  == InUse(check_info, checkcnt)
           second == InUse(err_info, nerrs)
<1>4. Len(list) \in Nat /\ IsSequence(tagged) /\ Len(tagged) = Len(list)
  <2>1. IsSequence(list)
    <3>1. IsSequence(<<>>) /\ IsSequence(<<Other>>)
      BY SequenceOf, <<>> \in Seq({}), <<Other>> \in Seq({Other})
    <3> QED BY <3>1 DEF Returned, KeptInv
  <2>2. Len(list) \in Nat /\ DOMAIN list = 1..Len(list)
    BY <2>1, LenProperties DEF IsSequence
  <2> QED BY <2>2, FunctionSequence DEF Tagged
<1>5. IsSequence(first) /\ IsSequence(second)
  BY InUseSequence DEF KeptInv
<1>a. /\ first' = InUse(check_info', checkcnt')
      /\ second' = InUse(err_info', nerrs')
  BY DEF InUse, Entry
<1>b. /\ checkcnt \in Nat /\ DOMAIN check_info = 0..checkcnt-1
      /\ nerrs \in Nat /\ DOMAIN err_info = 0..nerrs-1
      /\ found = first \o second
  BY DEF KeptInv
<1> HIDE DEF tagged
<1>6. CASE check \in Sanity
  <2>1. nerrs = 0 /\ UNCHANGED <<err_info, nerrs>>
    BY <1>3, <1>6 DEF KeptInv
  <2>2. second = <<>> /\ second' = <<>>
    BY <2>1 DEF InUse
  <2>3. checkcnt' = checkcnt + Len(tagged) /\ check_info' = Filled(check_info, checkcnt, tagged)
    BY <1>3, <1>4, <1>6 DEF tagged
  <2>4. /\ DOMAIN check_info' = 0..checkcnt'-1
        /\ first' = first \o tagged
    <3>1. /\ DOMAIN Filled(check_info, checkcnt, tagged) = 0..checkcnt + Len(tagged) - 1
          /\ InUse(Filled(check_info, checkcnt, tagged), checkcnt + Len(tagged)) = first \o tagged
      BY <1>4, FilledInUse DEF KeptInv
    <3>2. DOMAIN check_info' = 0..checkcnt'-1
      BY <1>4, <1>b, <2>3, <3>1
    <3>3. InUse(check_info', checkcnt') = first \o tagged
      BY <2>3, <3>1
    <3>4. first' = first \o tagged
      BY <1>a, <3>3
    <3> QED BY <3>2, <3>4
  <2>5. found' = (first \o second) \o tagged
    BY <1>3 DEF KeptInv, tagged, first
  <2>6. /\ first \o second = first /\ first' \o second' = first'
    <3>1. IsSequence(first \o tagged)
      BY <1>4, <1>5, ConcatSequence
    <3> QED BY <1>5, <2>2, <2>4, <3>1, ConcatEmptySeq DEF IsSequence
  <2>7. found' = first' \o second'
    BY <2>4, <2>5, <2>6
  <2>8. checkcnt' \in Nat /\ nerrs' = 0 /\ nerrs' \in Nat /\ DOMAIN err_info' = 0..nerrs'-1
    BY <1>4, <1>b, <2>1, <2>3
  <2>9. check' \in 1..11 /\ ~(check' > 10)
    BY <1>1
  <2> QED BY <1>2, <2>4, <2>7, <2>8, <2>9 DEF KeptInv
<1>7. CASE check \notin Sanity
  <2>1. UNCHANGED <<check_info, checkcnt>> /\ first' = first
    BY <1>3, <1>7 DEF InUse, Entry
  <2>2. nerrs' = nerrs + Len(tagged) /\ err_info' = Filled(err_info, nerrs, tagged)
    BY <1>3, <1>4, <1>7 DEF tagged
  <2>3. /\ DOMAIN err_info' = 0..nerrs'-1
        /\ second' = second \o tagged
    <3>1. /\ DOMAIN Filled(err_info, nerrs, tagged) = 0..nerrs + Len(tagged) - 1
          /\ InUse(Filled(err_info, nerrs, tagged), nerrs + Len(tagged)) = second \o tagged
      BY <1>4, <1>b, FilledInUse
    <3>2. DOMAIN err_info' = 0..nerrs'-1
      BY <1>4, <1>b, <2>2, <3>1
    <3>3. InUse(err_info', nerrs') = second \o tagged
      BY <2>2, <3>1
    <3>4. second' = second \o tagged
      BY <1>a, <3>3
    <3> QED BY <3>2, <3>4
  <2>4. found' = (first \o second) \o tagged
    BY <1>3 DEF KeptInv, tagged
  <2>5. (first \o second) \o tagged = first \o (second \o tagged)
    <3> DEFINE S == Range(first) \cup Range(second) \cup Range(tagged)
    <3>1. first \in Seq(S) /\ second \in Seq(S) /\ tagged \in Seq(S)
      BY <1>4, <1>5, SeqMonotonic DEF IsSequence
    <3> HIDE DEF S, first, second
    <3> QED BY <3>1, ConcatAssociative
  <2>6. found' = first' \o second'
    BY <2>1, <2>3, <2>4, <2>5
  <2>7. check' \notin Sanity
    BY <1>1, <1>7 DEF Sanity
  <2>8. checkcnt' \in Nat /\ nerrs' \in Nat /\ DOMAIN check_info' = 0..checkcnt'-1
    BY <1>4, <1>b, <2>1, <2>2
  <2>9. check' \in 1..11 /\ ~(check' > 10)
    BY <1>1
  <2> QED BY <1>2, <2>3, <2>6, <2>7, <2>8, <2>9 DEF KeptInv
<1> QED BY <1>6, <1>7

LEMMA KeptReport == KeptInv /\ Report => KeptInv'
<1> SUFFICES ASSUME KeptInv, Report PROVE KeptInv'
  OBVIOUS
<1>1. check = 10 /\ check' = 11
  BY ChecksCount DEF Report
<1>2. UNCHANGED <<errs, check_info, err_info, checkcnt, nerrs, found>>
  BY DEF Report, runVars
<1>3. printed' = InUse(check_info, checkcnt) \o InUse(err_info, nerrs)
  BY DEF Report, InUse
<1> QED BY <1>1, <1>2, <1>3 DEF KeptInv, InUse, Entry, Sanity

LEMMA KeptRuns ==
  ASSUME KeptInv, RunControl \/ RunLoadBug \/ RunFpu \/ RunDelay
  PROVE  KeptInv'
<1>1. IsSequence(errs') /\ UNCHANGED mainVars
  BY ControlReports, LoadBugReports, FpuReports, DelayReports DEF KeptInv
<1> QED BY <1>1 DEF KeptInv, mainVars, InUse, Entry

LEMMA KeptAlways == Spec => []KeptInv
<1>1. KeptInv /\ [Next]_vars => KeptInv'
  <2>1. KeptInv /\ UNCHANGED vars => KeptInv'
    BY DEF vars, runVars, mainVars, KeptInv, InUse, Entry
  <2> QED BY <2>1, KeptRuns, KeptReturn, KeptReport DEF Next
<1> QED BY <1>1, KeptStart, PTL DEF Spec

\* What is printed at the end is what the checks have found, each error once,
\* in order and under its own check, however many errors each check returns
\* (ReportsKept, main.c 116-143).
THEOREM AllPrinted == Spec => []ReportsKept
<1>1. KeptInv => ReportsKept
  BY ChecksCount DEF KeptInv, ReportsKept
<1> QED BY <1>1, KeptAlways, PTL

-----------------------------------------------------------------------------
(* Arithmetic of the load bug.                                              *)

\* A quotient and a remainder that fit are the quotient and the remainder.
LEMMA DivUnique ==
  ASSUME NEW d \in Nat \ {0}, NEW a \in Nat, NEW r \in 0..d-1
  PROVE  (d * a + r) % d = r /\ (d * a + r) \div d = a
<1> DEFINE n == d * a + r
           e == n \div d - a
<1>1. n \in Nat /\ d * a \in Nat
  BY SMT
<1>2. n = d * (n \div d) + (n % d) /\ (n % d) \in 0..d-1 /\ n \div d \in Int
  BY <1>1, SMT
<1>3. e \in Int /\ d * e = r - (n % d)
  BY <1>2, SMT
<1>4. n \div d = a
  <2>1. d * e < d /\ d * e > -d
    BY <1>2, <1>3, SMT
  <2>2. e >= 1 => d * e >= d
    BY <1>3, SMT
  <2>3. e <= -1 => d * e <= -d
    BY <1>3, SMT
  <2> QED BY <1>2, <1>3, <2>1, <2>2, <2>3, SMT
<1> QED BY <1>2, <1>3, <1>4, SMT

\* Neighbours have different remainders.
LEMMA NextRemainder ==
  ASSUME NEW d \in Nat, d > 1, NEW n \in Nat
  PROVE  (n % d) # ((n + 1) % d) /\ (n % d) \in 0..d-1
<1> DEFINE a == n \div d
           b == (n + 1) \div d
           e == b - a
<1>1. /\ a \in Int /\ (n % d) \in 0..d-1 /\ n = d * a + (n % d)
      /\ b \in Int /\ ((n + 1) % d) \in 0..d-1 /\ n + 1 = d * b + ((n + 1) % d)
  BY SMT
<1>2. ASSUME (n % d) = ((n + 1) % d) PROVE FALSE
  <2>1. e \in Int /\ d * e = 1
    BY <1>1, <1>2, SMT
  <2>2. e >= 1 => d * e >= d
    BY <2>1, SMT
  <2>3. e <= 0 => d * e <= 0
    BY <2>1, SMT
  <2> QED BY <2>1, <2>2, <2>3, SMT
<1> QED BY <1>1, <1>2

-----------------------------------------------------------------------------
(* The loads of a repetition.                                               *)

Fpr   == Bug!Fpr
Quads == Bug!Quads
Insts == Bug!Insts
Q     == 2 * Fprs

\* Their order.
Place(op, q) == CASE op = "lvl" -> q [] op = "lvr" -> Q + q [] op = "ulv" -> 2 * Q + q

LEMMA Sizes ==
  /\ Fprs \in Nat \ {0} /\ Repeats \in Nat \ {0} /\ MaxErrs \in Nat \ {0} /\ MaxInterrupts \in Nat
  /\ Q \in Nat \ {0} /\ Quads = 0..Q-1 /\ Fpr = 0..Fprs-1
  /\ Bug!Run = 3 * Q /\ Len(Bug!Loads) = 3
<1>1. Len(Bug!Loads) = 3
  BY DEF Bug!Loads
<1> QED BY <1>1, ConstantsAssumption DEF Q, Quads, Bug!Quads, Fpr, Bug!Fpr, Bug!Run

\* Every number below Run is the place of one load.
LEMMA Places ==
  /\ \A op \in Insts, q \in Quads : Place(op, q) \in 0..Bug!Run-1
  /\ \A o, op \in Insts, p, q \in Quads : Place(o, p) = Place(op, q) => o = op /\ p = q
<1>1. \A q : Place("lvl", q) = q /\ Place("lvr", q) = Q + q /\ Place("ulv", q) = 2 * Q + q
  BY DEF Place
<1> HIDE DEF Q
<1>2. ASSUME NEW op \in Insts, NEW q \in Quads PROVE Place(op, q) \in 0..Bug!Run-1
  BY <1>1, Sizes DEF Insts, Bug!Insts
<1>3. ASSUME NEW o \in Insts, NEW op \in Insts, NEW p \in Quads, NEW q \in Quads,
             Place(o, p) = Place(op, q)
      PROVE  o = op /\ p = q
  <2>1. CASE o = "lvl"
    BY <1>1, <1>3, <2>1, Sizes DEF Insts, Bug!Insts
  <2>2. CASE o = "lvr"
    BY <1>1, <1>3, <2>2, Sizes DEF Insts, Bug!Insts
  <2>3. CASE o = "ulv"
    BY <1>1, <1>3, <2>3, Sizes DEF Insts, Bug!Insts
  <2> QED BY <2>1, <2>2, <2>3 DEF Insts, Bug!Insts
<1> QED BY <1>2, <1>3

\* The load that is made is the one in its place.
LEMMA LoadPlace ==
  ASSUME NEW k \in Nat, NEW x \in 0..Bug!Run-1, load = k * Bug!Run + x
  PROVE  Bug!inst \in Insts /\ Bug!quad \in Quads /\ Place(Bug!inst, Bug!quad) = x
<1>1. PICK j \in 0..2, q \in 0..Q-1 : x = Q * j + q
  <2>1. x < Q => x = Q * 0 + x /\ x \in 0..Q-1
    BY Sizes
  <2>2. x >= Q /\ x < 2 * Q => x = Q * 1 + (x - Q) /\ x - Q \in 0..Q-1
    BY Sizes
  <2>3. x >= 2 * Q => x = Q * 2 + (x - 2 * Q) /\ x - 2 * Q \in 0..Q-1
    BY Sizes
  <2> QED BY <2>1, <2>2, <2>3, Sizes
<1>2. load = Q * (3 * k + j) + q
  <2>1. Q \in Nat /\ load = k * (3 * Q) + (Q * j + q)
    BY <1>1, Sizes
  <2> QED BY <2>1, SMT
<1>3. load % Q = q /\ load \div Q = 3 * k + j
  <2> DEFINE a == 3 * k + j
  <2>1. a \in Nat /\ load = Q * a + q
    BY <1>2
  <2> HIDE DEF a
  <2>2. (Q * a + q) % Q = q /\ (Q * a + q) \div Q = a
    BY <1>1, <2>1, Sizes, DivUnique
  <2> QED BY <2>1, <2>2 DEF a
<1>4. ((load \div Q) % 3) = j
  BY <1>3, DivUnique, SMT
<1>5. Bug!quad = q /\ Bug!inst = Bug!Loads[j + 1]
  BY <1>3, <1>4, Sizes DEF Bug!quad, Bug!inst, Q
<1>6. CASE j = 0
  BY <1>1, <1>5, <1>6, Sizes DEF Bug!Loads, Insts, Bug!Insts, Place
<1>7. CASE j = 1
  BY <1>1, <1>5, <1>7, Sizes DEF Bug!Loads, Insts, Bug!Insts, Place
<1>8. CASE j = 2
  BY <1>1, <1>5, <1>8, Sizes DEF Bug!Loads, Insts, Bug!Insts, Place
<1> QED BY <1>6, <1>7, <1>8

\* The repetition ends after the load in the last place.
LEMMA RunEnds ==
  ASSUME NEW k \in Nat, NEW x \in 0..Bug!Run-1
  PROVE  (k * Bug!Run + x + 1) % Bug!Run = 0 <=> x = Bug!Run - 1
<1>1. Bug!Run \in Nat \ {0}
  BY Sizes
<1>2. \A a \in Nat, r \in 0..Bug!Run-1 : (Bug!Run * a + r) % Bug!Run = r
  BY <1>1, DivUnique
<1>3. CASE x = Bug!Run - 1
  <2>1. k * Bug!Run + x + 1 = Bug!Run * (k + 1) + 0
    BY <1>1, <1>3, SMT
  <2>2. (Bug!Run * (k + 1) + 0) % Bug!Run = 0
    BY <1>1, <1>2, k + 1 \in Nat, 0 \in 0..Bug!Run-1
  <2> QED BY <1>3, <2>1, <2>2
<1>4. CASE x # Bug!Run - 1
  <2>1. k * Bug!Run + x + 1 = Bug!Run * k + (x + 1) /\ x + 1 \in 0..Bug!Run-1
    BY <1>1, <1>4, SMT
  <2>2. (Bug!Run * k + (x + 1)) % Bug!Run = x + 1 /\ x + 1 # 0
    BY <1>2, <2>1
  <2> QED BY <1>4, <2>1, <2>2
<1> QED BY <1>3, <1>4

-----------------------------------------------------------------------------
(* The repetitions. The check marks the FPU register after the one a load   *)
(* should corrupt last, so that the others show what is done to them; an    *)
(* interrupt may hide that from one repetition, and they cannot do so from  *)
(* all: the invariant counts the interrupts against the repetitions.        *)

\* What a load of q corrupts and the check can see.
Visible(q) == Bug!Corrupts(q) \ {(q + 1) % Fprs}

Changed == {f \in Fpr : fpr[f] # f}

\* If a load has not shown all that it does in the masks, nor in more, there
\* were at least n interrupts.
Noted(op, q, more, n) == Visible(q) \ (maskres[op][q] \cup more) # {} => interrupts >= n

\* k repetitions are complete, and of the next one the loads in places below x.
Repeated(k, x) ==
  \A op \in Insts, q \in Quads :
    /\ Noted(op, q, {}, k)
    /\ Place(op, q) < x => /\ res[op][q] \subseteq Bug!Corrupts(q)
                           /\ Noted(op, q, res[op][q], k + 1)

Loading(k) ==
  /\ step = "load" =>
       /\ fpr = Bug!Marked
       /\ moved # (Bug!quad + 1) % Fprs => Noted(Bug!inst, Bug!quad, {}, k + 1)
  /\ step = "save" =>
       /\ Changed \subseteq Bug!Corrupts(Bug!quad)
       /\ Noted(Bug!inst, Bug!quad, Changed, k + 1)

\* The quad registers below n have been compared.
Reported(n) ==
  Range(errs) = {e \in Insts \X Quads : e[2] < n /\ maskres[e[1]][e[2]] # Bug!Expected(e[2])}

Masks == [Insts -> [Quads -> SUBSET Fpr]]

LoopInv ==
  /\ step \in {"fill", "load", "save", "accumulate", "compare", "done"}
  /\ step \in {"fill", "load", "save"} =>
       \E k \in 0..Repeats-1, x \in 0..Bug!Run-1 :
         load = k * Bug!Run + x /\ Repeated(k, x) /\ Loading(k)
  /\ step = "accumulate" =>
       \E k \in 0..Repeats-1 : load = (k + 1) * Bug!Run /\ Repeated(k, Bug!Run)

CompareInv ==
  /\ IsSequence(errs)
  /\ step \in {"fill", "load", "save", "accumulate"} => errs = <<>>
  /\ step \in {"compare", "done"} =>
       /\ load \in Quads
       /\ \A op \in Insts, q \in Quads : Visible(q) \subseteq maskres[op][q]
  /\ step = "compare" => Reported(load) /\ Len(errs) < MaxErrs
  /\ step = "done" => /\ Reported(load + 1) /\ Len(errs) < MaxErrs + 3
                      /\ Len(errs) >= MaxErrs \/ load = Q - 1

MasksInv ==
  /\ interrupts \in 0..MaxInterrupts
  /\ res \in Masks /\ maskres \in Masks
  /\ \A op \in Insts, q \in Quads : maskres[op][q] \subseteq Bug!Corrupts(q)

BugInv == MasksInv /\ LoopInv /\ CompareInv

\* What the loads do is in the console and does not change.
LEMMA SameConsole ==
  ASSUME hw' = hw
  PROVE  \A q : /\ Bug!Corrupts(q)' = Bug!Corrupts(q) /\ Visible(q)' = Visible(q)
                /\ Bug!Expected(q)' = Bug!Expected(q)
BY DEF Bug!Corrupts, Bug!Expected, Visible

LEMMA CorruptsFpr ==
  ASSUME hw \in Consoles, NEW q \in Quads
  PROVE  Bug!Corrupts(q) \subseteq Fpr /\ \E f \in Fpr : Bug!Corrupts(q) \subseteq {f}
<1>1. hw.corrupts \in {"none", "own", "next", "far", "first"}
  BY ConsolesAssumption DEF Bug!Effects
<1>2. q % Fprs \in Fpr /\ ((q + 1) % Fprs) \in Fpr /\ ((q + 2) % Fprs) \in Fpr /\ 0 \in Fpr
  BY Sizes
<1> QED BY <1>1, <1>2 DEF Bug!Corrupts

LEMMA BugFill ==
  ASSUME BugInv, hw \in Consoles, Bug!Fill, hw' = hw
  PROVE  BugInv'
<1>1. /\ step = "fill" /\ step' = "load"
      /\ fpr' = Bug!Marked /\ moved' = (Bug!quad + 1) % Fprs
      /\ UNCHANGED <<load, res, maskres, errs, interrupts>>
  BY DEF Bug!Fill
<1>2. PICK k \in 0..Repeats-1, x \in 0..Bug!Run-1 :
        load = k * Bug!Run + x /\ Repeated(k, x) /\ Loading(k)
  BY <1>1 DEF BugInv, LoopInv
<1>3. Repeated(k, x)'
  BY <1>1, <1>2, SameConsole DEF Repeated, Noted
<1>4. Loading(k)'
  BY <1>1 DEF Loading, Bug!Marked, Bug!quad
<1>5. LoopInv'
  BY <1>1, <1>2, <1>3, <1>4 DEF LoopInv
<1>6. MasksInv' /\ CompareInv'
  BY <1>1, SameConsole DEF BugInv, MasksInv, CompareInv, IsSequence
<1> QED BY <1>5, <1>6 DEF BugInv

\* The interrupt that may hide a load from this repetition is counted.
LEMMA BugInterrupt ==
  ASSUME BugInv, hw \in Consoles, Bug!Interrupt, hw' = hw
  PROVE  BugInv'
<1>1. /\ step = "load" /\ step' = "load" /\ interrupts < MaxInterrupts
      /\ interrupts' = interrupts + 1 /\ interrupts \in 0..MaxInterrupts
      /\ UNCHANGED <<load, fpr, res, maskres, errs>>
  BY DEF Bug!Interrupt, BugInv, MasksInv
<1>2. PICK k \in 0..Repeats-1, x \in 0..Bug!Run-1 :
        load = k * Bug!Run + x /\ Repeated(k, x) /\ Loading(k)
  BY <1>1 DEF BugInv, LoopInv
<1>3. k \in Nat /\ Bug!inst \in Insts /\ Bug!quad \in Quads
  BY <1>2, LoadPlace
<1>4. Repeated(k, x)'
  BY <1>1, <1>2, <1>3, SameConsole DEF Repeated, Noted
<1>5. Loading(k)'
  <2>1. Noted(Bug!inst, Bug!quad, {}, k)
    BY <1>2, <1>3 DEF Repeated
  <2>2. Bug!inst' = Bug!inst /\ Bug!quad' = Bug!quad /\ Visible(Bug!quad)' = Visible(Bug!quad)
    BY <1>1, SameConsole DEF Bug!inst, Bug!quad, Visible, Bug!Corrupts
  <2>3. Visible(Bug!quad) \ (maskres[Bug!inst][Bug!quad] \cup {}) # {} => interrupts' >= k + 1
    BY <1>1, <1>3, <2>1 DEF Noted
  <2>4. fpr' = Bug!Marked'
    BY <1>1, <1>2 DEF Loading, Bug!Marked
  <2> QED BY <1>1, <2>2, <2>3, <2>4 DEF Loading, Noted
<1>6. LoopInv'
  BY <1>1, <1>2, <1>4, <1>5 DEF LoopInv
<1>7. MasksInv' /\ CompareInv'
  BY <1>1, SameConsole, Sizes DEF BugInv, MasksInv, CompareInv, IsSequence
<1> QED BY <1>6, <1>7 DEF BugInv

\* What the load changes is what the console corrupts, and that is seen unless
\* it is the register that was marked last.
LEMMA BugLoad ==
  ASSUME BugInv, hw \in Consoles, Bug!Load, hw' = hw
  PROVE  BugInv'
<1>1. /\ step = "load" /\ step' = "save"
      /\ fpr' = [f \in Fpr |-> IF f \in Bug!Corrupts(Bug!quad) THEN moved ELSE fpr[f]]
      /\ UNCHANGED <<load, moved, res, maskres, errs, interrupts>>
  BY DEF Bug!Load, Fpr
<1>2. PICK k \in 0..Repeats-1, x \in 0..Bug!Run-1 :
        load = k * Bug!Run + x /\ Repeated(k, x) /\ Loading(k)
  BY <1>1 DEF BugInv, LoopInv
<1>3. k \in Nat /\ Bug!inst \in Insts /\ Bug!quad \in Quads
  BY <1>2, LoadPlace
<1>4. Repeated(k, x)'
  BY <1>1, <1>2, <1>3, SameConsole DEF Repeated, Noted
<1>5. Loading(k)'
  <2> DEFINE c == Bug!Corrupts(Bug!quad)
             v == Visible(Bug!quad)
  <2>1. fpr = [f \in Fpr |-> f]
        /\ (moved # (Bug!quad + 1) % Fprs => Noted(Bug!inst, Bug!quad, {}, k + 1))
    BY <1>1, <1>2 DEF Loading, Bug!Marked, Fpr
  <2>2. Changed' = {f \in c : moved # f}
    <3>1. c \subseteq Fpr
      BY <1>3, CorruptsFpr
    <3>2. \A f \in Fpr : fpr'[f] = IF f \in c THEN moved ELSE f
      BY <1>1, <2>1
    <3> HIDE DEF c
    <3> QED BY <3>1, <3>2 DEF Changed, Fpr, Bug!Fpr
  <2>3. Noted(Bug!inst, Bug!quad, Changed', k + 1)
    <3>1. CASE moved = (Bug!quad + 1) % Fprs
      BY <2>2, <3>1 DEF Noted, Visible
    <3>2. CASE moved # (Bug!quad + 1) % Fprs
      BY <2>1, <3>2 DEF Noted
    <3> QED BY <3>1, <3>2
  <2>4. Bug!inst' = Bug!inst /\ Bug!quad' = Bug!quad /\ c' = c /\ v' = v
    BY <1>1 DEF Bug!inst, Bug!quad, Visible, Bug!Corrupts
  <2> HIDE DEF c, v
  <2>5. Changed' \subseteq c'
    BY <2>2, <2>4
  <2>6. Noted(Bug!inst, Bug!quad, Changed, k + 1)'
    BY <1>1, <2>3, <2>4 DEF Noted, v
  <2> QED BY <1>1, <2>5, <2>6 DEF Loading, c
<1>6. LoopInv'
  BY <1>1, <1>2, <1>4, <1>5 DEF LoopInv
<1>7. MasksInv' /\ CompareInv'
  BY <1>1, SameConsole DEF BugInv, MasksInv, CompareInv, IsSequence
<1> QED BY <1>6, <1>7 DEF BugInv

LEMMA BugSave ==
  ASSUME BugInv, hw \in Consoles, Bug!Save, hw' = hw
  PROVE  BugInv'
<1>1. /\ step = "save" /\ step' = IF load' % Bug!Run = 0 THEN "accumulate" ELSE "fill"
      /\ res' = [res EXCEPT ![Bug!inst][Bug!quad] = Changed]
      /\ load' = load + 1
      /\ UNCHANGED <<fpr, moved, maskres, errs, interrupts>>
  BY DEF Bug!Save, Changed, Fpr
<1>2. PICK k \in 0..Repeats-1, x \in 0..Bug!Run-1 :
        load = k * Bug!Run + x /\ Repeated(k, x) /\ Loading(k)
  BY <1>1 DEF BugInv, LoopInv
<1>3. /\ k \in Nat /\ Bug!inst \in Insts /\ Bug!quad \in Quads
      /\ Place(Bug!inst, Bug!quad) = x
  BY <1>2, LoadPlace
<1>4. /\ \A op \in Insts, q \in Quads :
           res'[op][q] = IF op = Bug!inst /\ q = Bug!quad THEN Changed ELSE res[op][q]
      /\ res' \in Masks
  <2>1. Changed \in SUBSET Fpr
    BY DEF Changed
  <2> QED BY <1>1, <1>3, <2>1 DEF BugInv, MasksInv, Masks
<1>5. Repeated(k, x + 1)'
  <2> SUFFICES ASSUME NEW op \in Insts, NEW q \in Quads
               PROVE  /\ Noted(op, q, {}, k)
                      /\ Place(op, q) < x + 1 =>
                           /\ res'[op][q] \subseteq Bug!Corrupts(q)
                           /\ Noted(op, q, res'[op][q], k + 1)
    BY <1>1, SameConsole DEF Repeated, Noted
  <2>1. CASE op = Bug!inst /\ q = Bug!quad
    BY <1>1, <1>2, <1>4, <2>1 DEF Repeated, Loading
  <2>2. CASE ~(op = Bug!inst /\ q = Bug!quad)
    <3>1. Place(op, q) < x + 1 => Place(op, q) < x
      BY <1>3, <2>2, Places
    <3> QED BY <1>2, <1>4, <2>2, <3>1 DEF Repeated
  <2> QED BY <2>1, <2>2
<1>6. LoopInv'
  <2>1. CASE x = Bug!Run - 1
    <3>1. step' = "accumulate" /\ load' = (k + 1) * Bug!Run
      <4>1. Bug!Run \in Nat /\ load' = k * Bug!Run + x + 1
        BY <1>1, <1>2, Sizes
      <4>2. load' % Bug!Run = 0
        BY <1>2, <2>1, <4>1, RunEnds
      <4> QED BY <1>1, <1>2, <2>1, <4>1, <4>2, SMT
    <3>2. Repeated(k, Bug!Run)'
      BY <1>5, <2>1, Sizes DEF Repeated, Noted
    <3> QED BY <1>1, <3>1, <3>2 DEF LoopInv
  <2>2. CASE x # Bug!Run - 1
    <3>1. load' = k * Bug!Run + (x + 1) /\ x + 1 \in 0..Bug!Run-1
      <4>1. Bug!Run \in Nat
        BY Sizes
      <4> QED BY <1>1, <1>2, <2>2, <4>1, SMT
    <3>2. step' = "fill"
      <4>1. load' = k * Bug!Run + x + 1
        BY <1>1, <1>2
      <4> QED BY <1>1, <1>3, <2>2, <4>1, RunEnds
    <3>3. Loading(k)'
      BY <3>2 DEF Loading
    <3> QED BY <1>5, <3>1, <3>2, <3>3 DEF LoopInv
  <2> QED BY <2>1, <2>2
<1>7. MasksInv'
  BY <1>1, <1>4, SameConsole DEF BugInv, MasksInv, Masks, Fpr, Bug!Fpr
<1>8. CompareInv'
  BY <1>1 DEF BugInv, CompareInv, IsSequence
<1> QED BY <1>6, <1>7, <1>8 DEF BugInv

LEMMA BugAccumulate ==
  ASSUME BugInv, hw \in Consoles, Bug!Accumulate, hw' = hw, Repeats > MaxInterrupts
  PROVE  BugInv'
<1>1. /\ step = "accumulate"
      /\ maskres' = [op \in Insts |-> [q \in Quads |-> maskres[op][q] \cup res[op][q]]]
      /\ res' = [op \in Insts |-> [q \in Quads |-> Fpr]]
      /\ IF load = Repeats * Bug!Run THEN step' = "compare" /\ load' = 0
                                     ELSE step' = "fill" /\ UNCHANGED load
      /\ UNCHANGED <<fpr, moved, errs, interrupts>>
  BY DEF Bug!Accumulate, Bug!NextRun, Bug!Each, Fpr, Insts, Quads
<1>2. PICK k \in 0..Repeats-1 : load = (k + 1) * Bug!Run /\ Repeated(k, Bug!Run)
  BY <1>1 DEF BugInv, LoopInv
<1>3. ASSUME NEW op \in Insts, NEW q \in Quads
      PROVE  /\ maskres'[op][q] \subseteq Bug!Corrupts(q)
             /\ Visible(q) \ maskres'[op][q] # {} => interrupts >= k + 1
  <2>1. Place(op, q) < Bug!Run
    BY Places, Sizes
  <2>2. maskres'[op][q] = maskres[op][q] \cup res[op][q]
    BY <1>1
  <2> QED BY <1>2, <2>1, <2>2 DEF Repeated, Noted, BugInv, MasksInv
<1>4. MasksInv'
  <2>1. res' \in Masks'
    BY <1>1 DEF Masks, Insts, Quads, Fpr, Bug!Insts, Bug!Quads, Bug!Fpr
  <2>2. maskres' \in Masks'
    BY <1>1 DEF Masks, Insts, Quads, Fpr, Bug!Insts, Bug!Quads, Bug!Fpr, BugInv, MasksInv
  <2> QED BY <1>1, <1>3, <2>1, <2>2, SameConsole DEF BugInv, MasksInv
<1>5. CASE load = Repeats * Bug!Run
  <2>1. k + 1 = Repeats
    <3>1. Bug!Run \in Nat \ {0} /\ Repeats \in Nat
      BY Sizes
    <3>2. (Repeats - (k + 1)) * Bug!Run = 0
      BY <1>2, <1>5, <3>1, SMT
    <3> QED BY <3>1, <3>2, SMT
  <2>2. step' = "compare" /\ load' = 0
    BY <1>1, <1>5
  <2>3. \A op \in Insts, q \in Quads : Visible(q)' \subseteq maskres'[op][q]
    <3>1. interrupts < k + 1
      BY <2>1, Sizes DEF BugInv, MasksInv
    <3> QED BY <1>3, <3>1, SameConsole, Sizes DEF BugInv, MasksInv
  <2>4. Reported(0)' /\ Len(errs') < MaxErrs /\ IsSequence(errs')
    <3>1. errs' = <<>>
      BY <1>1 DEF BugInv, CompareInv
    <3>2. {e \in Insts \X Quads : e[2] < 0 /\ maskres'[e[1]][e[2]] # Bug!Expected(e[2])'} = {}
      BY Sizes
    <3>3. Range(errs') = {} /\ Len(errs') < MaxErrs
      BY <3>1, Sizes DEF Range
    <3>4. IsSequence(errs')
      BY <3>1, SequenceOf, <<>> \in Seq({})
    <3>5. Reported(0)'
      BY <3>2, <3>3 DEF Reported, Range, Insts, Quads, Bug!Insts, Bug!Quads
    <3> QED BY <3>3, <3>4, <3>5
  <2>5. 0 \in Quads
    BY Sizes
  <2> QED BY <1>4, <2>2, <2>3, <2>4, <2>5 DEF BugInv, LoopInv, CompareInv, Reported, Range
<1>6. CASE load # Repeats * Bug!Run
  <2>1. step' = "fill" /\ load' = load
    BY <1>1, <1>6
  <2>2. k + 1 \in 0..Repeats-1
    BY <1>2, <1>6, Sizes
  <2>3. load' = (k + 1) * Bug!Run + 0 /\ 0 \in 0..Bug!Run-1
    <3>1. Bug!Run \in Nat \ {0}
      BY Sizes
    <3> QED BY <1>2, <2>1, <3>1, SMT
  <2>4. Repeated(k + 1, 0)'
    <3>1. \A op \in Insts, q \in Quads : ~(Place(op, q) < 0)
      BY Places
    <3> QED BY <1>1, <1>3, <3>1, SameConsole DEF Repeated, Noted
  <2>5. Loading(k + 1)'
    BY <2>1 DEF Loading
  <2>6. LoopInv'
    BY <2>1, <2>2, <2>3, <2>4, <2>5 DEF LoopInv
  <2>7. CompareInv'
    BY <1>1, <2>1 DEF BugInv, CompareInv, IsSequence
  <2> QED BY <1>4, <2>6, <2>7 DEF BugInv
<1> QED BY <1>5, <1>6

\* A comparison reports the loads of its register whose masks are not right.
LEMMA CompareReports ==
  ASSUME IsSequence(errs), Bug!Compare
  PROVE  /\ IsSequence(errs') /\ Len(errs') \in Nat /\ Len(errs') <= Len(errs) + 3
         /\ Range(errs') = Range(errs)
              \cup {e \in Insts \X {load} : maskres[e[1]][load] # Bug!Expected(load)}
<1> DEFINE wrong(op) == maskres[op][load] # Bug!Expected(load)
           one == Bug!Wrong("lvl")
           two == Bug!Wrong("lvr")
           three == Bug!Wrong("ulv")
<1>1. ASSUME NEW op
      PROVE  /\ IsSequence(Bug!Wrong(op)) /\ Len(Bug!Wrong(op)) \in 0..1
             /\ Range(Bug!Wrong(op)) = {e \in {<<op, load>>} : wrong(op)}
  <2>1. IsSequence(<<>>) /\ Len(<<>>) = 0 /\ Range(<<>>) = {}
    <3>1. Len(<<>>) = 0 /\ Range(<<>>) = {}
      BY DEF Range
    <3> QED BY <3>1, SequenceOf, <<>> \in Seq({})
  <2>2. /\ IsSequence(<<<<op, load>>>>) /\ Len(<<<<op, load>>>>) = 1
        /\ Range(<<<<op, load>>>>) = {<<op, load>>}
    <3> DEFINE e == <<op, load>>
    <3> HIDE DEF e
    <3>1. <<e>> \in Seq({e}) /\ Len(<<e>>) = 1 /\ DOMAIN <<e>> = {1} /\ <<e>>[1] = e
      OBVIOUS
    <3>2. Range(<<e>>) = {e}
      BY <3>1 DEF Range
    <3> QED BY <3>1, <3>2, SequenceOf DEF e
  <2>3. CASE wrong(op)
    BY <2>2, <2>3 DEF Bug!Wrong
  <2>4. CASE ~wrong(op)
    BY <2>1, <2>4 DEF Bug!Wrong
  <2> QED BY <2>3, <2>4
<1>2. errs' = ((errs \o one) \o two) \o three
  BY DEF Bug!Compare
<1> HIDE DEF one, two, three
<1>3. /\ IsSequence(errs \o one) /\ Len(errs) \in Nat /\ Len(errs \o one) = Len(errs) + Len(one)
      /\ Range(errs \o one) = Range(errs) \cup Range(one)
  BY <1>1, ConcatSequence, ConcatRange DEF one
<1>4. /\ IsSequence((errs \o one) \o two)
      /\ Len((errs \o one) \o two) = Len(errs) + Len(one) + Len(two)
      /\ Range((errs \o one) \o two) = Range(errs) \cup Range(one) \cup Range(two)
  BY <1>1, <1>3, ConcatSequence, ConcatRange DEF two
<1>5. /\ IsSequence(errs')
      /\ Len(errs') = Len(errs) + Len(one) + Len(two) + Len(three)
      /\ Range(errs') = Range(errs) \cup Range(one) \cup Range(two) \cup Range(three)
  BY <1>1, <1>2, <1>4, ConcatSequence, ConcatRange DEF three
<1>6. Len(errs') \in Nat /\ Len(errs') <= Len(errs) + 3
  <2>1. Len(one) \in 0..1 /\ Len(two) \in 0..1 /\ Len(three) \in 0..1
    BY <1>1 DEF one, two, three
  <2>2. Len(errs) \in Nat
    BY <1>3
  <2>3. Len(errs') = Len(errs) + Len(one) + Len(two) + Len(three)
    BY <1>5
  <2>4. \A a \in Nat, b, c, d \in 0..1 : a + b + c + d \in Nat /\ a + b + c + d <= a + 3
    OBVIOUS
  <2> QED BY <2>1, <2>2, <2>3, <2>4
<1>7. Range(one) \cup Range(two) \cup Range(three) = {e \in Insts \X {load} : wrong(e[1])}
  <2>1. /\ Range(one) = {e \in {<<"lvl", load>>} : wrong("lvl")}
        /\ Range(two) = {e \in {<<"lvr", load>>} : wrong("lvr")}
        /\ Range(three) = {e \in {<<"ulv", load>>} : wrong("ulv")}
    BY <1>1 DEF one, two, three
  <2> DEFINE all == {e \in Insts \X {load} : wrong(e[1])}
  <2> HIDE DEF wrong
  <2>2. ASSUME NEW op \in Insts, wrong(op) PROVE <<op, load>> \in all
    BY <2>2
  <2>3. Range(one) \subseteq all /\ Range(two) \subseteq all /\ Range(three) \subseteq all
    BY <2>1, <2>2 DEF Insts, Bug!Insts
  <2>4. ASSUME NEW e \in all PROVE e \in Range(one) \cup Range(two) \cup Range(three)
    <3>1. PICK op \in Insts : e = <<op, load>> /\ wrong(op)
      OBVIOUS
    <3> QED BY <2>1, <3>1 DEF Insts, Bug!Insts
  <2> QED BY <2>3, <2>4
<1> QED BY <1>5, <1>6, <1>7

LEMMA BugCompare ==
  ASSUME BugInv, hw \in Consoles, Bug!Compare, hw' = hw
  PROVE  BugInv'
<1>1. /\ step = "compare"
      /\ IF Len(errs') >= MaxErrs \/ load = Q - 1
         THEN step' = "done" /\ UNCHANGED load
         ELSE load' = load + 1 /\ UNCHANGED step
      /\ UNCHANGED <<fpr, moved, res, maskres, interrupts>>
  BY DEF Bug!Compare, Q
<1>2. /\ IsSequence(errs) /\ load \in Quads /\ Reported(load) /\ Len(errs) < MaxErrs
      /\ \A op \in Insts, q \in Quads : Visible(q) \subseteq maskres[op][q]
  BY <1>1 DEF BugInv, CompareInv
<1>3. /\ IsSequence(errs') /\ Len(errs') \in Nat /\ Len(errs') <= Len(errs) + 3
      /\ Len(errs) \in Nat
      /\ Range(errs') = Range(errs)
           \cup {e \in Insts \X {load} : maskres[e[1]][load] # Bug!Expected(load)}
  BY <1>2, CompareReports, ConcatSequence
<1>4. Range(errs') = {e \in Insts \X Quads :
                        e[2] < load + 1 /\ maskres[e[1]][e[2]] # Bug!Expected(e[2])}
  <2>1. ASSUME NEW e \in Insts \X Quads PROVE e[2] < load + 1 <=> e[2] < load \/ e[2] = load
    BY <1>2, Sizes
  <2>2. \A e \in Insts \X {load} : e \in Insts \X Quads /\ e[2] = load
    BY <1>2
  <2>3. \A e \in Insts \X Quads : e[2] = load => e \in Insts \X {load}
    OBVIOUS
  <2> QED BY <1>2, <1>3, <2>1, <2>2, <2>3 DEF Reported
<1>5. MasksInv'
  BY <1>1, SameConsole DEF BugInv, MasksInv
<1>6. CASE Len(errs') >= MaxErrs \/ load = Q - 1
  <2>1. step' = "done" /\ load' = load
    BY <1>1, <1>6
  <2>2. Reported(load + 1)'
    BY <1>1, <1>4, <2>1, SameConsole DEF Reported
  <2>3. Len(errs') < MaxErrs + 3
    BY <1>2, <1>3, Sizes
  <2> QED BY <1>1, <1>2, <1>3, <1>5, <1>6, <2>1, <2>2, <2>3, SameConsole
          DEF BugInv, LoopInv, CompareInv
<1>7. CASE ~(Len(errs') >= MaxErrs \/ load = Q - 1)
  <2>1. step' = "compare" /\ load' = load + 1 /\ load' \in Quads
    BY <1>1, <1>2, <1>7, Sizes
  <2>2. Reported(load)'
    BY <1>1, <1>4, <2>1, SameConsole DEF Reported
  <2>3. Len(errs') < MaxErrs
    BY <1>3, <1>7, Sizes
  <2> QED BY <1>1, <1>2, <1>3, <1>5, <2>1, <2>2, <2>3, SameConsole
          DEF BugInv, LoopInv, CompareInv
<1> QED BY <1>6, <1>7

-----------------------------------------------------------------------------
(* The verdict on the load bug.                                             *)

LEMMA BugStutter ==
  ASSUME BugInv, UNCHANGED <<hw, loadVars, errs, interrupts>>
  PROVE  BugInv'
<1>1. UNCHANGED <<hw, step, load, fpr, moved, res, maskres, errs, interrupts>>
  BY DEF loadVars
<1>2. MasksInv'
  BY <1>1, SameConsole DEF BugInv, MasksInv
<1>3. CompareInv'
  BY <1>1, SameConsole DEF BugInv, CompareInv, Reported, IsSequence
<1>4. LoopInv'
  <2>1. \A k, x : Repeated(k, x) => Repeated(k, x)'
    BY <1>1, SameConsole DEF Repeated, Noted
  <2>2. \A k : Loading(k) => Loading(k)'
    BY <1>1 DEF Loading, Noted, Changed, Visible, Bug!Corrupts, Bug!inst, Bug!quad, Bug!Marked
  <2> QED BY <1>1, <2>1, <2>2 DEF BugInv, LoopInv
<1> QED BY <1>2, <1>3, <1>4 DEF BugInv

LEMMA BugNext ==
  ASSUME BugInv, hw \in Consoles, Bug!Next, Repeats > MaxInterrupts
  PROVE  BugInv'
BY BugFill, BugInterrupt, BugLoad, BugSave, BugAccumulate, BugCompare DEF Bug!Next

\* A check finds its variables as they are at the start.
Fresh == Bug!Idle /\ errs = <<>> /\ interrupts = 0

LEMMA BugStart == Fresh => BugInv
<1> SUFFICES ASSUME Bug!Idle, errs = <<>>, interrupts = 0 PROVE BugInv
  BY DEF Fresh
<1>1. /\ step = "fill" /\ load = 0
      /\ res = [op \in Insts |-> [q \in Quads |-> Fpr]]
      /\ maskres = [op \in Insts |-> [q \in Quads |-> {}]]
  BY DEF Bug!Idle, Bug!Each, Insts, Quads, Fpr
<1>2. MasksInv
  BY <1>1, Sizes DEF MasksInv, Masks
<1>3. Repeated(0, 0) /\ Loading(0)
  <2>1. \A op \in Insts, q \in Quads : ~(Place(op, q) < 0)
    BY Places
  <2> QED BY <1>1, <2>1 DEF Repeated, Noted, Loading
<1>4. LoopInv
  <2>1. 0 \in 0..Repeats-1 /\ 0 \in 0..Bug!Run-1 /\ load = 0 * Bug!Run + 0
    BY <1>1, Sizes
  <2> QED BY <1>1, <1>3, <2>1 DEF LoopInv
<1>5. CompareInv
  BY <1>1, SequenceOf, <<>> \in Seq({}) DEF CompareInv
<1> QED BY <1>2, <1>4, <1>5 DEF BugInv

\* A register that a load corrupts shows it, but for the one marked last.
LEMMA CorruptionShows ==
  ASSUME hw \in Consoles, Fprs > 1, NEW q \in Quads
  PROVE  /\ hw.corrupts # "next" => Visible(q) = Bug!Corrupts(q)
         /\ hw.corrupts = "next" => Bug!Corrupts(q) # {q % Fprs} /\ Bug!Corrupts(q) # {}
<1>1. hw.corrupts \in {"none", "own", "next", "far", "first"}
  BY ConsolesAssumption DEF Bug!Effects
<1>2. Fprs \in Nat /\ q \in Nat /\ q + 1 \in Nat /\ (q + 1) + 1 = q + 2
  BY Sizes
<1>3. q % Fprs # (q + 1) % Fprs /\ (q + 1) % Fprs # (q + 2) % Fprs
  BY <1>2, NextRemainder
<1>4. q = 0 => (q + 1) % Fprs # 0
  <2>1. 0 % Fprs # (0 + 1) % Fprs
    BY <1>2, NextRemainder
  <2>2. (0 % Fprs) = 0
    BY <1>2, SMT
  <2> QED BY <2>1, <2>2
<1> QED BY <1>1, <1>3, <1>4 DEF Visible, Bug!Corrupts

LEMMA BugVerdict ==
  ASSUME BugInv, hw \in Consoles, Fprs > 1
  PROVE  Bug!Verdict
<1> SUFFICES ASSUME step = "done"
             PROVE  /\ \A e \in Range(errs) : Bug!Deviates(e[2])
                    /\ Len(errs) < MaxErrs + Len(Bug!Loads)
                    /\ Len(errs) < MaxErrs /\ ~Bug!Unseen =>
                         \A op \in Insts, q \in Quads :
                           Bug!Deviates(q) => <<op, q>> \in Range(errs)
  BY DEF Bug!Verdict, Insts, Quads, Range, Bug!Range
<1>1. /\ IsSequence(errs) /\ load \in Quads /\ Reported(load + 1)
      /\ Len(errs) < MaxErrs + 3 /\ (Len(errs) >= MaxErrs \/ load = Q - 1)
      /\ \A op \in Insts, q \in Quads : /\ Visible(q) \subseteq maskres[op][q]
                                        /\ maskres[op][q] \subseteq Bug!Corrupts(q)
  BY DEF BugInv, CompareInv, MasksInv
<1>2. Len(errs) \in Nat
  BY <1>1, LenProperties DEF IsSequence
<1>3. ASSUME NEW op \in Insts, NEW q \in Quads, ~Bug!Deviates(q)
      PROVE  maskres[op][q] = Bug!Expected(q)
  <2>1. Bug!Corrupts(q) = Bug!Expected(q)
    BY <1>3 DEF Bug!Deviates
  <2>2. hw.corrupts # "next"
    BY <2>1, CorruptionShows DEF Bug!Expected
  <2> QED BY <1>1, <2>1, <2>2, CorruptionShows
<1>4. ASSUME NEW op \in Insts, NEW q \in Quads, Bug!Deviates(q), ~Bug!Unseen
      PROVE  maskres[op][q] # Bug!Expected(q)
  <2>1. CASE hw.corrupts # "next"
    <3>1. maskres[op][q] = Bug!Corrupts(q)
      BY <1>1, <2>1, CorruptionShows
    <3> QED BY <1>4, <3>1 DEF Bug!Deviates
  <2>2. CASE hw.corrupts = "next"
    <3>1. Bug!Expected(q) = {q % Fprs}
      BY <1>4, <2>2 DEF Bug!Unseen, Bug!Expected
    <3>2. Bug!Corrupts(q) = {(q + 1) % Fprs} /\ Bug!Corrupts(q) # {q % Fprs}
      BY <2>2, CorruptionShows DEF Bug!Corrupts
    <3> QED BY <1>1, <3>1, <3>2
  <2> QED BY <2>1, <2>2
<1>5. \A e \in Range(errs) : Bug!Deviates(e[2])
  BY <1>1, <1>3 DEF Reported
<1>6. Len(errs) < MaxErrs + Len(Bug!Loads)
  BY <1>1, Sizes
<1>7. ASSUME Len(errs) < MaxErrs, ~Bug!Unseen, NEW op \in Insts, NEW q \in Quads, Bug!Deviates(q)
      PROVE  <<op, q>> \in Range(errs)
  <2>1. load = Q - 1
    BY <1>1, <1>2, <1>7, Sizes
  <2>2. q < load + 1
    BY <2>1, Sizes
  <2>3. <<op, q>> \in Insts \X Quads /\ maskres[op][q] # Bug!Expected(q)
    BY <1>4, <1>7
  <2> QED BY <1>1, <2>2, <2>3 DEF Reported
<1> QED BY <1>5, <1>6, <1>7

\* The check of the load bug has its own variables for itself: all other checks
\* leave them as they are, and main finds them as they were.
SuiteInv ==
  /\ hw \in Consoles
  /\ IF Runs("loadbug") THEN BugInv ELSE Bug!Idle

LEMMA SuiteStart == Init => SuiteInv
<1>1. Checks[1] # "loadbug"
  BY DEF Checks
<1> QED BY <1>1 DEF Init, SuiteInv, Runs, Name

LEMMA SuiteNext ==
  ASSUME SuiteInv, [Next]_vars, Repeats > MaxInterrupts
  PROVE  SuiteInv'
<1>1. CASE RunControl \/ RunFpu \/ RunDelay
  <2>1. ~Runs("loadbug") /\ UNCHANGED <<loadVars, mainVars>>
    BY <1>1 DEF RunControl, RunFpu, RunDelay, Runs
  <2>2. hw' = hw
    BY <1>1 DEF RunControl, RunFpu, RunDelay, Fpu!Next, Slot!Next
  <2>3. ~Runs("loadbug")'
    BY <2>1 DEF Runs, Name, mainVars
  <2>4. Bug!Idle'
    BY <2>1 DEF SuiteInv, Bug!Idle, loadVars, Bug!Marked, Bug!Each
  <2> QED BY <2>2, <2>3, <2>4 DEF SuiteInv
<1>2. CASE RunLoadBug
  <2>1. Runs("loadbug") /\ Bug!Next /\ hw' = hw /\ UNCHANGED mainVars
    BY <1>2 DEF RunLoadBug, Bug!Next
  <2>2. BugInv'
    BY <2>1, BugNext DEF SuiteInv
  <2>3. Runs("loadbug")'
    BY <2>1 DEF Runs, Name, mainVars
  <2> QED BY <2>1, <2>2, <2>3 DEF SuiteInv
<1>3. CASE Return
  <2>1. Fresh' /\ hw' = hw
    BY <1>3 DEF Return, Fresh, Bug!Leave, Bug!Idle, Bug!Marked, Bug!Each
  <2>2. BugInv'
    BY <2>1, BugStart, PTL
  <2> QED BY <2>1, <2>2 DEF SuiteInv, Fresh
<1>4. CASE Report
  <2>1. UNCHANGED <<hw, loadVars>> /\ ~Runs("loadbug") /\ ~Runs("loadbug")'
    BY <1>4, ChecksCount DEF Report, Runs
  <2>2. Bug!Idle'
    BY <2>1 DEF SuiteInv, Bug!Idle, loadVars, Bug!Marked, Bug!Each
  <2> QED BY <2>1, <2>2 DEF SuiteInv
<1>5. CASE UNCHANGED vars
  <2>1. UNCHANGED <<hw, check, loadVars, errs, interrupts>>
    BY <1>5 DEF vars, mainVars, runVars
  <2>2. Runs("loadbug")' = Runs("loadbug") /\ hw' = hw
    BY <2>1 DEF Runs, Name
  <2>3. Bug!Idle => Bug!Idle'
    BY <2>1 DEF Bug!Idle, loadVars, Bug!Marked, Bug!Each
  <2>4. BugInv => BugInv'
    BY <2>1, BugStutter
  <2> QED BY <2>2, <2>3, <2>4 DEF SuiteInv
<1> QED BY <1>1, <1>2, <1>3, <1>4, <1>5 DEF Next

LEMMA SuiteAlways == ASSUME Repeats > MaxInterrupts PROVE Spec => []SuiteInv
<1>1. SuiteInv /\ [Next]_vars => SuiteInv'
  BY SuiteNext
<1> QED BY <1>1, SuiteStart, PTL DEF Spec

\* A check with more repetitions than interrupts reports no load but those that
\* deviate from what its model of the console should do, and all of them if it
\* gets to the end: 64 repetitions suffice for 63 interrupts (LoadBugVerdict,
\* memops.c 106-146). Two FPU registers are what it takes to tell one from the
\* next.
THEOREM LoadBugFound ==
  ASSUME Fprs > 1, Repeats > MaxInterrupts
  PROVE  Spec => []LoadBugVerdict
<1>1. SuiteInv => LoadBugVerdict
  BY BugVerdict DEF SuiteInv, LoadBugVerdict
<1> QED BY <1>1, SuiteAlways, PTL

-----------------------------------------------------------------------------
(* The delay slots. Whatever the latencies, a program ends with one of two  *)
(* transfers, and the proof follows it there cycle by cycle.                *)

Programs == Slot!Programs
First    == Programs[prog].first
Second   == Programs[prog].slot

\* What a program records: a second transfer that is due later wins.
Outcome(p) ==
  IF Programs[p].first = "never" THEN {1, 8, 16}
  ELSE IF Slot!Latency(Programs[p].first) > Slot!Latency(Programs[p].slot) THEN {2, 4}
  ELSE {8, 16}

Flight(kind, to, slot, age) == Slot!Flight(kind, to, slot, age)

Fetched(at) == Slot!Fetched(at)

\* Up to the first instruction that is not cancelled at a label.
Started ==
  \/ fetch = 1 /\ pending = {} /\ outval = {}
  \/ /\ First = "never" /\ fetch = 2 /\ pending = {} /\ outval = {}
  \/ /\ First = "never" /\ fetch = 3 /\ pending = {Flight(Second, 7, 3, 1)} /\ outval = {}
  \/ /\ First = "never" /\ fetch \in Nat /\ fetch > 3 /\ outval = {1}
     /\ \E a \in 1..Slot!Latency(Second) : pending = {Flight(Second, 7, 3, a)}
  \/ /\ First # "never" /\ fetch = 2 /\ pending = {Flight(First, 11, 2, 1)} /\ outval = {}

\* Both transfers are pending, or one of them has redirected the fetch and the
\* other cancels what is fetched there.
Racing ==
  /\ First # "never" /\ fetch \in Nat /\ fetch > 2 /\ outval = {}
  /\ \/ \E a \in 2..Slot!Latency(First) :
          /\ a - 1 <= Slot!Latency(Second)
          /\ pending = {Flight(First, 11, 2, a), Flight(Second, 7, 3, a - 1)}
     \/ /\ Slot!Latency(First) <= Slot!Latency(Second) /\ fetch > 3
        /\ \E a \in 1..Slot!Latency(Second) : pending = {Flight(Second, 7, 3, a)}
     \/ /\ Slot!Latency(First) > Slot!Latency(Second)
        /\ \E a \in 1..Slot!Latency(First) : pending = {Flight(First, 11, 2, a)}

\* The instructions at the label, and the jump to the end.
Recording ==
  \/ fetch = 8 /\ pending = {} /\ Outcome(prog) # {2, 4} /\ outval = Outcome(prog) \ {16}
  \/ fetch = 9 /\ pending = {} /\ Outcome(prog) # {2, 4} /\ outval = Outcome(prog)
  \/ fetch = 12 /\ pending = {} /\ Outcome(prog) = {2, 4} /\ outval = {2}
  \/ fetch = 13 /\ pending = {} /\ outval = Outcome(prog)
  \/ /\ outval = Outcome(prog)
     /\ \E s \in {10, 14}, a \in 1..Slot!Latency("jump") :
          pending = {Flight("jump", 15, s, a)} /\ fetch \in Nat /\ fetch >= s
  \/ fetch = 16 /\ pending = {} /\ outval = Outcome(prog)

SlotInv ==
  /\ prog \in 0..8
  /\ IsSequence(errs)
  /\ Range(errs) = {p \in 1..prog-1 : Outcome(p) # Programs[p].expected}
  /\ prog = 0 => fetch = 1 /\ pending = {} /\ outval = {}
  /\ prog \in 1..7 => masked /\ (Started \/ Racing \/ Recording)
  /\ prog = 8 => ~masked

LEMMA ProgramsAre ==
  /\ DOMAIN Programs = 1..7 /\ Len(Programs) = 7
  /\ \A p \in 1..7 : /\ Programs[p].first \in {"jump", "branch", "never"}
                     /\ Programs[p].slot \in {"jump", "branch"}
                     /\ Programs[p].first = "never" => Programs[p].slot = "jump"
BY DEF Programs, Slot!Programs, Slot!Program

LEMMA Latencies ==
  ASSUME hw \in Consoles
  PROVE  /\ \A kind : Slot!Latency(kind) \in Nat /\ Slot!Latency(kind) > 1
         /\ Slot!Latency("jump") = hw.jump /\ Slot!Latency("branch") = hw.branch
BY ConsolesAssumption DEF Slot!Latency

LEMMA CodeIs ==
  /\ Len(Slot!Code) = 14
  /\ Fetched(1) = [op |-> First, to |-> 11] /\ Fetched(2) = [op |-> Second, to |-> 7]
  /\ Fetched(3) = [op |-> "ori", bit |-> 1]
  /\ Fetched(7) = [op |-> "ori", bit |-> 8] /\ Fetched(8) = [op |-> "ori", bit |-> 16]
  /\ Fetched(11) = [op |-> "ori", bit |-> 2] /\ Fetched(12) = [op |-> "ori", bit |-> 4]
  /\ Fetched(9) = [op |-> "jump", to |-> 15] /\ Fetched(13) = [op |-> "jump", to |-> 15]
  /\ Fetched(10) = [op |-> "nop"] /\ Fetched(14) = [op |-> "nop"] /\ Fetched(15) = [op |-> "nop"]
<1>1. Len(Slot!Code) = 14
  BY DEF Slot!Code
<1> QED BY <1>1 DEF Fetched, Slot!Fetched, Slot!Code, Slot!Transfer, Slot!Record, Slot!Nop,
                    Slot!LeaveTo3, First, Second, Programs

\* What an instruction at the address issues and records.
Issues(at) == IF Fetched(at).op \in {"jump", "branch"}
              THEN {Flight(Fetched(at).op, Fetched(at).to, at + 1, 1)} ELSE {}
Records(at) == IF Fetched(at).op = "ori" THEN {Fetched(at).bit} ELSE {}

\* With nothing pending, or with one transfer that is due, an instruction is executed.
Executes(at) ==
  fetch' = at + 1 /\ pending' = Issues(at) /\ outval' = outval \cup Records(at)

\* The transfers that wait grow older, those that are issued are a cycle old.
LEMMA CycleIs ==
  ASSUME Slot!Cycle
  PROVE  /\ fetch' = Slot!Target + 1
         /\ pending' = {Flight(t.kind, t.to, t.slot, t.age + 1) : t \in Slot!Waiting}
              \cup (IF Slot!Executed THEN Issues(Slot!Target) ELSE {})
         /\ outval' = outval \cup (IF Slot!Executed THEN Records(Slot!Target) ELSE {})
<1> DEFINE at == Slot!Target
           older(ts) == {Flight(t.kind, t.to, t.slot, t.age + 1) : t \in ts}
<1>1. /\ fetch' = at + 1
      /\ pending' = older(Slot!Waiting \cup Slot!Issued)
      /\ outval' = outval \cup Slot!Recorded
  BY DEF Slot!Cycle, Flight
<1>2. older(Slot!Waiting \cup Slot!Issued) = older(Slot!Waiting) \cup older(Slot!Issued)
  OBVIOUS
<1>3. older(Slot!Issued) = IF Slot!Executed THEN Issues(at) ELSE {}
  <2>1. ASSUME NEW op, NEW to
        PROVE  older({Flight(op, to, at + 1, 0)}) = {Flight(op, to, at + 1, 1)}
    BY DEF Flight, Slot!Flight
  <2>2. Slot!Issued = IF Slot!Executed /\ Fetched(at).op \in {"jump", "branch"}
                      THEN {Flight(Fetched(at).op, Fetched(at).to, at + 1, 0)} ELSE {}
    BY DEF Slot!Issued, Fetched, Flight
  <2>3. older({}) = {}
    OBVIOUS
  <2> HIDE DEF older
  <2> QED BY <2>1, <2>2, <2>3 DEF Issues
<1>4. Slot!Recorded = IF Slot!Executed THEN Records(at) ELSE {}
  BY DEF Slot!Recorded, Records, Fetched
<1> QED BY <1>1, <1>2, <1>3, <1>4

LEMMA NoneCycle ==
  ASSUME Slot!Cycle, pending = {}
  PROVE  Executes(fetch)
<1>1. Slot!Due = {} /\ Slot!Waiting = {} /\ Slot!Executed /\ Slot!Target = fetch
  BY DEF Slot!Due, Slot!Waiting, Slot!Executed, Slot!Target
<1> QED BY <1>1, CycleIs DEF Executes

LEMMA DueCycle ==
  ASSUME Slot!Cycle, NEW kind, NEW to, NEW slot,
         pending = {Flight(kind, to, slot, Slot!Latency(kind))}
  PROVE  Executes(to)
<1> DEFINE t == Flight(kind, to, slot, Slot!Latency(kind))
<1>1. t.age = Slot!Latency(t.kind) /\ t.to = to
  BY DEF Flight, Slot!Flight
<1> HIDE DEF t
<1>2. Slot!Due = {t} /\ Slot!Waiting = {} /\ Slot!Executed
  BY <1>1 DEF Slot!Due, Slot!Waiting, Slot!Executed, t
<1>3. Slot!Target = to
  <2>1. Slot!Oldest({t}) = t
    BY <1>1 DEF Slot!Oldest
  <2>2. Slot!Due # {}
    BY <1>2
  <2> QED BY <1>1, <1>2, <2>1, <2>2 DEF Slot!Target
<1> QED BY <1>2, <1>3, CycleIs DEF Executes

\* With one that is not due, only its delay slot is.
LEMMA WaitCycle ==
  ASSUME Slot!Cycle, NEW kind, NEW to, NEW slot, NEW a,
         pending = {Flight(kind, to, slot, a)}, a # Slot!Latency(kind)
  PROVE  /\ fetch' = fetch + 1
         /\ pending' = {Flight(kind, to, slot, a + 1)} \cup (IF fetch = slot THEN Issues(fetch) ELSE {})
         /\ outval' = outval \cup (IF fetch = slot THEN Records(fetch) ELSE {})
<1> DEFINE t == Flight(kind, to, slot, a)
<1>1. t.age = a /\ t.kind = kind /\ t.to = to /\ t.slot = slot
  BY DEF Flight, Slot!Flight
<1> HIDE DEF t
<1>2. Slot!Due = {} /\ Slot!Waiting = {t} /\ Slot!Target = fetch
  BY <1>1 DEF Slot!Due, Slot!Waiting, Slot!Target, t
<1>3. Slot!Executed = (fetch = slot)
  BY <1>1, <1>2 DEF Slot!Executed
<1> QED BY <1>1, <1>2, <1>3, CycleIs

\* Past its delay slot nothing is.
LEMMA PastCycle ==
  ASSUME Slot!Cycle, NEW kind, NEW to, NEW slot \in Nat, NEW a,
         pending = {Flight(kind, to, slot, a)}, a # Slot!Latency(kind),
         fetch \in Nat, fetch > slot
  PROVE  fetch' = fetch + 1 /\ pending' = {Flight(kind, to, slot, a + 1)} /\ outval' = outval
<1>1. fetch # slot
  OBVIOUS
<1>2. /\ fetch' = fetch + 1
      /\ pending' = {Flight(kind, to, slot, a + 1)}
           \cup (IF fetch = slot THEN Issues(fetch) ELSE {})
      /\ outval' = outval \cup (IF fetch = slot THEN Records(fetch) ELSE {})
  BY WaitCycle
<1>3. \A S : S \cup {} = S
  OBVIOUS
<1> QED BY <1>1, <1>2, <1>3

\* With two, nothing is executed until they are due at once.
LEMMA BothCycle ==
  ASSUME Slot!Cycle, NEW f, NEW s, NEW a \in Nat, NEW b \in Nat, b < a,
         pending = {Flight(f, 11, 2, a), Flight(s, 7, 3, b)}
  PROVE  IF a = Slot!Latency(f) /\ b = Slot!Latency(s) THEN Executes(11)
         ELSE /\ outval' = outval
              /\ IF a = Slot!Latency(f) THEN fetch' = 12 /\ pending' = {Flight(s, 7, 3, b + 1)}
                 ELSE IF b = Slot!Latency(s)
                 THEN fetch' = 8 /\ pending' = {Flight(f, 11, 2, a + 1)}
                 ELSE /\ fetch' = fetch + 1
                      /\ pending' = {Flight(f, 11, 2, a + 1), Flight(s, 7, 3, b + 1)}
<1> DEFINE x == Flight(f, 11, 2, a)
           y == Flight(s, 7, 3, b)
<1>1. /\ x.age = a /\ x.kind = f /\ x.to = 11 /\ x.slot = 2
      /\ y.age = b /\ y.kind = s /\ y.to = 7 /\ y.slot = 3
  BY DEF Flight, Slot!Flight
<1>2. /\ pending = {x, y} /\ x # y
      /\ Flight(f, 11, 2, a + 1) = Flight(x.kind, x.to, x.slot, x.age + 1)
      /\ Flight(s, 7, 3, b + 1) = Flight(y.kind, y.to, y.slot, y.age + 1)
  BY <1>1
<1> HIDE DEF x, y
<1>3. /\ x \in Slot!Due <=> a = Slot!Latency(f)
      /\ y \in Slot!Due <=> b = Slot!Latency(s)
      /\ Slot!Due \subseteq {x, y} /\ Slot!Waiting = {x, y} \ Slot!Due
  BY <1>1, <1>2 DEF Slot!Due, Slot!Waiting
<1>4. CASE a = Slot!Latency(f) /\ b = Slot!Latency(s)
  <2>1. Slot!Due = {x, y} /\ Slot!Waiting = {} /\ Slot!Executed
    BY <1>3, <1>4 DEF Slot!Executed
  <2>2. Slot!Oldest({x, y}) = x
    BY <1>1 DEF Slot!Oldest
  <2>3. Slot!Target = 11
    BY <1>1, <2>1, <2>2 DEF Slot!Target
  <2> QED BY <1>4, <2>1, <2>3, CycleIs DEF Executes
<1>5. CASE a = Slot!Latency(f) /\ b # Slot!Latency(s)
  <2>1. Slot!Due = {x} /\ Slot!Waiting = {y}
    BY <1>2, <1>3, <1>5
  <2>2. Slot!Oldest({x}) = x
    BY <1>1 DEF Slot!Oldest
  <2>3. Slot!Target = 11 /\ ~Slot!Executed
    BY <1>1, <2>1, <2>2 DEF Slot!Target, Slot!Executed
  <2> QED BY <1>2, <1>5, <2>1, <2>3, CycleIs
<1>6. CASE a # Slot!Latency(f) /\ b = Slot!Latency(s)
  <2>1. Slot!Due = {y} /\ Slot!Waiting = {x}
    BY <1>2, <1>3, <1>6
  <2>2. Slot!Oldest({y}) = y
    BY <1>1 DEF Slot!Oldest
  <2>3. Slot!Target = 7 /\ ~Slot!Executed
    BY <1>1, <2>1, <2>2 DEF Slot!Target, Slot!Executed
  <2>4. /\ pending' = {Flight(t.kind, t.to, t.slot, t.age + 1) : t \in {x}} \cup {}
        /\ fetch' = 7 + 1 /\ outval' = outval \cup {}
    BY <2>1, <2>3, CycleIs
  <2>5. {Flight(t.kind, t.to, t.slot, t.age + 1) : t \in {x}} = {Flight(f, 11, 2, a + 1)}
    BY <1>2
  <2> QED BY <1>6, <2>4, <2>5
<1>7. CASE a # Slot!Latency(f) /\ b # Slot!Latency(s)
  <2>1. Slot!Due = {} /\ Slot!Waiting = {x, y} /\ Slot!Target = fetch
    BY <1>3, <1>7 DEF Slot!Target
  <2>2. ~Slot!Executed
    BY <1>1, <2>1 DEF Slot!Executed
  <2>3. {Flight(t.kind, t.to, t.slot, t.age + 1) : t \in {x, y}}
          = {Flight(f, 11, 2, a + 1), Flight(s, 7, 3, b + 1)}
    BY <1>2
  <2>4. /\ pending' = {Flight(t.kind, t.to, t.slot, t.age + 1) : t \in {x, y}} \cup {}
        /\ fetch' = fetch + 1 /\ outval' = outval \cup {}
    BY <2>1, <2>2, CycleIs
  <2> QED BY <1>7, <2>3, <2>4
<1> QED BY <1>4, <1>5, <1>6, <1>7

\* What is issued and recorded where something is.
LEMMA IssuesAre ==
  ASSUME hw \in Consoles, prog \in 1..7
  PROVE  /\ Issues(1) = IF First = "never" THEN {} ELSE {Flight(First, 11, 2, 1)}
         /\ Issues(2) = {Flight(Second, 7, 3, 1)}
         /\ \A at \in {3, 7, 8, 10, 11, 12, 14, 15} : Issues(at) = {}
         /\ Issues(9) = {Flight("jump", 15, 10, 1)} /\ Issues(13) = {Flight("jump", 15, 14, 1)}
         /\ Records(3) = {1} /\ Records(7) = {8} /\ Records(8) = {16}
         /\ Records(11) = {2} /\ Records(12) = {4}
         /\ \A at \in {1, 2, 9, 10, 13, 14, 15} : Records(at) = {}
<1>1. First \in {"jump", "branch", "never"} /\ Second \in {"jump", "branch"}
  BY ProgramsAre DEF First, Second
<1> QED BY <1>1, CodeIs DEF Issues, Records

LEMMA StartedCycle ==
  ASSUME hw \in Consoles, prog \in 1..7, Slot!Cycle, hw' = hw, Started
  PROVE  (Started \/ Racing \/ Recording)'
<1>1. prog' = prog /\ First' = First /\ Second' = Second
      /\ \A kind : Slot!Latency(kind)' = Slot!Latency(kind)
      /\ Outcome(prog)' = Outcome(prog)
  BY DEF Slot!Cycle, First, Second, Slot!Latency, Outcome, Programs, Slot!Programs, Slot!Program
<1>2. CASE fetch = 1 /\ pending = {} /\ outval = {}
  <2>1. Executes(1)
    BY <1>2, NoneCycle
  <2>2. fetch' = 2 /\ outval' = {}
        /\ pending' = IF First = "never" THEN {} ELSE {Flight(First, 11, 2, 1)}
    BY <1>2, <2>1, IssuesAre DEF Executes
  <2> QED BY <1>1, <2>2 DEF Started
<1>3. CASE First = "never" /\ fetch = 2 /\ pending = {} /\ outval = {}
  <2>1. Executes(2)
    BY <1>3, NoneCycle
  <2>2. fetch' = 3 /\ outval' = {} /\ pending' = {Flight(Second, 7, 3, 1)}
    BY <1>3, <2>1, IssuesAre DEF Executes
  <2> QED BY <1>1, <1>3, <2>2 DEF Started
<1>4. CASE First = "never" /\ fetch = 3 /\ pending = {Flight(Second, 7, 3, 1)} /\ outval = {}
  <2>1. Slot!Latency(Second) \in Nat /\ Slot!Latency(Second) > 1
    BY Latencies
  <2>2. fetch' = 4 /\ outval' = {1} /\ pending' = {Flight(Second, 7, 3, 2)}
    BY <1>4, <2>1, WaitCycle, IssuesAre
  <2> QED BY <1>1, <1>4, <2>1, <2>2 DEF Started
<1>5. CASE /\ First = "never" /\ fetch \in Nat /\ fetch > 3 /\ outval = {1}
           /\ \E a \in 1..Slot!Latency(Second) : pending = {Flight(Second, 7, 3, a)}
  <2> PICK a \in 1..Slot!Latency(Second) : pending = {Flight(Second, 7, 3, a)}
    BY <1>5
  <2>0. Slot!Latency(Second) \in Nat
    BY Latencies
  <2>1. CASE a = Slot!Latency(Second)
    <3>1. Executes(7)
      BY <2>1, DueCycle
    <3>2. fetch' = 8 /\ pending' = {} /\ outval' = {1, 8}
      BY <1>5, <3>1, IssuesAre DEF Executes
    <3>3. Outcome(prog) = {1, 8, 16}
      BY <1>5 DEF Outcome, First
    <3> QED BY <1>1, <3>2, <3>3 DEF Recording
  <2>2. CASE a # Slot!Latency(Second)
    <3>1. fetch' = fetch + 1 /\ pending' = {Flight(Second, 7, 3, a + 1)} /\ outval' = {1}
      BY <1>5, <2>2, PastCycle
    <3>2. a + 1 \in 1..Slot!Latency(Second) /\ fetch' \in Nat /\ fetch' > 3
      BY <1>5, <2>0, <2>2, <3>1
    <3> QED BY <1>1, <1>5, <3>1, <3>2 DEF Started
  <2> QED BY <2>1, <2>2
<1>6. CASE First # "never" /\ fetch = 2 /\ pending = {Flight(First, 11, 2, 1)} /\ outval = {}
  <2>1. /\ Slot!Latency(First) \in Nat /\ Slot!Latency(First) > 1
        /\ Slot!Latency(Second) \in Nat /\ Slot!Latency(Second) > 1
    BY Latencies
  <2>2. /\ fetch' = 3 /\ outval' = {}
        /\ pending' = {Flight(First, 11, 2, 2), Flight(Second, 7, 3, 1)}
    BY <1>6, <2>1, WaitCycle, IssuesAre
  <2>3. 2 \in 2..Slot!Latency(First) /\ 2 - 1 = 1 /\ 1 <= Slot!Latency(Second)
    BY <2>1
  <2> QED BY <1>1, <1>6, <2>2, <2>3 DEF Racing
<1> QED BY <1>2, <1>3, <1>4, <1>5, <1>6 DEF Started

LEMMA RacingCycle ==
  ASSUME hw \in Consoles, prog \in 1..7, Slot!Cycle, hw' = hw, Racing
  PROVE  (Racing \/ Recording)'
<1>1. prog' = prog /\ First' = First /\ Second' = Second
      /\ \A kind : Slot!Latency(kind)' = Slot!Latency(kind)
      /\ Outcome(prog)' = Outcome(prog)
  BY DEF Slot!Cycle, First, Second, Slot!Latency, Outcome, Programs, Slot!Programs, Slot!Program
<1> DEFINE one == Slot!Latency(First)
           two == Slot!Latency(Second)
<1>2. /\ First # "never" /\ fetch \in Nat /\ fetch > 2 /\ outval = {}
      /\ one \in Nat /\ two \in Nat
      /\ Outcome(prog) = IF one > two THEN {2, 4} ELSE {8, 16}
  BY Latencies DEF Racing, Outcome, First, Second
<1>3. Executes(11) /\ one > two => Recording'
  <2> SUFFICES ASSUME Executes(11), one > two PROVE Recording'
    OBVIOUS
  <2>1. fetch' = 12 /\ pending' = {} /\ outval' = {2}
    BY <1>2, IssuesAre DEF Executes
  <2> QED BY <1>1, <1>2, <2>1 DEF Recording
<1>4. Executes(7) /\ one <= two => Recording'
  <2> SUFFICES ASSUME Executes(7), one <= two PROVE Recording'
    OBVIOUS
  <2>1. fetch' = 8 /\ pending' = {} /\ outval' = {8}
    BY <1>2, IssuesAre DEF Executes
  <2>2. Outcome(prog) = {8, 16}
    BY <1>2
  <2> QED BY <1>1, <2>1, <2>2 DEF Recording
<1>5. CASE \E a \in 2..one : /\ a - 1 <= two
                             /\ pending = {Flight(First, 11, 2, a), Flight(Second, 7, 3, a - 1)}
  <2> PICK a \in 2..one : /\ a - 1 <= two
                          /\ pending = {Flight(First, 11, 2, a), Flight(Second, 7, 3, a - 1)}
    BY <1>5
  <2> DEFINE b == a - 1
  <2>1. a \in Nat /\ b \in Nat /\ b < a /\ b + 1 = a /\ (a + 1) - 1 = a
    OBVIOUS
  <2>2. IF a = one /\ b = two THEN Executes(11)
        ELSE /\ outval' = outval
             /\ IF a = one THEN fetch' = 12 /\ pending' = {Flight(Second, 7, 3, b + 1)}
                ELSE IF b = two
                THEN fetch' = 8 /\ pending' = {Flight(First, 11, 2, a + 1)}
                ELSE /\ fetch' = fetch + 1
                     /\ pending' = {Flight(First, 11, 2, a + 1), Flight(Second, 7, 3, b + 1)}
    BY <2>1, BothCycle
  <2>3. CASE a = one /\ b = two
    BY <1>2, <1>3, <2>1, <2>2, <2>3
  <2>4. CASE a = one /\ b # two
    <3>1. outval' = {} /\ fetch' = 12 /\ pending' = {Flight(Second, 7, 3, a)} /\ a \in 1..two
      BY <1>2, <2>1, <2>2, <2>4
    <3>2. one <= two
      BY <3>1, <2>4
    <3> QED BY <1>1, <1>2, <3>1, <3>2 DEF Racing
  <2>5. CASE a # one /\ b = two
    <3>1. outval' = {} /\ fetch' = 8 /\ pending' = {Flight(First, 11, 2, a + 1)} /\ a + 1 \in 1..one
      BY <1>2, <2>1, <2>2, <2>5
    <3>2. one > two
      BY <1>2, <2>1, <2>5
    <3> QED BY <1>1, <1>2, <3>1, <3>2 DEF Racing
  <2>6. CASE a # one /\ b # two
    <3>1. /\ outval' = {} /\ fetch' = fetch + 1
          /\ pending' = {Flight(First, 11, 2, a + 1), Flight(Second, 7, 3, a)}
      BY <1>2, <2>1, <2>2, <2>6
    <3>2. a + 1 \in 2..one /\ a <= two /\ fetch' \in Nat /\ fetch' > 2
      BY <1>2, <2>1, <2>6, <3>1
    <3> QED BY <1>1, <1>2, <2>1, <3>1, <3>2 DEF Racing
  <2> QED BY <2>3, <2>4, <2>5, <2>6
<1>6. CASE one <= two /\ fetch > 3 /\ \E a \in 1..two : pending = {Flight(Second, 7, 3, a)}
  <2> PICK a \in 1..two : pending = {Flight(Second, 7, 3, a)}
    BY <1>6
  <2>1. CASE a = two
    BY <1>4, <1>6, <2>1, DueCycle
  <2>2. CASE a # two
    <3>1. fetch' = fetch + 1 /\ pending' = {Flight(Second, 7, 3, a + 1)} /\ outval' = {}
      BY <1>2, <1>6, <2>2, PastCycle
    <3>2. a + 1 \in 1..two /\ fetch' \in Nat /\ fetch' > 3
      BY <1>2, <1>6, <2>2, <3>1
    <3> QED BY <1>1, <1>2, <1>6, <3>1, <3>2 DEF Racing
  <2> QED BY <2>1, <2>2
<1>7. CASE one > two /\ \E a \in 1..one : pending = {Flight(First, 11, 2, a)}
  <2> PICK a \in 1..one : pending = {Flight(First, 11, 2, a)}
    BY <1>7
  <2>1. CASE a = one
    BY <1>3, <1>7, <2>1, DueCycle
  <2>2. CASE a # one
    <3>1. fetch' = fetch + 1 /\ pending' = {Flight(First, 11, 2, a + 1)} /\ outval' = {}
      BY <1>2, <1>7, <2>2, PastCycle
    <3>2. a + 1 \in 1..one /\ fetch' \in Nat /\ fetch' > 2
      BY <1>2, <1>7, <2>2, <3>1
    <3> QED BY <1>1, <1>2, <1>7, <3>1, <3>2 DEF Racing
  <2> QED BY <2>1, <2>2
<1> QED BY <1>5, <1>6, <1>7 DEF Racing

LEMMA RecordingCycle ==
  ASSUME hw \in Consoles, prog \in 1..7, Slot!Cycle, hw' = hw, Recording
  PROVE  Recording'
<1>1. prog' = prog /\ Outcome(prog)' = Outcome(prog)
      /\ \A kind : Slot!Latency(kind)' = Slot!Latency(kind)
  BY DEF Slot!Cycle, Slot!Latency, Outcome, Programs, Slot!Programs, Slot!Program
<1> DEFINE end == Slot!Latency("jump")
<1>2. end \in Nat /\ end > 1
  BY Latencies
<1>3. Outcome(prog) \in {{1, 8, 16}, {2, 4}, {8, 16}}
  BY DEF Outcome
<1>4. CASE fetch = 8 /\ pending = {} /\ Outcome(prog) # {2, 4} /\ outval = Outcome(prog) \ {16}
  <2>1. Executes(8)
    BY <1>4, NoneCycle
  <2>2. fetch' = 9 /\ pending' = {} /\ outval' = Outcome(prog)
    BY <1>3, <1>4, <2>1, IssuesAre DEF Executes
  <2> QED BY <1>1, <1>4, <2>2 DEF Recording
<1>5. CASE fetch = 9 /\ pending = {} /\ Outcome(prog) # {2, 4} /\ outval = Outcome(prog)
  <2>1. Executes(9)
    BY <1>5, NoneCycle
  <2>2. fetch' = 10 /\ pending' = {Flight("jump", 15, 10, 1)} /\ outval' = Outcome(prog)
    BY <1>5, <2>1, IssuesAre DEF Executes
  <2>3. 1 \in 1..end
    BY <1>2
  <2> QED BY <1>1, <2>2, <2>3 DEF Recording
<1>6. CASE fetch = 12 /\ pending = {} /\ Outcome(prog) = {2, 4} /\ outval = {2}
  <2>1. Executes(12)
    BY <1>6, NoneCycle
  <2>2. fetch' = 13 /\ pending' = {} /\ outval' = Outcome(prog)
    BY <1>6, <2>1, IssuesAre DEF Executes
  <2> QED BY <1>1, <2>2 DEF Recording
<1>7. CASE fetch = 13 /\ pending = {} /\ outval = Outcome(prog)
  <2>1. Executes(13)
    BY <1>7, NoneCycle
  <2>2. fetch' = 14 /\ pending' = {Flight("jump", 15, 14, 1)} /\ outval' = Outcome(prog)
    BY <1>7, <2>1, IssuesAre DEF Executes
  <2>3. 1 \in 1..end
    BY <1>2
  <2> QED BY <1>1, <2>2, <2>3 DEF Recording
<1>8. CASE /\ outval = Outcome(prog)
           /\ \E s \in {10, 14}, a \in 1..end :
                pending = {Flight("jump", 15, s, a)} /\ fetch \in Nat /\ fetch >= s
  <2> PICK s \in {10, 14}, a \in 1..end :
        pending = {Flight("jump", 15, s, a)} /\ fetch \in Nat /\ fetch >= s
    BY <1>8
  <2>1. CASE a = end
    <3>1. Executes(15)
      BY <2>1, DueCycle
    <3>2. fetch' = 16 /\ pending' = {} /\ outval' = Outcome(prog)
      BY <1>8, <3>1, IssuesAre DEF Executes
    <3> QED BY <1>1, <3>2 DEF Recording
  <2>2. CASE a # end
    <3>1. /\ fetch' = fetch + 1 /\ outval' = outval
          /\ pending' = {Flight("jump", 15, s, a + 1)}
      <4>1. CASE fetch = s
        <5>1. Issues(s) = {} /\ Records(s) = {}
          BY IssuesAre
        <5>2. /\ fetch' = fetch + 1 /\ outval' = outval \cup Records(s)
              /\ pending' = {Flight("jump", 15, s, a + 1)} \cup Issues(s)
          BY <2>2, <4>1, WaitCycle
        <5> QED BY <5>1, <5>2
      <4>2. CASE fetch > s
        <5>1. s \in Nat
          OBVIOUS
        <5> QED BY <2>2, <4>2, <5>1, PastCycle
      <4> QED BY <4>1, <4>2
    <3>2. a + 1 \in 1..end /\ fetch' \in Nat /\ fetch' >= s
      BY <1>2, <2>2, <3>1
    <3> QED BY <1>1, <1>8, <3>1, <3>2 DEF Recording
  <2> QED BY <2>1, <2>2
<1>9. CASE fetch = 16 /\ pending = {} /\ outval = Outcome(prog)
  BY <1>9, CodeIs DEF Slot!Cycle, Slot!Running
<1> QED BY <1>4, <1>5, <1>6, <1>7, <1>8, <1>9 DEF Recording

\* A program that is not running any more has recorded what it should.
LEMMA StoppedIs ==
  ASSUME hw \in Consoles, prog \in 1..7, ~Slot!Running, Started \/ Racing \/ Recording
  PROVE  pending = {} /\ outval = Outcome(prog)
<1>1. pending = {} /\ ~(fetch <= 14)
  BY ProgramsAre, CodeIs DEF Slot!Running, Programs
<1>2. ~Started /\ ~Racing
  BY <1>1 DEF Started, Racing
<1> QED BY <1>1, <1>2 DEF Recording


\* As main finds the variables of the check.
Unstarted == Slot!Idle /\ errs = <<>>

LEMMA SlotStart == Unstarted => SlotInv
<1> SUFFICES ASSUME Slot!Idle, errs = <<>> PROVE SlotInv
  BY DEF Unstarted
<1>1. IsSequence(<<>>) /\ Range(<<>>) = {}
  <2>1. <<>> \in Seq({}) /\ DOMAIN <<>> = {}
    OBVIOUS
  <2>2. IsSequence(<<>>)
    BY <2>1, SequenceOf
  <2> QED BY <2>1, <2>2 DEF Range
<1>2. prog = 0 /\ fetch = 1 /\ pending = {} /\ outval = {}
  BY DEF Slot!Idle
<1> QED BY <1>1, <1>2 DEF SlotInv

\* A program is judged after it has stopped, and reported if what it recorded is
\* not what the source expects.
LEMMA SlotJudge ==
  ASSUME hw \in Consoles, SlotInv, Slot!Judge, hw' = hw
  PROVE  SlotInv'
<1>1. prog \in 1..7 /\ ~Slot!Running /\ (Started \/ Racing \/ Recording)
  BY ProgramsAre DEF Slot!Judge, SlotInv, Programs
<1>2. pending = {} /\ outval = Outcome(prog)
  BY <1>1, StoppedIs
<1>3. /\ prog' = prog + 1 /\ fetch' = 1 /\ outval' = {} /\ pending' = {}
      /\ masked' = (prog' \in 1..7 /\ masked)
      /\ errs' = IF Outcome(prog) # Programs[prog].expected THEN Append(errs, prog) ELSE errs
  BY <1>2, ProgramsAre DEF Slot!Judge, Programs
<1>4. \A p : Outcome(p)' = Outcome(p) /\ Programs' = Programs
  BY DEF Outcome, Slot!Latency, Programs, Slot!Programs, Slot!Program
<1> DEFINE wrong(n) == {p \in 1..n : Outcome(p) # Programs[p].expected}
<1>5. IsSequence(errs') /\ Range(errs') = wrong(prog)
  <2>1. wrong(prog) = wrong(prog - 1)
          \cup (IF Outcome(prog) # Programs[prog].expected THEN {prog} ELSE {})
    <3>1. 1..prog = 1..prog-1 \cup {prog}
      BY <1>1
    <3> QED BY <3>1
  <2>2. IsSequence(errs) /\ Range(errs) = wrong(prog - 1)
    BY DEF SlotInv
  <2> HIDE DEF wrong
  <2>3. CASE Outcome(prog) # Programs[prog].expected
    BY <1>3, <2>1, <2>2, <2>3, AppendSequence, AppendRange
  <2>4. CASE Outcome(prog) = Programs[prog].expected
    BY <1>3, <2>1, <2>2, <2>4
  <2> QED BY <2>3, <2>4
<1>6. Range(errs)' = {p \in 1..prog'-1 : Outcome(p)' # Programs'[p].expected}
  <2>1. Range(errs)' = Range(errs')
    BY DEF Range
  <2> QED BY <1>1, <1>3, <1>4, <1>5, <2>1
<1>7. prog' \in 2..8
  BY <1>1, <1>3
<1>8. prog' \in 1..7 => masked' /\ Started'
  BY <1>1, <1>3 DEF SlotInv, Started
<1>9. IsSequence(errs)'
  BY <1>5 DEF IsSequence, Range
<1>10. prog' \in 0..8 /\ prog' # 0 /\ (prog' = 8 => ~masked')
  <2>1. prog' = 8 => prog' \notin 1..7
    OBVIOUS
  <2>2. prog' = 8 => ~masked'
    BY <1>3, <2>1, Zenon
  <2> QED BY <1>7, <2>2
<1> QED BY <1>6, <1>8, <1>9, <1>10 DEF SlotInv

LEMMA SlotNext ==
  ASSUME hw \in Consoles, SlotInv, Slot!Next
  PROVE  SlotInv'
<1>0. hw' = hw
  BY DEF Slot!Next
<1>1. CASE Slot!Start
  <2>1. /\ prog = 0 /\ prog' = 1 /\ masked' /\ UNCHANGED <<fetch, pending, outval, errs>>
        /\ fetch = 1 /\ pending = {} /\ outval = {}
    BY <1>1 DEF Slot!Start, SlotInv
  <2>2. Started'
    BY <2>1 DEF Started
  <2>3. IsSequence(errs)' /\ Range(errs)' = {}
    BY <2>1 DEF SlotInv, IsSequence, Range
  <2> QED BY <2>1, <2>2, <2>3 DEF SlotInv
<1>2. CASE Slot!Cycle
  <2>1. prog \in 1..7 /\ masked /\ (Started \/ Racing \/ Recording)
    BY <1>2, ProgramsAre DEF Slot!Cycle, Slot!Running, SlotInv, Programs
  <2>2. (Started \/ Racing \/ Recording)'
    BY <1>0, <1>2, <2>1, StartedCycle, RacingCycle, RecordingCycle
  <2>3. UNCHANGED <<hw, prog, errs, masked>>
    BY <1>0, <1>2 DEF Slot!Cycle
  <2>4. Range(errs)' = Range(errs) /\ IsSequence(errs)'
        /\ \A p : Outcome(p)' = Outcome(p) /\ Programs' = Programs
    BY <2>3 DEF SlotInv, IsSequence, Range, Outcome, Slot!Latency, Programs, Slot!Programs, Slot!Program
  <2>5. Range(errs)' = {p \in 1..prog'-1 : Outcome(p)' # Programs'[p].expected}
    BY <2>3, <2>4 DEF SlotInv
  <2> QED BY <2>1, <2>2, <2>3, <2>4, <2>5 DEF SlotInv
<1>3. CASE Slot!Interrupt
  BY <1>3, ProgramsAre DEF Slot!Interrupt, Slot!Running, SlotInv, Programs
<1>4. CASE Slot!Judge
  BY <1>0, <1>4, SlotJudge
<1> QED BY <1>1, <1>2, <1>3, <1>4 DEF Slot!Next

LEMMA SlotStutter ==
  ASSUME SlotInv, UNCHANGED <<hw, slotVars, errs, masked>>
  PROVE  SlotInv'
<1>1. UNCHANGED <<hw, prog, fetch, pending, outval, errs, masked>>
  BY DEF slotVars
<1>2. Range(errs)' = Range(errs) /\ IsSequence(errs)'
      /\ \A p : Outcome(p)' = Outcome(p) /\ Programs' = Programs
  BY <1>1 DEF SlotInv, IsSequence, Range, Outcome, Slot!Latency, Programs, Slot!Programs, Slot!Program
<1>3. Started' = Started /\ Racing' = Racing /\ Recording' = Recording
  BY <1>1 DEF Started, Racing, Recording, First, Second, Slot!Latency, Outcome, Programs,
              Slot!Programs, Slot!Program
<1>4. Range(errs)' = {p \in 1..prog'-1 : Outcome(p)' # Programs'[p].expected}
  BY <1>1, <1>2 DEF SlotInv
<1> QED BY <1>1, <1>2, <1>3, <1>4 DEF SlotInv

LEMMA SlotVerdict == ASSUME hw \in Consoles, SlotInv PROVE Slot!Verdict
<1> SUFFICES ASSUME Slot!Done PROVE Slot!Verdict
  BY DEF Slot!Verdict
<1>1. prog = 8 /\ ~masked
  BY ProgramsAre DEF Slot!Done, SlotInv, Programs
<1> DEFINE late == hw.branch > hw.jump
<1>2. hw.jump \in Nat /\ hw.branch \in Nat
  BY Latencies
<1>3. /\ ~late => Outcome(2) # Programs[2].expected
      /\ \A p \in 1..7 : Outcome(p) # Programs[p].expected
           => {Programs[p].first, Programs[p].slot} = {"jump", "branch"} /\ ~late
  <2>1. Slot!Latency("jump") = hw.jump /\ Slot!Latency("branch") = hw.branch
    BY Latencies
  <2>2. {2, 4} # {8, 16}
    <3>1. 2 \in {2, 4} /\ 2 \notin {8, 16}
      OBVIOUS
    <3> QED BY <3>1
  <2>3. /\ Programs[1] = Slot!Program("jump", "jump", {8, 16})
        /\ Programs[2] = Slot!Program("branch", "jump", {2, 4})
        /\ Programs[3] = Slot!Program("never", "jump", {1, 8, 16})
        /\ Programs[4] = Slot!Program("jump", "branch", {8, 16})
        /\ Programs[5] = Slot!Program("branch", "branch", {8, 16})
        /\ Programs[6] = Slot!Program("jump", "jump", {8, 16})
        /\ Programs[7] = Slot!Program("branch", "jump", {2, 4})
    BY DEF Programs, Slot!Programs
  <2>4. ~late => Outcome(2) = {8, 16} /\ Programs[2].expected = {2, 4}
    BY <1>2, <2>1, <2>3 DEF Outcome, Slot!Program
  <2>5. ASSUME NEW p \in 1..7, Outcome(p) # Programs[p].expected
        PROVE  {Programs[p].first, Programs[p].slot} = {"jump", "branch"} /\ ~late
    <3>1. p \notin {1, 3, 5, 6}
      BY <1>2, <2>1, <2>3, <2>5 DEF Outcome, Slot!Program
    <3>2. CASE p = 4
      BY <1>2, <2>1, <2>3, <2>5, <3>2 DEF Outcome, Slot!Program
    <3>3. CASE p \in {2, 7}
      BY <1>2, <2>1, <2>3, <2>5, <3>3 DEF Outcome, Slot!Program
    <3> QED BY <3>1, <3>2, <3>3
  <2> QED BY <2>2, <2>4, <2>5
<1>4. IsSequence(errs) /\ Range(errs) = {p \in 1..7 : Outcome(p) # Programs[p].expected}
  BY <1>1 DEF SlotInv
<1>5. errs = <<>> <=> Range(errs) = {}
  <2>1. errs \in Seq(Range(errs)) /\ DOMAIN errs = 1..Len(errs) /\ Len(errs) \in Nat
    BY <1>4, LenProperties DEF IsSequence
  <2>2. errs = <<>> <=> Len(errs) = 0
    BY <2>1, EmptySeq
  <2> QED BY <2>1, <2>2 DEF Range
<1>6. errs = <<>> <=> late
  BY <1>3, <1>4, <1>5
<1>7. \A p \in Slot!Range(errs) :
        {Slot!Programs[p].first, Slot!Programs[p].slot} = {"jump", "branch"}
  BY <1>3, <1>4 DEF Slot!Range, Range, Programs
<1> QED BY <1>1, <1>6, <1>7 DEF Slot!Verdict

\* The check of the delay slots has its variables for itself, too.
BranchInv ==
  /\ hw \in Consoles
  /\ check < 8 => Slot!Idle
  /\ Runs("delay") => SlotInv

LEMMA BranchStart == Init => BranchInv
<1>1. Checks[1] # "delay"
  BY DEF Checks
<1> QED BY <1>1 DEF Init, BranchInv, Runs, Name

LEMMA BranchNext ==
  ASSUME KeptInv, BranchInv, [Next]_vars
  PROVE  BranchInv'
<1>0. check \in Nat /\ \A k \in 1..9 : Checks[k] = "delay" <=> k = 8
  BY DEF KeptInv, Checks
<1>1. CASE RunControl \/ RunLoadBug \/ RunFpu
  <2>1. ~Runs("delay") /\ UNCHANGED <<hw, slotVars, mainVars>>
    BY <1>1 DEF RunControl, RunLoadBug, RunFpu, Runs, Bug!Next, Fpu!Next
  <2>2. ~Runs("delay")' /\ check' = check
    BY <2>1 DEF Runs, Name, mainVars
  <2>3. Slot!Idle => Slot!Idle'
    BY <2>1 DEF Slot!Idle, slotVars
  <2> QED BY <2>1, <2>2, <2>3 DEF BranchInv
<1>2. CASE RunDelay
  <2>1. Runs("delay") /\ Slot!Next /\ hw' = hw /\ check' = check
    BY <1>2 DEF RunDelay, Slot!Next, mainVars
  <2>2. SlotInv'
    BY <2>1, SlotNext DEF BranchInv
  <2>3. ~(check < 8)
    BY <1>0, <2>1, ChecksCount DEF Runs, Name, KeptInv
  <2> QED BY <2>1, <2>2, <2>3 DEF BranchInv
<1>3. CASE Return
  <2>1. hw' = hw /\ UNCHANGED slotVars /\ check' = check + 1 /\ errs' = <<>>
    BY <1>3 DEF Return
  <2>2. Slot!Idle => Slot!Idle'
    BY <2>1 DEF Slot!Idle, slotVars
  <2>3. CASE check < 8
    <3>1. Unstarted'
      BY <2>1, <2>2, <2>3 DEF BranchInv, Unstarted
    <3>2. SlotInv'
      BY <3>1, SlotStart, PTL
    <3> QED BY <2>1, <3>1, <3>2 DEF BranchInv, Unstarted
  <2>4. CASE check >= 8
    <3>1. check' \in Nat /\ check' > 8
      BY <1>0, <2>1, <2>4
    <3>2. Runs("delay")' => check' <= 9 /\ Checks[check'] = "delay"
      BY ChecksCount DEF Runs, Name
    <3>3. ~Runs("delay")'
      BY <1>0, <3>1, <3>2
    <3> QED BY <2>1, <3>1, <3>3 DEF BranchInv
  <2> QED BY <1>0, <2>3, <2>4
<1>4. CASE Report
  <2>1. hw' = hw /\ check = 10 /\ check' = 11
    BY <1>4, ChecksCount DEF Report
  <2>2. ~(check' < 8) /\ ~Runs("delay")'
    BY <2>1, ChecksCount DEF Runs
  <2> QED BY <2>1, <2>2 DEF BranchInv
<1>5. CASE UNCHANGED vars
  <2>1. UNCHANGED <<hw, check, slotVars, errs, masked>>
    BY <1>5 DEF vars, mainVars, runVars
  <2>2. Runs("delay")' = Runs("delay")
    BY <2>1 DEF Runs, Name
  <2>3. Slot!Idle => Slot!Idle'
    BY <2>1 DEF Slot!Idle, slotVars
  <2>4. SlotInv => SlotInv'
    BY <2>1, SlotStutter
  <2> QED BY <2>1, <2>2, <2>3, <2>4 DEF BranchInv
<1> QED BY <1>1, <1>2, <1>3, <1>4, <1>5 DEF Next

\* Whatever the latencies of a console, the check reports a program if and only
\* if what its two transfers lead to is not what the source expects, which
\* happens exactly when branches are not later than jumps (DelaySlotVerdict,
\* undefined-behaviour.c 22-34).
THEOREM DelaySlotsExact == Spec => []DelaySlotVerdict
<1>1. KeptInv /\ BranchInv /\ [Next]_vars => BranchInv'
  BY BranchNext
<1>2. Spec => []BranchInv
  BY <1>1, BranchStart, KeptAlways, PTL DEF Spec
<1>3. BranchInv => DelaySlotVerdict
  BY SlotVerdict DEF BranchInv, DelaySlotVerdict
<1> QED BY <1>2, <1>3, PTL

-----------------------------------------------------------------------------
(* The code of the two checks of the control registers, place by place.     *)

\* Lists of as many elements as the code is made of.
LEMMA TupleSequence ==
  /\ \A a : IsSequence(<<a>>)
  /\ \A a, b, c : IsSequence(<<a, b, c>>)
  /\ \A a, b, c, d : IsSequence(<<a, b, c, d>>)
  /\ \A a, b, c, d, e : IsSequence(<<a, b, c, d, e>>)
  /\ \A a, b, c, d, e, f : IsSequence(<<a, b, c, d, e, f>>)
  /\ \A a, b, c, d, e, f, g : IsSequence(<<a, b, c, d, e, f, g>>)
<1> SUFFICES ASSUME NEW a, NEW b, NEW c, NEW d, NEW e, NEW f, NEW g
             PROVE  /\ IsSequence(<<a>>)
                    /\ IsSequence(<<a, b, c>>) /\ IsSequence(<<a, b, c, d>>)
                    /\ IsSequence(<<a, b, c, d, e>>) /\ IsSequence(<<a, b, c, d, e, f>>)
                    /\ IsSequence(<<a, b, c, d, e, f, g>>)
  OBVIOUS
<1> DEFINE S == {a, b, c, d, e, f, g}
<1>1. /\ <<a>> \in Seq(S)
      /\ <<a, b, c>> \in Seq(S) /\ <<a, b, c, d>> \in Seq(S)
      /\ <<a, b, c, d, e>> \in Seq(S) /\ <<a, b, c, d, e, f>> \in Seq(S)
      /\ <<a, b, c, d, e, f, g>> \in Seq(S)
  OBVIOUS
<1> HIDE DEF S
<1> QED BY <1>1, SequenceOf

\* Three joins of sequences make a sequence.
LEMMA JoinedSequence ==
  ASSUME NEW a, NEW b, NEW c, NEW d, IsSequence(a), IsSequence(b), IsSequence(c), IsSequence(d)
  PROVE  IsSequence(a \o b \o c \o d)
BY ConcatSequence

\* The pieces the code is made of.
LEMMA BlockSequence ==
  /\ IsSequence(Operands) /\ IsSequence(HazardReads) /\ IsSequence(ReadPrefixes)
  /\ \A d, s, t : IsSequence(ExpectPrefixes(d, s, t))
  /\ \A cond, n, row, slot : IsSequence(ComparedAndRead(cond, n, row, slot))
BY TupleSequence DEF Operands, HazardReads, ReadPrefixes, ExpectPrefixes, ComparedAndRead

\* validate_ccregs, and the instructions in it.
LEMMA FirstCode == IsSequence(validate_ccregs)
<1> DEFINE p1 == <<Prefix("d", \h100), Prefix("s", \h55), Prefix("t", \hAA)>>
           p2 == <<Prefix("s", \hFFFFFF), Prefix("t", \hFFFFFF), Prefix("d", \hFFFFFF)>>
           draws == <<ReadSeeds("A"), Draw({0}), ReadSeeds("B"), ExpectChanged,
                      Draw(0..1), ReadSeeds("A"), ExpectChanged,
                      Draw(0..3), ReadSeeds("B"), ExpectChanged,
                      One(0), Draw({0}), ReadSeeds("A"), ExpectChanged>>
           reads == <<Prefix("d", \hF00), Read(130, "o4"), Prefix("s", \hF00E4), Read(128, "o5"),
                      Prefix("t", \hF00E4), Read(129, "o6")>>
           expects == <<Expect("o0", 0), Expect("o1", \h3F), Expect("o2", \h3F), Expect("o3", \h3F),
                        Expect("o4", \hF00), Expect("o5", \hF00E4), Expect("o6", \hF00E4)>>
           twice == <<Doubled(0..3)>>
           clear == <<Clear>>
           last == <<Vnop, Doubled({0}), Vnop>>
           e1 == ExpectPrefixes(\h100, \h55, \hAA)
           e2 == ExpectPrefixes(0, \hE4, \hE4)
           e3 == ExpectPrefixes(\hFFF, \hFFFFF, \hFFFFF)
<1>1. IsSequence(p1) /\ IsSequence(p2) /\ IsSequence(reads) /\ IsSequence(expects)
      /\ IsSequence(twice) /\ IsSequence(clear) /\ IsSequence(last)
  BY SMT, TupleSequence
<1>2. IsSequence(draws)
  <2> DEFINE S == {ReadSeeds("A"), ReadSeeds("B"), Draw({0}), Draw(0..1), Draw(0..3), One(0),
                    ExpectChanged}
  <2>1. draws \in Seq(S)
    OBVIOUS
  <2> HIDE DEF S, draws
  <2> QED BY <2>1, SequenceOf
<1>3. IsSequence(e1) /\ IsSequence(e2) /\ IsSequence(e3)
  BY BlockSequence
<1>4. validate_ccregs =
        p1 \o ReadPrefixes \o e1 \o twice \o ReadPrefixes \o e2 \o p2 \o ReadPrefixes \o e3
           \o draws \o clear \o Operands \o HazardReads \o reads \o expects \o last
  BY SMT DEF validate_ccregs
<1> HIDE DEF p1, p2, draws, reads, expects, twice, clear, last, e1, e2, e3
<1> DEFINE v1 == p1 \o ReadPrefixes \o e1 \o twice
<1>5. IsSequence(v1)
  BY <1>1, <1>3, BlockSequence, JoinedSequence
<1> HIDE DEF v1
<1> DEFINE v2 == v1 \o ReadPrefixes \o e2 \o p2
<1>6. IsSequence(v2)
  BY <1>1, <1>3, <1>5, BlockSequence, JoinedSequence
<1> HIDE DEF v2
<1> DEFINE v3 == v2 \o ReadPrefixes \o e3 \o draws
<1>7. IsSequence(v3)
  BY <1>2, <1>3, <1>6, BlockSequence, JoinedSequence
<1> HIDE DEF v3
<1> DEFINE v4 == v3 \o clear \o Operands \o HazardReads
<1>8. IsSequence(v4)
  BY <1>1, <1>7, BlockSequence, JoinedSequence
<1> HIDE DEF v4
<1>9. IsSequence(v4 \o reads \o expects \o last)
  BY <1>1, <1>8, JoinedSequence
<1> QED BY <1>4, <1>9, SMT DEF v1, v2, v3, v4

LEMMA FirstLength == Len(validate_ccregs) = 67
BY SMT DEF validate_ccregs, Operands, HazardReads, ReadPrefixes, ExpectPrefixes

LEMMA FirstList ==
  LET c == validate_ccregs
  IN /\ c[1] = Prefix("d", \h100) /\ c[2] = Prefix("s", \h55) /\ c[3] = Prefix("t", \hAA)
     /\ c[4] = Read(128, "pfs") /\ c[5] = Read(129, "pft") /\ c[6] = Read(130, "pfd")
     /\ c[7] = Expect("pfd", \h100) /\ c[8] = Expect("pfs", \h55) /\ c[9] = Expect("pft", \hAA)
     /\ c[10] = Doubled(0..3)
     /\ c[11] = Read(128, "pfs") /\ c[12] = Read(129, "pft") /\ c[13] = Read(130, "pfd")
     /\ c[14] = Expect("pfd", 0) /\ c[15] = Expect("pfs", \hE4) /\ c[16] = Expect("pft", \hE4)
     /\ c[17] = Prefix("s", \hFFFFFF) /\ c[18] = Prefix("t", \hFFFFFF) /\ c[19] = Prefix("d", \hFFFFFF)
     /\ c[20] = Read(128, "pfs") /\ c[21] = Read(129, "pft") /\ c[22] = Read(130, "pfd")
     /\ c[23] = Expect("pfd", \hFFF) /\ c[24] = Expect("pfs", \hFFFFF)
     /\ c[25] = Expect("pft", \hFFFFF)
     /\ c[26] = ReadSeeds("A") /\ c[27] = Draw({0}) /\ c[28] = ReadSeeds("B") /\ c[29] = ExpectChanged
     /\ c[30] = Draw(0..1) /\ c[31] = ReadSeeds("A") /\ c[32] = ExpectChanged
     /\ c[33] = Draw(0..3) /\ c[34] = ReadSeeds("B") /\ c[35] = ExpectChanged
     /\ c[36] = One(0) /\ c[37] = Draw({0}) /\ c[38] = ReadSeeds("A") /\ c[39] = ExpectChanged
     /\ c[40] = Clear /\ c[41] = Zero(0) /\ c[42] = One(1) /\ c[43] = Negative(2)
     /\ c[44] = Twice(3) /\ c[45] = NegatedRow
     /\ c[46] = Compare("EQ", 4, "R000")
     /\ c[47] = Read(131, "o0") /\ c[48] = Read(131, "o1") /\ c[49] = Read(131, "o2")
     /\ c[50] = Read(131, "o3") /\ c[51] = Clear
     /\ c[52] = Prefix("d", \hF00) /\ c[53] = Read(130, "o4") /\ c[54] = Prefix("s", \hF00E4)
     /\ c[55] = Read(128, "o5") /\ c[56] = Prefix("t", \hF00E4) /\ c[57] = Read(129, "o6")
     /\ c[58] = Expect("o0", 0) /\ c[59] = Expect("o1", \h3F) /\ c[60] = Expect("o2", \h3F)
     /\ c[61] = Expect("o3", \h3F) /\ c[62] = Expect("o4", \hF00) /\ c[63] = Expect("o5", \hF00E4)
     /\ c[64] = Expect("o6", \hF00E4)
     /\ c[65] = Vnop /\ c[66] = Doubled({0}) /\ c[67] = Vnop
BY SMT DEF validate_ccregs, Operands, HazardReads, ReadPrefixes, ExpectPrefixes

\* check_conditionals likewise.
LEMMA SecondCode == IsSequence(check_conditionals)
<1> DEFINE start == <<Interrupts(FALSE), Clear>>
           branch == <<Compare("EQ", 4, "R000"), Vnop, Read(131, "o4"), Clear,
                       Compare("EQ", 4, "R000"), BranchOver(0, "o5"), Interrupts(TRUE)>>
           e1 == <<Expect("o0", 0), Expect("o1", \h3F), Expect("o2", \h3F), Expect("o3", \h3F),
                   Expect("o4", \h3F), Expect("o5", 0)>>
           c1 == ComparedAndRead("EQ", 4, "R000", "o0")
           c2 == ComparedAndRead("NE", 4, "R000", "o1")
           c3 == ComparedAndRead("EQ", 4, "R100", "o2")
           c4 == ComparedAndRead("NE", 4, "R100", "o3")
           e2 == <<Expect("o0", \h3F), Expect("o1", 0), Expect("o2", \h11), Expect("o3", \h1E)>>
           c5 == ComparedAndRead("EQ", 1, "R000", "o0")
           c6 == ComparedAndRead("EQ", 2, "R000", "o1")
           c7 == ComparedAndRead("EQ", 3, "R000", "o2")
           e3 == <<Expect("o0", \h31), Expect("o1", \h33), Expect("o2", \h37)>>
<1>1. IsSequence(start)
  <2>1. start \in Seq({Interrupts(FALSE), Clear})
    OBVIOUS
  <2> QED BY <2>1, SequenceOf
<1>2. IsSequence(branch) /\ IsSequence(e1)
  BY SMT, TupleSequence
<1>3. IsSequence(e2) /\ IsSequence(e3)
  BY SMT, TupleSequence
<1>4. /\ IsSequence(c1) /\ IsSequence(c2) /\ IsSequence(c3) /\ IsSequence(c4)
      /\ IsSequence(c5) /\ IsSequence(c6) /\ IsSequence(c7)
  BY BlockSequence
<1>5. check_conditionals =
        start \o Operands \o HazardReads \o branch \o e1 \o c1 \o c2 \o c3 \o c4
          \o e2 \o c5 \o c6 \o c7 \o e3
  BY SMT DEF check_conditionals
<1> HIDE DEF start, branch, e1, c1, c2, c3, c4, e2, c5, c6, c7, e3
<1> DEFINE v1 == start \o Operands \o HazardReads \o branch
<1>6. IsSequence(v1)
  BY <1>1, <1>2, BlockSequence, JoinedSequence
<1> HIDE DEF v1
<1> DEFINE v2 == v1 \o e1 \o c1 \o c2
<1>7. IsSequence(v2)
  BY <1>2, <1>4, <1>6, JoinedSequence
<1> HIDE DEF v2
<1> DEFINE v3 == v2 \o c3 \o c4 \o e2
<1>8. IsSequence(v3)
  BY <1>3, <1>4, <1>7, JoinedSequence
<1> HIDE DEF v3
<1> DEFINE v4 == v3 \o c5 \o c6 \o c7
<1>9. IsSequence(v4)
  BY <1>4, <1>8, JoinedSequence
<1> HIDE DEF v4
<1>10. IsSequence(v4 \o e3)
  BY <1>3, <1>9, ConcatSequence
<1> QED BY <1>5, <1>10, SMT DEF v1, v2, v3, v4

LEMMA SecondLength == Len(check_conditionals) = 61
BY SMT DEF check_conditionals, Operands, HazardReads, ComparedAndRead

LEMMA SecondList ==
  LET c == check_conditionals
  IN /\ c[1].op = "interrupts" /\ c[1].on = FALSE /\ c[2] = Clear
     /\ c[3] = Zero(0) /\ c[4] = One(1) /\ c[5] = Negative(2) /\ c[6] = Twice(3) /\ c[7] = NegatedRow
     /\ c[8] = Compare("EQ", 4, "R000")
     /\ c[9] = Read(131, "o0") /\ c[10] = Read(131, "o1") /\ c[11] = Read(131, "o2")
     /\ c[12] = Read(131, "o3") /\ c[13] = Clear
     /\ c[14] = Compare("EQ", 4, "R000") /\ c[15] = Vnop /\ c[16] = Read(131, "o4") /\ c[17] = Clear
     /\ c[18] = Compare("EQ", 4, "R000") /\ c[19] = BranchOver(0, "o5")
     /\ c[20].op = "interrupts" /\ c[20].on = TRUE
     /\ c[21] = Expect("o0", 0) /\ c[22] = Expect("o1", \h3F) /\ c[23] = Expect("o2", \h3F)
     /\ c[24] = Expect("o3", \h3F) /\ c[25] = Expect("o4", \h3F) /\ c[26] = Expect("o5", 0)
     /\ c[27] = Clear /\ c[28] = Compare("EQ", 4, "R000") /\ c[29] = Vnop /\ c[30] = Read(131, "o0")
     /\ c[31] = Clear /\ c[32] = Compare("NE", 4, "R000") /\ c[33] = Vnop /\ c[34] = Read(131, "o1")
     /\ c[35] = Clear /\ c[36] = Compare("EQ", 4, "R100") /\ c[37] = Vnop /\ c[38] = Read(131, "o2")
     /\ c[39] = Clear /\ c[40] = Compare("NE", 4, "R100") /\ c[41] = Vnop /\ c[42] = Read(131, "o3")
     /\ c[43] = Expect("o0", \h3F) /\ c[44] = Expect("o1", 0) /\ c[45] = Expect("o2", \h11)
     /\ c[46] = Expect("o3", \h1E)
     /\ c[47] = Clear /\ c[48] = Compare("EQ", 1, "R000") /\ c[49] = Vnop /\ c[50] = Read(131, "o0")
     /\ c[51] = Clear /\ c[52] = Compare("EQ", 2, "R000") /\ c[53] = Vnop /\ c[54] = Read(131, "o1")
     /\ c[55] = Clear /\ c[56] = Compare("EQ", 3, "R000") /\ c[57] = Vnop /\ c[58] = Read(131, "o2")
     /\ c[59] = Expect("o0", \h31) /\ c[60] = Expect("o1", \h33) /\ c[61] = Expect("o2", \h37)
BY SMTT(60) DEF Interrupts, check_conditionals, Operands, HazardReads, ComparedAndRead

\* What ControlTests calls Code is Code.
LEMMA SameCode == Control!Code = Code /\ Control!Conditionals = Conditionals
BY SMTT(60) DEF Code, Conditionals, validate_ccregs, check_conditionals, ComparedAndRead, HazardReads,
       Operands, ExpectPrefixes, ReadPrefixes, Interrupts, ExpectChanged, Expect, BranchOver,
       ReadSeeds, Read, Clear, Compare, Draw, NegatedRow, Doubled, Twice, Negative, One, Zero,
       Vnop, Prefix,
       Control!Code, Control!Conditionals, Control!validate_ccregs, Control!check_conditionals,
       Control!ComparedAndRead, Control!HazardReads, Control!Operands, Control!ExpectPrefixes,
       Control!ReadPrefixes, Control!Interrupts, Control!ExpectChanged, Control!Expect,
       Control!BranchOver, Control!ReadSeeds, Control!Read, Control!Clear, Control!Compare,
       Control!Draw, Control!NegatedRow, Control!Doubled, Control!Twice, Control!Negative,
       Control!One, Control!Zero, Control!Vnop, Control!Prefix

\* Where the elements of a concatenation come from.
LEMMA TwoParts ==
  ASSUME NEW s, IsSequence(s), NEW t, IsSequence(t)
  PROVE  /\ Len(s \o t) = Len(s) + Len(t)
         /\ \A p \in 1..Len(s) : (s \o t)[p] = s[p]
         /\ \A p \in Len(s)+1..Len(s)+Len(t) : (s \o t)[p] = t[p - Len(s)]
BY ConcatSequence

\* The two parts of the code, one after the other.
LEMMA CodeParts ==
  /\ Len(Control!Code) = 128 /\ Conditionals = 68 /\ Control!Conditionals = 68
  /\ \A p \in 1..67 : Control!Code[p] = validate_ccregs[p]
  /\ \A p \in 68..128 : Control!Code[p] = check_conditionals[p - 67]
<1> DEFINE first == validate_ccregs
           second == check_conditionals
<1>0. IsSequence(first) /\ IsSequence(second)
  BY FirstCode, SecondCode
<1>1. Len(first) = 67 /\ Len(second) = 61
  BY FirstLength, SecondLength
<1>2. Code = first \o second
  BY Zenon DEF Code
<1>3. Conditionals = Len(first) + 1
  BY Zenon DEF Conditionals
<1> HIDE DEF first, second
<1>4. /\ Len(first \o second) = Len(first) + Len(second)
      /\ \A p \in 1..Len(first) : (first \o second)[p] = first[p]
      /\ \A p \in Len(first)+1..Len(first)+Len(second) :
           (first \o second)[p] = second[p - Len(first)]
  BY TwoParts, <1>0
<1>5. /\ Len(Control!Code) = 128
      /\ \A p \in 1..67 : Control!Code[p] = first[p]
      /\ \A p \in 68..128 : Control!Code[p] = second[p - 67]
  <2>1. Control!Code = first \o second
    BY Zenon, <1>2, SameCode
  <2>2. /\ Len(first \o second) = 67 + 61
        /\ \A p \in 1..67 : (first \o second)[p] = first[p]
        /\ \A p \in 67+1..67+61 : (first \o second)[p] = second[p - 67]
    BY ONLY Zenon, <1>1, <1>4
  <2>3. 67 + 1 = 68 /\ 67 + 61 = 128
    OBVIOUS
  <2> HIDE DEF Code, Control!Code
  <2> QED BY ONLY Zenon, <2>1, <2>2, <2>3
<1>6. Conditionals = 68 /\ Control!Conditionals = 68
  BY <1>1, <1>3, SameCode
<1>7. /\ \A p \in 1..67 : Control!Code[p] = validate_ccregs[p]
      /\ \A p \in 68..128 : Control!Code[p] = check_conditionals[p - 67]
  BY <1>5, Zenon DEF first, second
<1> QED BY <1>5, <1>6, <1>7

\* The positions in the two parts, one by one.
FirstPositions == {1, 2, 3, 4, 5, 6, 7, 8, 9, 10, 11, 12, 13, 14, 15, 16, 17, 18, 19, 20,
                   21, 22, 23, 24, 25, 26, 27, 28, 29, 30, 31, 32, 33, 34, 35, 36, 37, 38,
                   39, 40, 41, 42, 43, 44, 45, 46, 47, 48, 49, 50, 51, 52, 53, 54, 55, 56,
                   57, 58, 59, 60, 61, 62, 63, 64, 65, 66, 67}
SecondPositions == {1, 2, 3, 4, 5, 6, 7, 8, 9, 10, 11, 12, 13, 14, 15, 16, 17, 18, 19, 20,
                    21, 22, 23, 24, 25, 26, 27, 28, 29, 30, 31, 32, 33, 34, 35, 36, 37, 38,
                    39, 40, 41, 42, 43, 44, 45, 46, 47, 48, 49, 50, 51, 52, 53, 54, 55, 56,
                    57, 58, 59, 60, 61}

LEMMA Listed == 1..67 = FirstPositions /\ 1..61 = SecondPositions
BY SMT DEF FirstPositions, SecondPositions

\* The instructions of each kind: i is the one at p.
StandsAt(p, i) ==
  /\ i.op = "vpfx" =>
       <<p, i.r, i.payload>> \in
         {<<1, "d", 256>>, <<2, "s", 85>>, <<3, "t", 170>>, <<17, "s", 16777215>>,
          <<18, "t", 16777215>>, <<19, "d", 16777215>>, <<52, "d", 3840>>,
          <<54, "s", 983268>>, <<56, "t", 983268>>}
  /\ i.op = "vector" =>
       <<p, i.row, i.lanes, i.fn>> \in
         {<<10, "R000", 0..3, "twice">>, <<27, "R000", {0}, "random">>,
          <<30, "R000", 0..1, "random">>, <<33, "R000", 0..3, "random">>,
          <<36, "R000", {0}, "one">>, <<37, "R000", {0}, "random">>,
          <<41, "R000", {0}, "zero">>, <<42, "R000", {1}, "one">>,
          <<43, "R000", {2}, "minus_S010">>, <<44, "R000", {3}, "twice_S010">>,
          <<45, "R100", 0..3, "minus_R000">>, <<66, "R000", {0}, "twice">>,
          <<70, "R000", {0}, "zero">>, <<71, "R000", {1}, "one">>,
          <<72, "R000", {2}, "minus_S010">>, <<73, "R000", {3}, "twice_S010">>,
          <<74, "R100", 0..3, "minus_R000">>}
  /\ i.op = "vcmp" =>
       <<p, i.cond, i.n, i.row>> \in
         {<<46, "EQ", 4, "R000">>, <<75, "EQ", 4, "R000">>, <<81, "EQ", 4, "R000">>,
          <<85, "EQ", 4, "R000">>, <<95, "EQ", 4, "R000">>, <<99, "NE", 4, "R000">>,
          <<103, "EQ", 4, "R100">>, <<107, "NE", 4, "R100">>,
          <<115, "EQ", 1, "R000">>, <<119, "EQ", 2, "R000">>,
          <<123, "EQ", 3, "R000">>}
  /\ i.op = "mfvc" =>
       <<p, i.number, i.slot>> \in
         {<<4, 128, "pfs">>, <<5, 129, "pft">>, <<6, 130, "pfd">>,
          <<11, 128, "pfs">>, <<12, 129, "pft">>, <<13, 130, "pfd">>,
          <<20, 128, "pfs">>, <<21, 129, "pft">>, <<22, 130, "pfd">>,
          <<47, 131, "o0">>, <<48, 131, "o1">>, <<49, 131, "o2">>, <<50, 131, "o3">>,
          <<53, 130, "o4">>, <<55, 128, "o5">>, <<57, 129, "o6">>, <<76, 131, "o0">>,
          <<77, 131, "o1">>, <<78, 131, "o2">>, <<79, 131, "o3">>, <<83, 131, "o4">>,
          <<97, 131, "o0">>, <<101, 131, "o1">>, <<105, 131, "o2">>,
          <<109, 131, "o3">>, <<117, 131, "o0">>, <<121, 131, "o1">>,
          <<125, 131, "o2">>}
  /\ i.op = "seeds" =>
       <<p, i.slot>> \in
         {<<26, "A">>, <<28, "B">>, <<31, "A">>, <<34, "B">>, <<38, "A">>}
  /\ i.op = "bvt" =>
       <<p, i.bit, i.slot>> \in
         {<<86, 0, "o5">>}
  /\ i.op = "expect" =>
       <<p, i.slot, i.value>> \in
         {<<7, "pfd", 256>>, <<8, "pfs", 85>>, <<9, "pft", 170>>, <<14, "pfd", 0>>,
          <<15, "pfs", 228>>, <<16, "pft", 228>>, <<23, "pfd", 4095>>,
          <<24, "pfs", 1048575>>, <<25, "pft", 1048575>>, <<58, "o0", 0>>,
          <<59, "o1", 63>>, <<60, "o2", 63>>, <<61, "o3", 63>>, <<62, "o4", 3840>>,
          <<63, "o5", 983268>>, <<64, "o6", 983268>>, <<88, "o0", 0>>,
          <<89, "o1", 63>>, <<90, "o2", 63>>, <<91, "o3", 63>>, <<92, "o4", 63>>,
          <<93, "o5", 0>>, <<110, "o0", 63>>, <<111, "o1", 0>>, <<112, "o2", 17>>,
          <<113, "o3", 30>>, <<126, "o0", 49>>, <<127, "o1", 51>>, <<128, "o2", 55>>}
  /\ i.op = "vnop" =>
       p \in {65, 67, 82, 96, 100, 104, 108, 116, 120, 124}
  /\ i.op = "mtvc" =>
       p \in {40, 51, 69, 80, 84, 94, 98, 102, 106, 114, 118, 122}
  /\ i.op = "changed" =>
       p \in {29, 32, 35, 39}
  /\ i.op = "interrupts" => p \in {68, 87}

\* The instruction at every place is listed for its kind.
LEMMA Listing == ASSUME NEW p \in 1..128 PROVE StandsAt(p, Control!Code[p])
<1> DEFINE i == Control!Code[p]
<1>1. CASE p \in 1..67
  <2>1. p \in FirstPositions /\ i = validate_ccregs[p]
    BY <1>1, CodeParts, Listed
  <2> HIDE DEF i
  <2>2. StandsAt(p, i)
    BY <2>1, FirstList, SMTT(60)
       DEF StandsAt, FirstPositions, Prefix, Vnop, Zero, One, Negative, Twice, Doubled, NegatedRow,
           Draw, Compare, Clear, Read, ReadSeeds, BranchOver, Expect, ExpectChanged
  <2> QED BY <2>2 DEF i
<1>2. CASE p \in 68..128
  <2> DEFINE q == p - 67
  <2>1. q \in SecondPositions /\ p = q + 67 /\ i = check_conditionals[q]
    BY <1>2, CodeParts, Listed
  <2> HIDE DEF i, q
  <2>2. StandsAt(q + 67, i)
    BY <2>1, SecondList, SMTT(60)
       DEF StandsAt, SecondPositions, Prefix, Vnop, Zero, One, Negative, Twice, Doubled, NegatedRow,
           Draw, Compare, Clear, Read, ReadSeeds, BranchOver, Expect, ExpectChanged
  <2>3. StandsAt(p, i)
    BY Zenon, <2>1, <2>2
  <2> QED BY <2>3 DEF i
<1> QED BY <1>1, <1>2

\* Interrupts are switched off first and on later.
LEMMA Switches == Control!Code[68].on = FALSE /\ Control!Code[87].on = TRUE
<1>1. Control!Code[68] = check_conditionals[1] /\ Control!Code[87] = check_conditionals[20]
  BY CodeParts, 68 - 67 = 1, 87 - 67 = 20
<1>2. check_conditionals[1].on = FALSE /\ check_conditionals[20].on = TRUE
  BY Zenon, SecondList
<1> QED BY Zenon, <1>1, <1>2

-----------------------------------------------------------------------------
(* What holds between its instructions: the parts of an invariant.          *)

\* The call whose checks the code stands before or in: it runs when main has
\* come to it and is left where it is by everything else.
Progress ==
  /\ pc \in 1..129
  /\ check < 2 => pc = 1
  /\ check = 2 => pc \in 1..68
  /\ check \in 3..6 => pc = 68
  /\ check = 7 => pc \in 68..129
  /\ check > 7 => pc = 129

\* Interrupts are out where the timing matters; one that comes is counted.
Masking ==
  /\ masked \in BOOLEAN
  /\ pc \in 69..87 => masked
  /\ interrupts \in 0..MaxInterrupts
  /\ disturbed \subseteq 1..pc /\ disturbed \subseteq 1..128

ControlState == [pfx : [{"s", "t", "d"} -> Nat], cc : SUBSET (0..5), seen : SUBSET (0..5)]

\* The prefixes: set three at a time and consumed by the next vector
\* instruction.
PrefixesInv ==
  /\ ctl \in ControlState
  /\ ctl.pfx["d"] = IF pc \in 2..10 THEN 256 ELSE IF pc \in 20..27 THEN 4095
                    ELSE IF pc \in 53..65 THEN 3840 ELSE 0
  /\ ctl.pfx["s"] = IF pc \in 3..10 THEN 85 ELSE IF pc \in 18..27 THEN 1048575
                    ELSE IF pc \in 55..65 THEN 983268 ELSE 228
  /\ ctl.pfx["t"] = IF pc \in 4..10 THEN 170 ELSE IF pc \in 19..27 THEN 1048575
                    ELSE IF pc \in 57..65 THEN 983268 ELSE 228

\* The values that are compared, known from the instruction that makes them on.
Operand(lane) == IF lane \in {0, 1} THEN lane ELSE IF lane = 2 THEN -1 ELSE 2

Value(row, lane, p) ==
  IF row = "R000" THEN IF p > 41 + lane THEN Operand(lane)
                       ELSE IF p = 37 /\ lane = 0 THEN 1 ELSE Unknown
  ELSE IF p > 45 THEN -Operand(lane) ELSE Unknown

\* A lane of the two rows holds what it is compared with.
KnownLane(lane) ==
  regs["R000"][lane] = Operand(lane) /\ regs["R100"][lane] = -Operand(lane)

OperandsInv ==
  regs = [row \in {"R000", "R100"} |-> [lane \in 0..3 |-> Value(row, lane, pc)]]

\* The draws made.
SeedsInv == seeds = IF pc < 28 THEN 0 ELSE IF pc < 31 THEN 1 ELSE IF pc < 34 THEN 2
                    ELSE IF pc < 38 THEN 3 ELSE 4

\* The condition code, cleared before every vcmp, and how a mfvc reads it: late
\* after a vcmp that no interrupt has come after.
Compared(p) ==
  CASE p \in 47..51 \cup 76..80 \cup 82..84 \cup 86..94 \cup 96..98 -> 0..5
    [] p \in 104..106 -> {0, 4}
    [] p \in 108..114 -> {1, 2, 3, 4}
    [] p \in 116..118 -> {0, 4, 5}
    [] p \in 120..122 -> {0, 1, 4, 5}
    [] p \in 124..129 -> {0, 1, 2, 4, 5}
    [] OTHER -> {}

ConditionInv ==
  /\ ctl.cc = Compared(pc)
  /\ pc = 47 => ctl.seen = IF 47 \in disturbed THEN 0..5 ELSE {}
  /\ pc = 76 => ctl.seen = {}
  /\ pc \notin {47, 76, 82, 86, 96, 100, 104, 108, 116, 120, 124} => ctl.seen = ctl.cc

\* What is in a slot from when it is read to when it is looked at.
Held(slot, first, last, value) == pc \in first..last => out[slot] = value

PrefixesRead ==
  /\ Held("pfs", 5, 8, 85) /\ Held("pft", 6, 9, 170) /\ Held("pfd", 7, 7, 256)
  /\ Held("pfs", 12, 15, 228) /\ Held("pft", 13, 16, 228) /\ Held("pfd", 14, 14, 0)
  /\ Held("pfs", 21, 24, 1048575) /\ Held("pft", 22, 25, 1048575) /\ Held("pfd", 23, 23, 4095)

SeedsRead ==
  /\ Held("A", 27, 29, 0) /\ Held("B", 29, 32, 1) /\ Held("A", 32, 35, 2)
  /\ Held("B", 35, 39, 3) /\ Held("A", 39, 39, 4)

FirstRead ==
  /\ Held("o0", 48, 58, IF 47 \in disturbed THEN 63 ELSE 0)
  /\ Held("o1", 49, 59, 63) /\ Held("o2", 50, 60, 63) /\ Held("o3", 51, 61, 63)
  /\ Held("o4", 54, 62, 3840) /\ Held("o5", 56, 63, 983268) /\ Held("o6", 58, 64, 983268)

SecondRead ==
  /\ Held("o0", 77, 88, 0) /\ Held("o1", 78, 89, 63) /\ Held("o2", 79, 90, 63)
  /\ Held("o3", 80, 91, 63) /\ Held("o4", 84, 92, 63) /\ Held("o5", 87, 93, 0)
  /\ Held("o0", 98, 110, 63) /\ Held("o1", 102, 111, 0) /\ Held("o2", 106, 112, 17)
  /\ Held("o3", 110, 113, 30)
  /\ Held("o0", 118, 126, 49) /\ Held("o1", 122, 127, 51) /\ Held("o2", 126, 128, 55)

ReadInv ==
  /\ out \in [Control!Slots -> Nat]
  /\ PrefixesRead /\ SeedsRead /\ FirstRead /\ SecondRead

\* The reports: none but that of the old condition code.
ErrorsInv ==
  /\ check = 2 => errs = IF pc > 58 /\ 47 \in disturbed THEN <<58>> ELSE <<>>
  /\ check = 7 => errs = <<>>

-----------------------------------------------------------------------------
(* What the instructions do.                                                *)

\* The instruction about to be executed is one of those listed.
LEMMA Instruction ==
  ASSUME pc \in Nat \ {0}, NEW op, Control!At(op)
  PROVE  pc \in 1..128 /\ Control!i.op = op /\ StandsAt(pc, Control!i)
<1>1. pc \in 1..128 /\ Control!Code[pc].op = op
  BY CodeParts DEF Control!At
<1> QED BY Zenon, <1>1, Listing DEF Control!i

\* Where the kinds of instructions are that change more than the registers of
\* the processor.
Settings == {1, 2, 3, 17, 18, 19, 52, 54, 56}
Vectors  == {10, 27, 30, 33, 36, 37} \cup 41..45 \cup {66} \cup 70..74
Vnops    == {65, 67, 82, 96, 100, 104, 108, 116, 120, 124}
Compares == {46, 75, 81, 85, 95, 99, 103, 107, 115, 119, 123}
Clears   == {40, 51, 69, 80, 84, 94, 98, 102, 106, 114, 118, 122}
Switchings == {68, 87}

Operations == {"vpfx", "vector", "vnop", "vcmp", "mtvc", "mfvc", "seeds", "bvt",
               "expect", "changed", "interrupts"}

LEMMA Sorted ==
  ASSUME NEW p \in 1..128, NEW i, i.op \in Operations, StandsAt(p, i)
  PROVE  /\ i.op = "vpfx" <=> p \in Settings
         /\ i.op = "vector" <=> p \in Vectors
         /\ i.op = "vnop" <=> p \in Vnops
         /\ i.op = "vcmp" <=> p \in Compares
         /\ i.op = "mtvc" <=> p \in Clears
         /\ i.op = "interrupts" <=> p \in Switchings
<1>1. /\ i.op = "vpfx" => p \in Settings
      /\ i.op = "vector" => p \in Vectors
      /\ i.op = "vnop" => p \in Vnops
      /\ i.op = "vcmp" => p \in Compares
      /\ i.op = "mtvc" => p \in Clears
      /\ i.op = "interrupts" => p \in Switchings
  BY SMT DEF StandsAt, Settings, Vectors, Vnops, Compares, Clears, Switchings
<1>2. ASSUME i.op \in {"mfvc", "seeds", "bvt", "expect", "changed"}
      PROVE  p \notin Settings \cup Vectors \cup Vnops \cup Compares \cup Clears \cup Switchings
  BY <1>2, SMT DEF StandsAt, Settings, Vectors, Vnops, Compares, Clears, Switchings
<1>3. /\ Settings \cap (Vectors \cup Vnops \cup Compares \cup Clears \cup Switchings) = {}
      /\ Vectors \cap (Vnops \cup Compares \cup Clears \cup Switchings) = {}
      /\ Vnops \cap (Compares \cup Clears \cup Switchings) = {}
      /\ Compares \cap (Clears \cup Switchings) = {} /\ Clears \cap Switchings = {}
  BY SMT DEF Settings, Vectors, Vnops, Compares, Clears, Switchings
<1> QED BY Zenon, <1>1, <1>2, <1>3 DEF Operations

\* A step executes the instruction at pc or is an interrupt before it.
LEMMA Steps ==
  ASSUME pc \in 1..129, Control!Next
  PROVE  \/ Control!Interrupt /\ pc' = pc
         \/ /\ ~Control!Interrupt /\ pc' = pc + 1 /\ pc \in 1..128
            /\ Control!i.op \in Operations /\ StandsAt(pc, Control!i)
            /\ Control!ExecVpfx <=> pc \in Settings
            /\ Control!ExecVector <=> pc \in Vectors
            /\ Control!ExecVnop <=> pc \in Vnops
            /\ Control!ExecVcmp <=> pc \in Compares
            /\ Control!ExecMtvc <=> pc \in Clears
            /\ Control!SetInterrupts <=> pc \in Switchings
<1>0. pc \in Nat \ {0} /\ pc + 1 # pc
  OBVIOUS
<1>1. CASE Control!Interrupt
  BY <1>1 DEF Control!Interrupt
<1>2. CASE ~Control!Interrupt
  <2>1. pc' = pc + 1 /\ \E op \in Operations : Control!At(op)
    BY <1>2 DEF Control!Next, Control!ExecVpfx, Control!ExecVector, Control!ExecVnop, Control!ExecVcmp,
         Control!ExecMtvc, Control!ExecMfvc, Control!readrndreg, Control!ExecBranch, Control!Check,
         Control!RetErr, Control!SetInterrupts, Operations
  <2>2. pc \in 1..128 /\ Control!i.op \in Operations /\ StandsAt(pc, Control!i)
    BY Zenon, <1>0, <2>1, Instruction
  <2>3. /\ Control!ExecVpfx <=> Control!i.op = "vpfx"
        /\ Control!ExecVector <=> Control!i.op = "vector"
        /\ Control!ExecVnop <=> Control!i.op = "vnop"
        /\ Control!ExecVcmp <=> Control!i.op = "vcmp"
        /\ Control!ExecMtvc <=> Control!i.op = "mtvc"
        /\ Control!SetInterrupts <=> Control!i.op = "interrupts"
    <3>1. \A op : Control!At(op) => Control!i.op = op
      BY Zenon, <1>0, Instruction
    <3> QED BY <1>2, <3>1 DEF Control!Next, Control!ExecVpfx, Control!ExecVector, Control!ExecVnop,
         Control!ExecVcmp, Control!ExecMtvc, Control!ExecMfvc, Control!readrndreg,
         Control!ExecBranch, Control!Check, Control!SetInterrupts
  <2> QED BY Zenon, <1>2, <2>1, <2>2, <2>3, Sorted
<1> QED BY <1>1, <1>2

\* Instructions that are neither a vpfx nor a vector instruction.
Scalar == Control!ExecMtvc \/ Control!ExecMfvc \/ Control!readrndreg \/ Control!ExecBranch
            \/ Control!Check \/ Control!SetInterrupts

LEMMA Kinds ==
  Control!Next <=> \/ Control!ExecVpfx \/ Control!ExecVector \/ Control!ExecVnop \/ Control!ExecVcmp
                   \/ Scalar \/ Control!Interrupt
BY Zenon DEF Control!Next, Scalar

\* Settling, as all instructions but vcmp do, changes nothing but what a mfvc reads.
LEMMA SettledIs ==
  ASSUME NEW c \in ControlState
  PROVE  /\ Control!Settled(c) \in ControlState
         /\ Control!Settled(c).pfx = c.pfx /\ Control!Settled(c).cc = c.cc
         /\ Control!Settled(c).seen = c.cc
BY DEF Control!Settled, ControlState

LEMMA DefaultsAre ==
  /\ Control!DefaultPrefixes \in [{"s", "t", "d"} -> Nat]
  /\ Control!DefaultPrefixes["s"] = 228 /\ Control!DefaultPrefixes["t"] = 228
  /\ Control!DefaultPrefixes["d"] = 0
BY DEF Control!DefaultPrefixes, Control!Prefixed, Control!Sources

LEMMA VpfxIs ==
  ASSUME NEW c \in ControlState, NEW r \in {"s", "t", "d"}, NEW payload \in Nat,
         NEW kept \in Nat,
         kept = IF r = "d" THEN payload % 4096 ELSE payload % 1048576
  PROVE  /\ Control!Vpfx(c, r, payload) \in ControlState
         /\ Control!Vpfx(c, r, payload).pfx = [c.pfx EXCEPT ![r] = kept]
         /\ Control!Vpfx(c, r, payload).cc = c.cc
         /\ Control!Vpfx(c, r, payload).seen = c.cc
<1>1. payload % 2^Control!PayloadBits(r) = kept
  <2>1. 2^20 = 1048576 /\ 2^12 = 4096
    OBVIOUS
  <2> QED BY <2>1 DEF Control!PayloadBits, Control!Sources
<1>2. Control!Vpfx(c, r, payload) = [Control!Settled(c) EXCEPT !.pfx[r] = kept]
  BY <1>1 DEF Control!Vpfx
<1> QED BY <1>2, SettledIs DEF ControlState

\* What each kind of instruction does to the control registers.
LEMMA ScalarIs ==
  ASSUME ctl \in ControlState, Scalar
  PROVE  /\ ctl' \in ControlState /\ ctl'.pfx = ctl.pfx /\ ctl'.seen = ctl'.cc
         /\ ctl'.cc = IF Control!ExecMtvc THEN {} ELSE ctl.cc
<1>1. CASE Control!ExecMtvc
  <2>1. ctl' = [ctl EXCEPT !.cc = {}, !.seen = {}]
    BY <1>1 DEF Control!ExecMtvc, Control!Mtvc
  <2> QED BY <1>1, <2>1 DEF ControlState
<1>2. CASE ~Control!ExecMtvc
  <2>1. ctl' = Control!Settled(ctl)
    BY <1>2 DEF Scalar, Control!ExecMfvc, Control!readrndreg, Control!ExecBranch, Control!Check,
            Control!RetErr, Control!SetInterrupts
  <2> QED BY <1>2, <2>1, SettledIs
<1> QED BY <1>1, <1>2

LEMMA VectorIs ==
  ASSUME ctl \in ControlState, Control!ExecVector \/ Control!ExecVnop
  PROVE  /\ ctl' \in ControlState /\ ctl'.pfx = Control!DefaultPrefixes
         /\ ctl'.cc = ctl.cc /\ ctl'.seen = ctl.cc
<1>1. ctl' = [Control!Settled(ctl) EXCEPT !.pfx = Control!DefaultPrefixes]
  BY DEF Control!ExecVector, Control!ExecVnop, Control!Vector
<1> QED BY <1>1, SettledIs, DefaultsAre DEF ControlState

LEMMA InterruptIs ==
  ASSUME ctl \in ControlState, Control!Interrupt
  PROVE  /\ ctl' \in ControlState /\ ctl'.pfx = ctl.pfx
         /\ ctl'.cc = ctl.cc /\ ctl'.seen = ctl.cc
BY SettledIs DEF Control!Interrupt

LEMMA VpfxStep ==
  ASSUME pc \in 1..129, ctl \in ControlState, Control!ExecVpfx
  PROVE  /\ pc' = pc + 1 /\ ctl' \in ControlState
         /\ ctl'.cc = ctl.cc /\ ctl'.seen = ctl.cc
         /\ \/ pc = 1 /\ ctl'.pfx = [ctl.pfx EXCEPT !["d"] = 256]
            \/ pc = 2 /\ ctl'.pfx = [ctl.pfx EXCEPT !["s"] = 85]
            \/ pc = 3 /\ ctl'.pfx = [ctl.pfx EXCEPT !["t"] = 170]
            \/ pc = 17 /\ ctl'.pfx = [ctl.pfx EXCEPT !["s"] = 1048575]
            \/ pc = 18 /\ ctl'.pfx = [ctl.pfx EXCEPT !["t"] = 1048575]
            \/ pc = 19 /\ ctl'.pfx = [ctl.pfx EXCEPT !["d"] = 4095]
            \/ pc = 52 /\ ctl'.pfx = [ctl.pfx EXCEPT !["d"] = 3840]
            \/ pc = 54 /\ ctl'.pfx = [ctl.pfx EXCEPT !["s"] = 983268]
            \/ pc = 56 /\ ctl'.pfx = [ctl.pfx EXCEPT !["t"] = 983268]
<1> DEFINE r == Control!i.r
           payload == Control!i.payload
           kept == IF r = "d" THEN payload % 4096 ELSE payload % 1048576
<1>1. ctl' = Control!Vpfx(ctl, r, payload) /\ pc' = pc + 1
  BY DEF Control!ExecVpfx
<1>2. Control!i.op = "vpfx" /\ StandsAt(pc, Control!i)
  <2>1. pc \in Nat \ {0} /\ Control!At("vpfx")
    BY DEF Control!ExecVpfx
  <2> QED BY Zenon, <2>1, Instruction
<1>3. <<pc, r, payload>> \in
         {<<1, "d", 256>>, <<2, "s", 85>>, <<3, "t", 170>>, <<17, "s", 16777215>>,
          <<18, "t", 16777215>>, <<19, "d", 16777215>>, <<52, "d", 3840>>,
          <<54, "s", 983268>>, <<56, "t", 983268>>}
  BY SMT, <1>2 DEF StandsAt
<1> HIDE DEF r, payload
<1>4. r \in {"s", "t", "d"} /\ payload \in Nat /\ kept \in Nat
  BY <1>3
<1>5. <<pc, r, kept>> \in
         {<<1, "d", 256>>, <<2, "s", 85>>, <<3, "t", 170>>, <<17, "s", 1048575>>,
          <<18, "t", 1048575>>, <<19, "d", 4095>>, <<52, "d", 3840>>,
          <<54, "s", 983268>>, <<56, "t", 983268>>}
  BY <1>3
<1> HIDE DEF kept
<1>6. /\ ctl' \in ControlState /\ ctl'.cc = ctl.cc /\ ctl'.seen = ctl.cc
      /\ ctl'.pfx = [ctl.pfx EXCEPT ![r] = kept]
  BY <1>1, <1>4, VpfxIs DEF kept
<1> QED BY <1>1, <1>5, <1>6

LEMMA OperandRange == \A l \in 0..3 : Operand(l) \in -4..4 /\ -Operand(l) \in -4..4
<1> SUFFICES ASSUME NEW l \in 0..3 PROVE Operand(l) \in -4..4 /\ -Operand(l) \in -4..4
  OBVIOUS
<1>1. Operand(l) \in {-1, 0, 1, 2}
  BY DEF Operand
<1> QED BY <1>1

\* No prefix is set when a vcmp is executed, and the values it compares are known.
LEMMA OperandsKnown ==
  ASSUME Progress, PrefixesInv, OperandsInv, Control!At("vcmp")
  PROVE  /\ <<pc, Control!i.cond, Control!i.n, Control!i.row>> \in
              {<<46, "EQ", 4, "R000">>, <<75, "EQ", 4, "R000">>, <<81, "EQ", 4, "R000">>,
               <<85, "EQ", 4, "R000">>, <<95, "EQ", 4, "R000">>, <<99, "NE", 4, "R000">>,
               <<103, "EQ", 4, "R100">>, <<107, "NE", 4, "R100">>,
               <<115, "EQ", 1, "R000">>, <<119, "EQ", 2, "R000">>, <<123, "EQ", 3, "R000">>}
         /\ ctl.pfx = Control!DefaultPrefixes
         /\ \A lane \in 0..3 : KnownLane(lane)
<1>1. pc \in Nat \ {0}
  BY DEF Progress
<1>2. Control!i.op = "vcmp" /\ StandsAt(pc, Control!i)
  BY Zenon, <1>1, Instruction
<1>3. <<pc, Control!i.cond, Control!i.n, Control!i.row>> \in
              {<<46, "EQ", 4, "R000">>, <<75, "EQ", 4, "R000">>, <<81, "EQ", 4, "R000">>,
               <<85, "EQ", 4, "R000">>, <<95, "EQ", 4, "R000">>, <<99, "NE", 4, "R000">>,
               <<103, "EQ", 4, "R100">>, <<107, "NE", 4, "R100">>,
               <<115, "EQ", 1, "R000">>, <<119, "EQ", 2, "R000">>, <<123, "EQ", 3, "R000">>}
  BY SMT, <1>2 DEF StandsAt
<1> HIDE DEF Control!i
<1>4. pc \in {46, 75, 81, 85, 95, 99, 103, 107, 115, 119, 123}
  BY <1>3
<1>5. ctl.pfx = Control!DefaultPrefixes
  <2>1. ctl.pfx["s"] = 228 /\ ctl.pfx["t"] = 228 /\ ctl.pfx["d"] = 0
    BY <1>4 DEF PrefixesInv
  <2>2. ctl.pfx \in [{"s", "t", "d"} -> Nat]
    BY DEF PrefixesInv, ControlState
  <2> QED BY <2>1, <2>2, DefaultsAre
<1>6. \A lane \in 0..3 : KnownLane(lane)
  BY <1>4 DEF OperandsInv, Value, KnownLane
<1> QED BY <1>3, <1>5, <1>6

\* The lanes that compare true.
Equal(cond, n, row) ==
  {l \in 0..n-1 : (regs["R000"][l] = regs[row][l]) = (cond = "EQ")}

LEMMA VcmpStep ==
  ASSUME Progress, PrefixesInv, OperandsInv, Control!ExecVcmp
  PROVE  ctl' = Control!Vcmp(ctl, Control!i.n,
                             Equal(Control!i.cond, Control!i.n, Control!i.row))
<1> DEFINE n == Control!i.n
           row == Control!i.row
           unsure == IF ctl.pfx # Control!DefaultPrefixes THEN 0..n-1
                     ELSE {l \in 0..n-1 : Unknown \in {regs["R000"][l], regs[row][l]}}
           equal == {l \in 0..n-1 \ unsure :
                       (regs["R000"][l] = regs[row][l]) = (Control!i.cond = "EQ")}
<1>1. \E more \in SUBSET unsure : ctl' = Control!Vcmp(ctl, n, equal \cup more)
  BY Zenon DEF Control!ExecVcmp
<1>2. /\ n \in 1..4 /\ row \in {"R000", "R100"} /\ ctl.pfx = Control!DefaultPrefixes
      /\ \A lane \in 0..3 : KnownLane(lane)
  BY OperandsKnown DEF Control!ExecVcmp
<1>3. Unknown \notin -4..4
  BY ConstantsAssumption
<1> HIDE DEF n, row
<1>4. \A l \in 0..3 : Operand(l) \in -4..4 /\ -Operand(l) \in -4..4
  BY OperandRange
<1>5. unsure = {}
  <2>1. \A l \in 0..3 : regs["R000"][l] # Unknown /\ regs["R100"][l] # Unknown
    BY Zenon, <1>2, <1>3, <1>4 DEF KnownLane
  <2>2. ASSUME NEW l \in 0..n-1 PROVE regs["R000"][l] # Unknown /\ regs[row][l] # Unknown
    <3>1. l \in 0..3
      BY <1>2
    <3> QED BY Zenon, <1>2, <2>1, <3>1
  <2> QED BY Zenon, <1>2, <2>2
<1>6. equal = Equal(Control!i.cond, n, row)
  BY <1>5 DEF Equal
<1> HIDE DEF unsure, equal
<1>7. ctl' = Control!Vcmp(ctl, n, equal)
  BY <1>1, <1>5
<1> QED BY <1>6, <1>7 DEF n, row

LEMMA EqualIs ==
  ASSUME \A lane \in 0..3 : KnownLane(lane)
  PROVE  /\ \A n \in 1..4 : Equal("EQ", n, "R000") = 0..n-1
         /\ Equal("NE", 4, "R000") = {}
         /\ Equal("EQ", 4, "R100") = {0}
         /\ Equal("NE", 4, "R100") = {1, 2, 3}
<1>1. \A n \in 1..4 : Equal("EQ", n, "R000") = 0..n-1
  BY DEF Equal
<1>2. Equal("NE", 4, "R000") = {}
  BY DEF Equal
<1>3. \A l \in 0..3 : (Operand(l) = -Operand(l)) = (l = 0)
  BY DEF Operand
<1>4. Equal("EQ", 4, "R100") = {0}
  BY <1>3 DEF Equal, KnownLane
<1>5. Equal("NE", 4, "R100") = {1, 2, 3}
  <2>1. \A l \in 0..3 : l # 0 <=> l \in {1, 2, 3}
    OBVIOUS
  <2> QED BY <1>3, <2>1 DEF Equal, KnownLane
<1> QED BY <1>1, <1>2, <1>4, <1>5

\* The condition codes these comparisons make, where it was clear before.
LEMMA Aggregates ==
  /\ Control!Aggregate({}, 4, 0..3) = 0..5
  /\ Control!Aggregate({}, 4, {}) = {}
  /\ Control!Aggregate({}, 4, {0}) = {0, 4}
  /\ Control!Aggregate({}, 4, {1, 2, 3}) = {1, 2, 3, 4}
  /\ Control!Aggregate({}, 1, 0..0) = {0, 4, 5}
  /\ Control!Aggregate({}, 2, 0..1) = {0, 1, 4, 5}
  /\ Control!Aggregate({}, 3, 0..2) = {0, 1, 2, 4, 5}
BY DEF Control!Aggregate

LEMMA VcmpIs ==
  ASSUME Progress, PrefixesInv, OperandsInv, ConditionInv, Control!ExecVcmp
  PROVE  /\ pc' = pc + 1 /\ ctl' \in ControlState
         /\ ctl'.pfx = Control!DefaultPrefixes
         /\ ctl'.cc = Compared(pc + 1) /\ ctl'.seen = {}
<1> DEFINE n == Control!i.n
           equal == Equal(Control!i.cond, n, Control!i.row)
           code == Control!Aggregate({}, n, equal)
<1>1. Control!At("vcmp") /\ pc' = pc + 1
  BY DEF Control!ExecVcmp
<1>2. /\ <<pc, Control!i.cond, Control!i.n, Control!i.row>> \in
              {<<46, "EQ", 4, "R000">>, <<75, "EQ", 4, "R000">>, <<81, "EQ", 4, "R000">>,
               <<85, "EQ", 4, "R000">>, <<95, "EQ", 4, "R000">>, <<99, "NE", 4, "R000">>,
               <<103, "EQ", 4, "R100">>, <<107, "NE", 4, "R100">>,
               <<115, "EQ", 1, "R000">>, <<119, "EQ", 2, "R000">>, <<123, "EQ", 3, "R000">>}
      /\ \A lane \in 0..3 : KnownLane(lane)
  BY <1>1, OperandsKnown
<1>3. pc \in {46, 75, 81, 85, 95, 99, 103, 107, 115, 119, 123}
  BY <1>2
<1>4. ctl.cc = {}
  BY <1>3 DEF ConditionInv, Compared
<1>5. ctl' = [pfx |-> Control!DefaultPrefixes, cc |-> code, seen |-> {}]
  <2>1. ctl' = Control!Vcmp(ctl, n, equal)
    BY VcmpStep
  <2> QED BY <1>4, <2>1 DEF Control!Vcmp
<1>6. code = Compared(pc + 1)
  <2>1. CASE pc \in {46, 75, 81, 85, 95}
    <3>1. n = 4 /\ equal = 0..3
      BY <1>2, <2>1, EqualIs
    <3>2. Compared(pc + 1) = 0..5
      BY <2>1 DEF Compared
    <3> QED BY <3>1, <3>2, Aggregates
  <2>2. CASE pc = 99
    <3>1. n = 4 /\ equal = {}
      BY <1>2, <2>2, EqualIs
    <3>2. Compared(pc + 1) = {}
      BY <2>2 DEF Compared
    <3> QED BY <3>1, <3>2, Aggregates
  <2>3. CASE pc = 103
    <3>1. n = 4 /\ equal = {0}
      BY <1>2, <2>3, EqualIs
    <3>2. Compared(pc + 1) = {0, 4}
      BY <2>3 DEF Compared
    <3> QED BY <3>1, <3>2, Aggregates
  <2>4. CASE pc = 107
    <3>1. n = 4 /\ equal = {1, 2, 3}
      BY <1>2, <2>4, EqualIs
    <3>2. Compared(pc + 1) = {1, 2, 3, 4}
      BY <2>4 DEF Compared
    <3> QED BY <3>1, <3>2, Aggregates
  <2>5. CASE pc = 115
    <3>1. n = 1 /\ equal = 0..0
      BY <1>2, <2>5, EqualIs
    <3>2. Compared(pc + 1) = {0, 4, 5}
      BY <2>5 DEF Compared
    <3> QED BY <3>1, <3>2, Aggregates
  <2>6. CASE pc = 119
    <3>1. n = 2 /\ equal = 0..1
      BY <1>2, <2>6, EqualIs
    <3>2. Compared(pc + 1) = {0, 1, 4, 5}
      BY <2>6 DEF Compared
    <3> QED BY <3>1, <3>2, Aggregates
  <2>7. CASE pc = 123
    <3>1. n = 3 /\ equal = 0..2
      BY <1>2, <2>7, EqualIs
    <3>2. Compared(pc + 1) = {0, 1, 2, 4, 5}
      BY <2>7 DEF Compared
    <3> QED BY <3>1, <3>2, Aggregates
  <2> QED BY <1>3, <2>1, <2>2, <2>3, <2>4, <2>5, <2>6, <2>7
<1> HIDE DEF code
<1>7. Compared(pc + 1) \in SUBSET (0..5)
  BY DEF Compared
<1> QED BY <1>1, <1>5, <1>6, <1>7, DefaultsAre DEF ControlState

LEMMA PrefixesNext ==
  ASSUME Progress, PrefixesInv, OperandsInv, ConditionInv, Control!Next
  PROVE  PrefixesInv'
<1>0. pc \in 1..129 /\ ctl \in ControlState /\ ctl.pfx \in [{"s", "t", "d"} -> Nat]
  BY DEF Progress, PrefixesInv, ControlState
<1>1. CASE Control!ExecVpfx
  BY <1>0, <1>1, VpfxStep DEF PrefixesInv
<1>2. CASE ~Control!Interrupt /\ (Control!ExecVector \/ Control!ExecVnop \/ Control!ExecVcmp)
  <2>1. pc' = pc + 1 /\ pc \in Vectors \cup Vnops \cup Compares
    BY <1>0, <1>2, Steps
  <2>2. ctl' \in ControlState /\ ctl'.pfx = Control!DefaultPrefixes
    BY <1>0, <1>2, VectorIs, VcmpIs
  <2> QED BY <2>1, <2>2, DefaultsAre DEF PrefixesInv, Vectors, Vnops, Compares
<1>3. CASE Scalar /\ ~Control!Interrupt /\ ~Control!ExecVpfx
               /\ ~(Control!ExecVector \/ Control!ExecVnop \/ Control!ExecVcmp)
  <2>1. pc' = pc + 1 /\ pc \notin Settings \cup Vectors \cup Vnops \cup Compares
    BY <1>0, <1>3, Steps
  <2>2. ctl' \in ControlState /\ ctl'.pfx = ctl.pfx
    BY <1>0, <1>3, ScalarIs
  <2> QED BY <1>0, <2>1, <2>2 DEF PrefixesInv, Settings, Vectors, Vnops, Compares
<1>4. CASE Control!Interrupt
  <2>1. pc' = pc /\ ctl' \in ControlState /\ ctl'.pfx = ctl.pfx
    BY <1>0, <1>4, InterruptIs DEF Control!Interrupt
  <2> QED BY <2>1 DEF PrefixesInv
<1> QED BY <1>1, <1>2, <1>3, <1>4, Kinds

\* The condition code: only vcmp and mtvc write it, and it settles otherwise.
LEMMA ConditionNext ==
  ASSUME Progress, Masking, PrefixesInv, OperandsInv, ConditionInv, Control!Next
  PROVE  ConditionInv'
<1>0. pc \in 1..129 /\ ctl \in ControlState
  BY DEF Progress, PrefixesInv
<1>1. CASE Control!Interrupt
  <2>1. pc' = pc /\ ctl'.cc = ctl.cc /\ ctl'.seen = ctl.cc /\ disturbed' = disturbed \cup {pc}
    BY <1>0, <1>1, InterruptIs DEF Control!Interrupt
  <2>2. pc # 76
    BY <1>1 DEF Control!Interrupt, Masking
  <2>3. Compared(47) = 0..5
    BY DEF Compared
  <2> QED BY <2>1, <2>2, <2>3 DEF ConditionInv
<1>2. CASE ~Control!Interrupt /\ Control!ExecVcmp
  <2>1. /\ pc' = pc + 1 /\ ctl'.cc = Compared(pc + 1) /\ ctl'.seen = {}
        /\ pc \in Compares
    BY <1>0, <1>2, VcmpIs, Steps
  <2>2. UNCHANGED disturbed /\ (pc + 1 = 47 => 47 \notin disturbed)
    BY <1>0, <1>2 DEF Control!ExecVcmp, Masking
  <2> QED BY <2>1, <2>2 DEF ConditionInv, Compares
<1>3. CASE ~Control!Interrupt /\ ~Control!ExecVcmp
  <2>1. pc' = pc + 1 /\ pc \in 1..128 /\ pc \notin Compares /\ (Control!ExecMtvc <=> pc \in Clears)
    BY <1>0, <1>3, Steps
  <2>2. ctl'.seen = ctl'.cc /\ ctl'.cc = IF pc \in Clears THEN {} ELSE ctl.cc
    <3>1. CASE Scalar
      BY <1>0, <2>1, <3>1, ScalarIs
    <3>2. CASE Control!ExecVector \/ Control!ExecVnop \/ Control!ExecVpfx
      <4>1. ~Control!ExecMtvc
        BY <1>0, <1>3, <3>2, Steps, SMT DEF Clears, Vectors, Vnops, Settings
      <4> QED BY <1>0, <2>1, <3>2, <4>1, VectorIs, VpfxStep
    <3> QED BY <1>3, <3>1, <3>2, Kinds
  <2>3. Compared(pc + 1) = IF pc \in Clears THEN {} ELSE Compared(pc)
    BY <1>0, <2>1 DEF Compared, Compares, Clears
  <2>4. pc + 1 \notin {47, 76, 82, 86, 96, 100, 104, 108, 116, 120, 124}
    BY <1>0, <2>1 DEF Compares
  <2> QED BY <2>1, <2>2, <2>3, <2>4 DEF ConditionInv
<1> QED BY <1>1, <1>2, <1>3

\* What the vector instructions compute where the registers are known.
LEMMA ComputedIs ==
  ASSUME pc \in Nat, OperandsInv
  PROVE  /\ \A lane : /\ Control!Computed("zero", lane) = 0
                      /\ Control!Computed("one", lane) = 1
                      /\ Control!Computed("random", lane) = Unknown
         /\ pc > 42 => \A lane : /\ Control!Computed("minus_S010", lane) = -1
                                 /\ Control!Computed("twice_S010", lane) = 2
         /\ pc > 44 => /\ \A lane \in 0..3 : Control!Computed("minus_R000", lane) = -Operand(lane)
                       /\ Control!Computed("twice", 0) = 0
<1>1. Unknown \notin -4..4
  BY ConstantsAssumption
<1>2. \A lane : /\ Control!Computed("zero", lane) = 0
                /\ Control!Computed("one", lane) = 1
                /\ Control!Computed("random", lane) = Unknown
  BY DEF Control!Computed
<1>3. ASSUME pc > 42
      PROVE  \A lane : /\ Control!Computed("minus_S010", lane) = -1
                       /\ Control!Computed("twice_S010", lane) = 2
  <2>1. regs["R000"][1] = 1
    BY <1>3 DEF OperandsInv, Value, Operand
  <2>2. regs["R000"][1] # Unknown
    BY <1>1, <2>1
  <2> QED BY <2>1, <2>2 DEF Control!Computed
<1>4. ASSUME pc > 44
      PROVE  /\ \A lane \in 0..3 : Control!Computed("minus_R000", lane) = -Operand(lane)
             /\ Control!Computed("twice", 0) = 0
  <2>1. \A lane \in 0..3 : regs["R000"][lane] = Operand(lane)
    BY <1>4 DEF OperandsInv, Value
  <2>2. \A lane \in 0..3 : regs["R000"][lane] # Unknown
    BY Zenon, <1>1, <2>1, OperandRange
  <2>3. \A lane \in 0..3 : Control!Computed("minus_R000", lane) = -Operand(lane)
    BY <2>1, <2>2 DEF Control!Computed
  <2>4. regs["R000"][0] = 0 /\ regs["R000"][0] # Unknown
    BY <2>1, <2>2 DEF Operand
  <2>5. Control!Computed("twice", 0) = 0
    BY <2>4 DEF Control!Computed
  <2> QED BY <2>3, <2>5
<1> QED BY <1>2, <1>3, <1>4

\* The result of a vector instruction that no prefix changes.
LEMMA VectorResult ==
  ASSUME Progress, PrefixesInv, OperandsInv, Control!ExecVector
  PROVE  OperandsInv'
<1>0. pc \in 1..129 /\ pc \in Nat \ {0}
  BY DEF Progress
<1> DEFINE row == Control!i.row
           lanes == Control!i.lanes
           fn == Control!i.fn
           result(lane) == IF lane \notin lanes THEN regs[row][lane]
                           ELSE IF ctl.pfx # Control!DefaultPrefixes THEN Unknown
                           ELSE Control!Computed(fn, lane)
<1>1. regs' = [regs EXCEPT ![row] = [lane \in 0..3 |-> result(lane)]] /\ pc' = pc + 1
  BY DEF Control!ExecVector
<1>2. Control!i.op = "vector" /\ StandsAt(pc, Control!i)
  BY <1>0, Instruction DEF Control!ExecVector
<1>3. <<pc, row, lanes, fn>> \in
         {<<10, "R000", 0..3, "twice">>, <<27, "R000", {0}, "random">>,
          <<30, "R000", 0..1, "random">>, <<33, "R000", 0..3, "random">>,
          <<36, "R000", {0}, "one">>, <<37, "R000", {0}, "random">>,
          <<41, "R000", {0}, "zero">>, <<42, "R000", {1}, "one">>,
          <<43, "R000", {2}, "minus_S010">>, <<44, "R000", {3}, "twice_S010">>,
          <<45, "R100", 0..3, "minus_R000">>, <<66, "R000", {0}, "twice">>,
          <<70, "R000", {0}, "zero">>, <<71, "R000", {1}, "one">>,
          <<72, "R000", {2}, "minus_S010">>, <<73, "R000", {3}, "twice_S010">>,
          <<74, "R100", 0..3, "minus_R000">>}
  BY <1>2, SMT DEF StandsAt
<1> HIDE DEF row, lanes, fn
<1>4. \A lane \in 0..3, p \in {"R000", "R100"} : regs[p][lane] = Value(p, lane, pc)
  BY DEF OperandsInv
<1>5. row \in {"R000", "R100"} /\ \A lane \in 0..3 : result(lane) = Value(row, lane, pc + 1)
  <2>1. CASE pc \in {10, 27}
    <3>1. ctl.pfx # Control!DefaultPrefixes
      BY <2>1, DefaultsAre DEF PrefixesInv
    <3>2. \A lane \in 0..3 : Value("R000", lane, pc) = Unknown /\ Value("R000", lane, pc + 1) = Unknown
      BY <2>1 DEF Value
    <3> QED BY <1>3, <1>4, <2>1, <3>1, <3>2
  <2>2. CASE pc \in {30, 33, 37}
    <3>1. fn = "random" /\ row = "R000" /\ 0 \in lanes
      BY <1>3, <2>2
    <3>2. \A lane \in 0..3 : /\ Value("R000", lane, pc + 1) = Unknown
                             /\ lane \notin lanes => Value("R000", lane, pc) = Unknown
      BY <2>2, <3>1 DEF Value
    <3> QED BY <1>0, <1>4, <3>1, <3>2, ComputedIs
  <2>3. CASE pc \notin {10, 27, 30, 33, 37}
    <3>1. ctl.pfx = Control!DefaultPrefixes
      <4>1. ctl.pfx["s"] = 228 /\ ctl.pfx["t"] = 228 /\ ctl.pfx["d"] = 0
        BY <1>3, <2>3 DEF PrefixesInv
      <4>2. ctl.pfx \in [{"s", "t", "d"} -> Nat]
        BY DEF PrefixesInv, ControlState
      <4> QED BY <4>1, <4>2, DefaultsAre
    <3>2. \A lane : result(lane) = IF lane \notin lanes THEN regs[row][lane]
                                   ELSE Control!Computed(fn, lane)
      BY Zenon, <3>1
    <3> HIDE DEF result
    <3>3. CASE pc \in {36, 41, 42, 70, 71}
      BY <1>0, <1>3, <1>4, <3>2, <3>3, ComputedIs DEF Value, Operand
    <3>4. CASE pc \in {43, 44, 72, 73}
      BY <1>0, <1>3, <1>4, <3>2, <3>4, ComputedIs DEF Value, Operand
    <3>5. CASE pc \in {45, 74}
      BY <1>0, <1>3, <1>4, <3>2, <3>5, ComputedIs DEF Value
    <3>6. CASE pc = 66
      BY <1>0, <1>3, <1>4, <3>2, <3>6, ComputedIs DEF Value, Operand
    <3> QED BY <1>3, <2>3, <3>3, <3>4, <3>5, <3>6
  <2> QED BY <2>1, <2>2, <2>3
<1>6. \A lane \in 0..3, p \in {"R000", "R100"} \ {row} : Value(p, lane, pc + 1) = Value(p, lane, pc)
  BY <1>3 DEF Value
<1> HIDE DEF result
<1>7. regs' = [p \in {"R000", "R100"} |-> [lane \in 0..3 |-> Value(p, lane, pc + 1)]]
  <2>1. \A p \in {"R000", "R100"} : regs'[p] = [lane \in 0..3 |-> Value(p, lane, pc + 1)]
    BY <1>1, <1>5, <1>6 DEF OperandsInv
  <2> QED BY <1>1, <2>1 DEF OperandsInv
<1> QED BY <1>1, <1>7 DEF OperandsInv, Value

\* The values compared.
LEMMA OperandsNext ==
  ASSUME Progress, PrefixesInv, OperandsInv, Control!Next
  PROVE  OperandsInv'
<1>0. pc \in 1..129
  BY DEF Progress
<1>1. CASE Control!ExecVector
  BY <1>1, VectorResult
<1>2. CASE ~Control!ExecVector
  <2>1. UNCHANGED regs
    BY <1>2 DEF Control!Next, Control!ExecVpfx, Control!ExecVnop, Control!ExecVcmp, Control!ExecMtvc,
         Control!ExecMfvc, Control!readrndreg, Control!ExecBranch, Control!Check, Control!RetErr,
         Control!SetInterrupts, Control!Interrupt
  <2>2. pc' = pc \/ (pc' = pc + 1 /\ pc \notin Vectors)
    BY Zenon, <1>0, <1>2, Steps
  <2>3. \A lane \in 0..3, p \in {"R000", "R100"} : Value(p, lane, pc') = Value(p, lane, pc)
    BY <1>0, <2>2 DEF Value, Vectors
  <2>4. regs' = [row \in {"R000", "R100"} |-> [lane \in 0..3 |-> Value(row, lane, pc')]]
    BY Zenon, <2>1, <2>3 DEF OperandsInv
  <2> QED BY <2>4 DEF OperandsInv, Value
<1> QED BY <1>1, <1>2

\* The draws.
LEMMA SeedsNext ==
  ASSUME Progress, SeedsInv, Control!Next
  PROVE  SeedsInv'
<1>0. pc \in 1..129
  BY DEF Progress
<1>1. CASE ~Control!Interrupt /\ Control!ExecVector
  <2>1. /\ Control!i.op = "vector" /\ StandsAt(pc, Control!i) /\ pc' = pc + 1
        /\ seeds' = IF Control!i.fn = "random" THEN seeds + 1 ELSE seeds
    BY <1>0, <1>1, Instruction DEF Control!ExecVector
  <2>2. Control!i.fn = "random" <=> pc \in {27, 30, 33, 37}
    BY <2>1, SMT DEF StandsAt
  <2> QED BY <1>0, <2>1, <2>2 DEF SeedsInv
<1>2. CASE ~Control!ExecVector \/ Control!Interrupt
  <2>1. UNCHANGED seeds
    BY <1>2 DEF Control!Next, Control!ExecVpfx, Control!ExecVnop, Control!ExecVcmp, Control!ExecMtvc,
         Control!ExecMfvc, Control!readrndreg, Control!ExecBranch, Control!Check, Control!RetErr,
         Control!SetInterrupts, Control!Interrupt
  <2>2. pc' = pc \/ (pc' = pc + 1 /\ pc \notin Vectors)
    BY Zenon, <1>0, <1>2, Steps
  <2> QED BY <1>0, <2>1, <2>2 DEF SeedsInv, Vectors
<1> QED BY <1>1, <1>2

\* Interrupts are switched off and on at the ends of the block.
LEMMA MaskingNext ==
  ASSUME Progress, Masking, Control!Next
  PROVE  Masking'
<1>0. pc \in 1..129
  BY DEF Progress
<1>1. CASE Control!Interrupt
  <2>1. /\ pc \in 1..128 /\ UNCHANGED <<pc, masked>>
        /\ disturbed' = disturbed \cup {pc} /\ interrupts' = interrupts + 1
        /\ interrupts < MaxInterrupts
    BY <1>0, <1>1, CodeParts DEF Control!Interrupt
  <2> QED BY <2>1, ConstantsAssumption DEF Masking
<1>2. CASE ~Control!Interrupt
  <2>1. pc' = pc + 1 /\ pc \in 1..128 /\ (Control!SetInterrupts <=> pc \in {68, 87})
    BY Zenon, <1>0, <1>2, Steps DEF Switchings
  <2>2. UNCHANGED <<interrupts, disturbed>>
    BY <1>2 DEF Control!Next, Control!ExecVpfx, Control!ExecVector, Control!ExecVnop, Control!ExecVcmp,
         Control!ExecMtvc, Control!ExecMfvc, Control!readrndreg, Control!ExecBranch, Control!Check,
         Control!RetErr, Control!SetInterrupts
  <2>3. masked' \in BOOLEAN /\ (pc = 68 => masked') /\ (pc \notin {68, 87} => masked' = masked)
    <3>1. CASE pc \in {68, 87}
      <4>1. masked' = ~Control!Code[pc].on
        BY <2>1, <3>1 DEF Control!SetInterrupts, Control!i
      <4> QED BY <3>1, <4>1, Switches
    <3>2. CASE pc \notin {68, 87}
      <4>1. masked' = masked
        BY <1>2, <2>1, <3>2 DEF Control!Next, Control!ExecVpfx, Control!ExecVector, Control!ExecVnop,
         Control!ExecVcmp, Control!ExecMtvc, Control!ExecMfvc, Control!readrndreg, Control!ExecBranch,
         Control!Check, Control!RetErr
      <4> QED BY <3>2, <4>1 DEF Masking
    <3> QED BY <3>1, <3>2
  <2> QED BY <2>1, <2>2, <2>3 DEF Masking
<1> QED BY <1>1, <1>2

\* The words that the condition codes make.
LEMMA WordsAre ==
  /\ Control!Word({}) = 0 /\ Control!Word(0..5) = 63
  /\ Control!Word({0, 4}) = 17 /\ Control!Word({1, 2, 3, 4}) = 30
  /\ Control!Word({0, 4, 5}) = 49 /\ Control!Word({0, 1, 4, 5}) = 51
  /\ Control!Word({0, 1, 2, 4, 5}) = 55
<1>1. 2^0 = 1 /\ 2^1 = 2 /\ 2^2 = 4 /\ 2^3 = 8 /\ 2^4 = 16 /\ 2^5 = 32
  OBVIOUS
<1> QED BY <1>1 DEF Control!Word

\* Every reading, where it is made, where to and what of.
Early == IF 47 \in disturbed THEN 63 ELSE 0

PrefixReadings ==
  {<<4, "pfs", 85>>, <<5, "pft", 170>>, <<6, "pfd", 256>>,
   <<11, "pfs", 228>>, <<12, "pft", 228>>, <<13, "pfd", 0>>,
   <<20, "pfs", 1048575>>, <<21, "pft", 1048575>>, <<22, "pfd", 4095>>,
   <<53, "o4", 3840>>, <<55, "o5", 983268>>, <<57, "o6", 983268>>}
SeedReadings ==
  {<<26, "A", 0>>, <<28, "B", 1>>, <<31, "A", 2>>, <<34, "B", 3>>, <<38, "A", 4>>}
CodeReadings ==
  {<<47, "o0", Early>>, <<48, "o1", 63>>, <<49, "o2", 63>>, <<50, "o3", 63>>,
   <<76, "o0", 0>>, <<77, "o1", 63>>, <<78, "o2", 63>>, <<79, "o3", 63>>, <<83, "o4", 63>>,
   <<97, "o0", 63>>, <<101, "o1", 0>>, <<105, "o2", 17>>, <<109, "o3", 30>>,
   <<117, "o0", 49>>, <<121, "o1", 51>>, <<125, "o2", 55>>}

\* mfvc
LEMMA MfvcReading ==
  ASSUME pc \in 1..129, PrefixesInv, ConditionInv, Control!ExecMfvc
  PROVE  \E slot, value :
           /\ <<pc, slot, value>> \in PrefixReadings \cup CodeReadings
           /\ out' = [out EXCEPT ![slot] = value]
<1> DEFINE slot == Control!i.slot
           number == Control!i.number
           value == Control!Mfvc(ctl, number)
<1>1. out' = [out EXCEPT ![slot] = value]
  BY DEF Control!ExecMfvc
<1>2. Control!i.op = "mfvc" /\ StandsAt(pc, Control!i)
  <2>1. pc \in Nat \ {0}
    OBVIOUS
  <2> QED BY <2>1, Instruction DEF Control!ExecMfvc
<1>3. <<pc, number, slot>> \in
         {<<4, 128, "pfs">>, <<5, 129, "pft">>, <<6, 130, "pfd">>,
          <<11, 128, "pfs">>, <<12, 129, "pft">>, <<13, 130, "pfd">>,
          <<20, 128, "pfs">>, <<21, 129, "pft">>, <<22, 130, "pfd">>,
          <<47, 131, "o0">>, <<48, 131, "o1">>, <<49, 131, "o2">>, <<50, 131, "o3">>,
          <<53, 130, "o4">>, <<55, 128, "o5">>, <<57, 129, "o6">>, <<76, 131, "o0">>,
          <<77, 131, "o1">>, <<78, 131, "o2">>, <<79, 131, "o3">>, <<83, 131, "o4">>,
          <<97, 131, "o0">>, <<101, 131, "o1">>, <<105, 131, "o2">>,
          <<109, 131, "o3">>, <<117, 131, "o0">>, <<121, 131, "o1">>,
          <<125, 131, "o2">>}
  BY <1>2, SMT DEF StandsAt
<1> HIDE DEF slot, number
<1>4. /\ number = 128 => value = ctl.pfx["s"]
      /\ number = 129 => value = ctl.pfx["t"]
      /\ number = 130 => value = ctl.pfx["d"]
      /\ number = 131 => value = Control!Word(ctl.seen)
  BY DEF Control!Mfvc
<1> HIDE DEF value
<1>5. CASE number # 131
  <2>1. <<pc, slot, value>> \in PrefixReadings
    BY <1>3, <1>4, <1>5, SMT DEF PrefixReadings, PrefixesInv
  <2> QED BY <1>1, <2>1
<1>6. CASE number = 131
  <2>1. pc \in {47, 48, 49, 50, 76, 77, 78, 79, 83, 97, 101, 105, 109, 117, 121, 125}
    BY <1>3, <1>6, SMT
  <2>2. /\ pc = 47 => ctl.seen = IF 47 \in disturbed THEN 0..5 ELSE {}
        /\ pc \in {76, 101} => ctl.seen = {}
        /\ pc \in {48, 49, 50, 77, 78, 79, 83, 97} => ctl.seen = 0..5
        /\ pc = 105 => ctl.seen = {0, 4}
        /\ pc = 109 => ctl.seen = {1, 2, 3, 4}
        /\ pc = 117 => ctl.seen = {0, 4, 5}
        /\ pc = 121 => ctl.seen = {0, 1, 4, 5}
        /\ pc = 125 => ctl.seen = {0, 1, 2, 4, 5}
    BY <2>1 DEF ConditionInv, Compared
  <2>3. /\ pc = 47 => value = Early
        /\ pc \in {76, 101} => value = 0
        /\ pc \in {48, 49, 50, 77, 78, 79, 83, 97} => value = 63
        /\ pc = 105 => value = 17
        /\ pc = 109 => value = 30
        /\ pc = 117 => value = 49
        /\ pc = 121 => value = 51
        /\ pc = 125 => value = 55
    BY <1>4, <1>6, <2>2, WordsAre DEF Early
  <2>4. <<pc, slot, value>> \in CodeReadings
    BY <1>3, <1>6, <2>3, SMT DEF CodeReadings
  <2> QED BY <1>1, <2>4
<1> QED BY <1>5, <1>6

\* readrndreg and the branch.
LEMMA SeedReading ==
  ASSUME pc \in 1..129, SeedsInv, Control!readrndreg
  PROVE  \E slot, value : /\ <<pc, slot, value>> \in SeedReadings
                          /\ out' = [out EXCEPT ![slot] = value]
<1>1. out' = [out EXCEPT ![Control!i.slot] = seeds]
  BY DEF Control!readrndreg
<1>2. Control!i.op = "seeds" /\ StandsAt(pc, Control!i)
  <2>1. pc \in Nat \ {0}
    OBVIOUS
  <2> QED BY <2>1, Instruction DEF Control!readrndreg
<1>3. <<pc, Control!i.slot>> \in {<<26, "A">>, <<28, "B">>, <<31, "A">>, <<34, "B">>, <<38, "A">>}
  BY <1>2, SMT DEF StandsAt
<1>4. <<pc, Control!i.slot, seeds>> \in SeedReadings
  BY <1>3, SMT DEF SeedReadings, SeedsInv
<1> QED BY <1>1, <1>4

LEMMA BranchReading ==
  ASSUME pc \in 1..129, ConditionInv, Control!ExecBranch
  PROVE  pc = 86 /\ out' = [out EXCEPT !["o5"] = 0]
<1>1. Control!i.op = "bvt" /\ StandsAt(pc, Control!i)
  <2>1. pc \in Nat \ {0}
    OBVIOUS
  <2> QED BY <2>1, Instruction DEF Control!ExecBranch
<1>2. pc = 86 /\ Control!i.bit = 0 /\ Control!i.slot = "o5"
  BY <1>1, SMT DEF StandsAt
<1>3. 0 \in ctl.cc
  BY <1>2 DEF ConditionInv, Compared
<1> QED BY <1>2, <1>3 DEF Control!ExecBranch, Control!Branches

Readings == PrefixReadings \cup SeedReadings \cup CodeReadings \cup {<<86, "o5", 0>>}

\* A step makes the reading there is at its place, if there is one.
LEMMA Reading ==
  ASSUME pc \in 1..129, PrefixesInv, SeedsInv, ConditionInv, Control!Next, ~Control!Interrupt
  PROVE  /\ pc' = pc + 1 /\ UNCHANGED disturbed
         /\ \/ /\ out' = out
               /\ \A reading \in Readings : reading[1] # pc
            \/ \E slot, value : /\ <<pc, slot, value>> \in Readings
                                /\ out' = [out EXCEPT ![slot] = value]
<1>1. pc' = pc + 1 /\ Control!i.op \in Operations /\ StandsAt(pc, Control!i)
  BY Steps
<1>2. UNCHANGED disturbed
  BY DEF Control!Next, Control!ExecVpfx, Control!ExecVector, Control!ExecVnop, Control!ExecVcmp,
         Control!ExecMtvc, Control!ExecMfvc, Control!readrndreg, Control!ExecBranch, Control!Check,
         Control!RetErr, Control!SetInterrupts
<1>3. CASE Control!ExecMfvc
  BY <1>1, <1>2, <1>3, MfvcReading DEF Readings
<1>4. CASE Control!readrndreg
  BY <1>1, <1>2, <1>4, SeedReading DEF Readings
<1>5. CASE Control!ExecBranch
  BY <1>1, <1>2, <1>5, BranchReading DEF Readings
<1>6. CASE ~(Control!ExecMfvc \/ Control!readrndreg \/ Control!ExecBranch)
  <2>1. UNCHANGED out
    BY <1>6 DEF Control!Next, Control!ExecVpfx, Control!ExecVector, Control!ExecVnop, Control!ExecVcmp,
         Control!ExecMtvc, Control!Check, Control!RetErr, Control!SetInterrupts
  <2>2. Control!i.op \in Operations \ {"mfvc", "seeds", "bvt"}
    <3>1. \A op : Control!At(op) => Control!i.op = op
      BY DEF Control!At, Control!i
    <3>2. \E op \in Operations \ {"mfvc", "seeds", "bvt"} : Control!At(op)
      BY <1>6 DEF Control!Next, Control!ExecVpfx, Control!ExecVector, Control!ExecVnop,
         Control!ExecVcmp, Control!ExecMtvc, Control!Check, Control!SetInterrupts, Operations
    <3> QED BY <3>1, <3>2
  <2>3. \A reading \in Readings : reading[1] # pc
    BY <1>1, <2>2, SMT DEF StandsAt, Operations, Readings, PrefixReadings, SeedReadings, CodeReadings
  <2> QED BY <1>1, <1>2, <2>1, <2>3
<1> QED BY <1>3, <1>4, <1>5, <1>6

\* What has been read stays until it is looked at.
LEMMA ReadNext ==
  ASSUME Progress, Masking, PrefixesInv, SeedsInv, ConditionInv, ReadInv, Control!Next
  PROVE  ReadInv'
<1>0. pc \in 1..129 /\ out \in [Control!Slots -> Nat]
  BY DEF Progress, ReadInv
<1>1. CASE Control!Interrupt
  <2>1. UNCHANGED <<pc, out>> /\ disturbed' = disturbed \cup {pc}
    BY <1>1 DEF Control!Interrupt
  <2>2. pc \in 48..58 => (47 \in disturbed' <=> 47 \in disturbed)
    BY <2>1
  <2> QED BY <1>0, <2>1, <2>2 DEF ReadInv, PrefixesRead, SeedsRead, FirstRead, SecondRead, Held
<1>2. CASE ~Control!Interrupt
  <2>1. pc' = pc + 1 /\ UNCHANGED disturbed
    BY <1>0, <1>2, Reading
  <2>2. CASE out' = out /\ \A reading \in Readings : reading[1] # pc
    <3>1. pc \notin {4, 5, 6, 11, 12, 13, 20, 21, 22, 53, 55, 57, 26, 28, 31, 34, 38,
                     47, 48, 49, 50, 76, 77, 78, 79, 83, 86, 97, 101, 105, 109, 117, 121, 125}
      BY <2>2, SMT DEF Readings, PrefixReadings, SeedReadings, CodeReadings
    <3>2. PrefixesRead'
      BY <1>0, <2>1, <2>2, <3>1, SMT DEF ReadInv, PrefixesRead, Held
    <3>3. SeedsRead'
      BY <1>0, <2>1, <2>2, <3>1, SMT DEF ReadInv, SeedsRead, Held
    <3>4. FirstRead'
      BY <1>0, <2>1, <2>2, <3>1, SMT DEF ReadInv, FirstRead, Held
    <3>5. SecondRead'
      BY <1>0, <2>1, <2>2, <3>1, SMT DEF ReadInv, SecondRead, Held
    <3> QED BY <1>0, <2>2, <3>2, <3>3, <3>4, <3>5 DEF ReadInv
  <2>3. CASE \E slot, value : /\ <<pc, slot, value>> \in Readings
                              /\ out' = [out EXCEPT ![slot] = value]
    <3> PICK slot, value : /\ <<pc, slot, value>> \in Readings
                           /\ out' = [out EXCEPT ![slot] = value]
      BY <2>3
    <3>1. slot \in Control!Slots /\ value \in Nat
      BY SMT DEF Readings, PrefixReadings, SeedReadings, CodeReadings, Control!Slots, Early
    <3>2. /\ out' \in [Control!Slots -> Nat] /\ out'[slot] = value
          /\ \A other \in Control!Slots \ {slot} : out'[other] = out[other]
      BY <1>0, <3>1
    <3>3. PrefixesRead'
      BY <1>0, <2>1, <3>2, SMT DEF ReadInv, PrefixesRead, Held, Control!Slots,
           Readings, PrefixReadings, SeedReadings, CodeReadings
    <3>4. SeedsRead'
      BY <1>0, <2>1, <3>2, SMT DEF ReadInv, SeedsRead, Held, Control!Slots,
           Readings, PrefixReadings, SeedReadings, CodeReadings
    <3>5. FirstRead'
      BY <1>0, <2>1, <3>2, SMT DEF ReadInv, FirstRead, Held, Control!Slots, Early,
           Readings, PrefixReadings, SeedReadings, CodeReadings
    <3>6. SecondRead'
      BY <1>0, <2>1, <3>2, SMT DEF ReadInv, SecondRead, Held, Control!Slots,
           Readings, PrefixReadings, SeedReadings, CodeReadings
    <3> QED BY <3>2, <3>3, <3>4, <3>5, <3>6 DEF ReadInv
  <2> QED BY <1>0, <1>2, <2>2, <2>3, Reading
<1> QED BY <1>1, <1>2

\* What is expected is what has been read, but for the old condition code.
LEMMA Expectations ==
  ASSUME pc \in 1..129, ReadInv
  PROVE  /\ Control!At("expect") =>
              (out[Control!i.slot] # Control!i.value <=> (pc = 58 /\ 47 \in disturbed))
         /\ Control!At("changed") => (out["A"] # out["B"] /\ pc # 58)
<1>0. pc \in Nat \ {0}
  OBVIOUS
<1>1. CASE Control!At("expect")
  <2>1. Control!i.op = "expect" /\ StandsAt(pc, Control!i)
    BY <1>0, <1>1, Instruction
  <2>2. <<pc, Control!i.slot, Control!i.value>> \in
         {<<7, "pfd", 256>>, <<8, "pfs", 85>>, <<9, "pft", 170>>, <<14, "pfd", 0>>,
          <<15, "pfs", 228>>, <<16, "pft", 228>>, <<23, "pfd", 4095>>,
          <<24, "pfs", 1048575>>, <<25, "pft", 1048575>>, <<58, "o0", 0>>,
          <<59, "o1", 63>>, <<60, "o2", 63>>, <<61, "o3", 63>>, <<62, "o4", 3840>>,
          <<63, "o5", 983268>>, <<64, "o6", 983268>>, <<88, "o0", 0>>,
          <<89, "o1", 63>>, <<90, "o2", 63>>, <<91, "o3", 63>>, <<92, "o4", 63>>,
          <<93, "o5", 0>>, <<110, "o0", 63>>, <<111, "o1", 0>>, <<112, "o2", 17>>,
          <<113, "o3", 30>>, <<126, "o0", 49>>, <<127, "o1", 51>>, <<128, "o2", 55>>}
    BY <2>1, SMT DEF StandsAt
  <2>3. out[Control!i.slot] # Control!i.value <=> (pc = 58 /\ 47 \in disturbed)
    BY <2>2, SMT DEF ReadInv, PrefixesRead, FirstRead, SecondRead, Held
  <2>4. ~Control!At("changed")
    BY <1>1, <2>1 DEF Control!At, Control!i
  <2> QED BY <2>3, <2>4
<1>2. CASE Control!At("changed")
  <2>1. Control!i.op = "changed" /\ StandsAt(pc, Control!i)
    BY <1>0, <1>2, Instruction
  <2>2. pc \in {29, 32, 35, 39}
    BY <2>1, SMT DEF StandsAt
  <2>3. out["A"] # out["B"]
    BY <2>2 DEF ReadInv, SeedsRead, Held
  <2>4. ~Control!At("expect")
    BY <1>2, <2>1 DEF Control!At, Control!i
  <2> QED BY <2>2, <2>3, <2>4
<1> QED BY <1>1, <1>2

\* Nothing else is reported.
LEMMA ErrorsNext ==
  ASSUME Progress, Masking, ReadInv, ErrorsInv, Control!Next, check' = check,
         (check = 2 /\ pc < 68) \/ (check = 7 /\ pc >= 68)
  PROVE  ErrorsInv'
<1>0. pc \in 1..129
  BY DEF Progress
<1>1. CASE Control!Interrupt
  <2>1. UNCHANGED <<pc, errs>> /\ disturbed' = disturbed \cup {pc}
    BY <1>1 DEF Control!Interrupt
  <2> QED BY <2>1 DEF ErrorsInv
<1>2. CASE Control!Check /\ ~Control!Interrupt
  <2>1. /\ pc' = pc + 1 /\ UNCHANGED disturbed
        /\ errs' = IF pc = 58 /\ 47 \in disturbed THEN Append(errs, pc) ELSE errs
    BY <1>0, <1>2, Expectations DEF Control!Check, Control!RetErr
  <2>2. CASE check = 2
    <3>1. errs = IF pc > 58 /\ 47 \in disturbed THEN <<58>> ELSE <<>>
      BY <2>2 DEF ErrorsInv
    <3>2. Append(<<>>, 58) = <<58>>
      OBVIOUS
    <3>3. errs' = IF pc + 1 > 58 /\ 47 \in disturbed THEN <<58>> ELSE <<>>
      <4>1. CASE pc = 58 /\ 47 \in disturbed
        <5>1. errs = <<>> /\ errs' = Append(errs, 58)
          BY <2>1, <3>1, <4>1
        <5> QED BY <3>2, <4>1, <5>1
      <4>2. CASE pc # 58 \/ 47 \notin disturbed
        BY <1>0, <2>1, <3>1, <4>2
      <4> QED BY <4>1, <4>2
    <3>4. errs' = IF pc' > 58 /\ 47 \in disturbed' THEN <<58>> ELSE <<>>
      BY <2>1, <3>3, Zenon
    <3>5. check' # 7
      BY <2>2
    <3> QED BY <3>4, <3>5, Zenon DEF ErrorsInv
  <2>3. CASE check = 7
    BY <1>0, <2>1, <2>3 DEF ErrorsInv
  <2> QED BY <2>2, <2>3
<1>3. CASE ~Control!Check /\ ~Control!Interrupt
  <2>1. pc' = pc + 1 /\ UNCHANGED <<errs, disturbed>>
    BY <1>3 DEF Control!Next, Control!ExecVpfx, Control!ExecVector, Control!ExecVnop, Control!ExecVcmp,
         Control!ExecMtvc, Control!ExecMfvc, Control!readrndreg, Control!ExecBranch,
         Control!SetInterrupts
  <2>2. pc # 58
    <3>1. pc \in 1..128 /\ Control!i.op \in Operations /\ StandsAt(pc, Control!i)
      BY <1>0, <1>3, Steps
    <3>2. pc = 58 => Control!i.op = "expect"
      BY <3>1, SMT DEF Operations, StandsAt
    <3>3. Control!i.op # "expect"
      <4>1. \A op : Control!At(op) => Control!i.op = op
        BY DEF Control!At, Control!i
      <4>2. \E op \in Operations \ {"expect", "changed"} : Control!At(op)
        BY <1>3 DEF Control!Next, Control!ExecVpfx, Control!ExecVector, Control!ExecVnop,
           Control!ExecVcmp, Control!ExecMtvc, Control!ExecMfvc, Control!readrndreg,
           Control!ExecBranch, Control!SetInterrupts, Operations
      <4> QED BY <4>1, <4>2
    <3> QED BY <3>2, <3>3
  <2> QED BY <1>0, <2>1, <2>2 DEF ErrorsInv
<1> QED BY <1>1, <1>2, <1>3

-----------------------------------------------------------------------------
(* The two checks within main.                                              *)

ControlInv ==
  /\ Progress /\ Masking
  /\ PrefixesInv /\ OperandsInv /\ SeedsInv /\ ConditionInv /\ ReadInv
  /\ ErrorsInv

LEMMA ControlStart == Init => ControlInv
<1> SUFFICES ASSUME Init PROVE ControlInv
  OBVIOUS
<1>1. /\ check = 1 /\ pc = 1 /\ ctl = Control!Reset /\ seeds = 0 /\ masked = FALSE
      /\ regs = [row \in {"R000", "R100"} |-> [lane \in 0..3 |-> Unknown]]
      /\ out = [slot \in Control!Slots |-> 0]
      /\ errs = <<>> /\ interrupts = 0 /\ disturbed = {}
  BY DEF Init, Control!Init
<1>2. Progress /\ SeedsInv /\ ErrorsInv
  BY <1>1 DEF Progress, SeedsInv, ErrorsInv
<1>a. Masking
  <2>1. MaxInterrupts \in Nat
    BY ConstantsAssumption
  <2>2. interrupts = 0 /\ disturbed = {}
    BY <1>1
  <2>3. pc \notin 69..87
    BY <1>1
  <2>4. masked \in BOOLEAN
    BY Zenon, <1>1
  <2>5. interrupts \in 0..MaxInterrupts /\ disturbed \subseteq 1..pc /\ disturbed \subseteq 1..128
    BY <2>1, <2>2
  <2> QED BY Zenon, <2>3, <2>4, <2>5 DEF Masking
<1>3. /\ ctl \in ControlState /\ ctl.pfx = Control!DefaultPrefixes
      /\ ctl.cc = {} /\ ctl.seen = {}
  BY <1>1, DefaultsAre DEF Control!Reset, ControlState
<1>4. PrefixesInv /\ ConditionInv
  BY <1>1, <1>3, DefaultsAre DEF PrefixesInv, ConditionInv, Compared
<1>5. OperandsInv
  BY <1>1 DEF OperandsInv, Value
<1>6. ReadInv
  BY <1>1 DEF ReadInv, PrefixesRead, SeedsRead, FirstRead, SecondRead, Held
<1> QED BY <1>2, <1>a, <1>4, <1>5, <1>6 DEF ControlInv

\* The numbers of the two checks.
LEMMA ControlCalls ==
  ASSUME KeptInv
  PROVE  /\ Runs("ccregs") <=> check = 2
         /\ Runs("conditionals") <=> check = 7
<1>1. check \in 1..11
  BY DEF KeptInv
<1>2. \A name : Runs(name) <=> (check <= 9 /\ Checks[check] = name)
  BY Zenon, ChecksCount DEF Runs, Name
<1>3. ASSUME check <= 9
      PROVE  (Checks[check] = "ccregs" <=> check = 2) /\ (Checks[check] = "conditionals" <=> check = 7)
  <2>1. check \in 1..9
    BY <1>1, <1>3
  <2>2. \A k \in 1..9 : Checks[k] = "ccregs" <=> k = 2
    BY DEF Checks
  <2>3. \A k \in 1..9 : Checks[k] = "conditionals" <=> k = 7
    BY DEF Checks
  <2> QED BY Zenon, <2>1, <2>2, <2>3
<1>4. check = 2 \/ check = 7 => check <= 9
  OBVIOUS
<1> QED BY Zenon, <1>2, <1>3, <1>4

LEMMA ControlRun ==
  ASSUME KeptInv, ControlInv, RunControl
  PROVE  ControlInv'
<1>1. Control!Next /\ check' = check
  BY DEF RunControl, mainVars
<1>2. (check = 2 /\ pc < 68) \/ (check = 7 /\ pc >= 68)
  BY ControlCalls, CodeParts DEF RunControl
<1>3. pc' = pc \/ (pc' = pc + 1 /\ pc \in 1..128)
  BY <1>1, Steps DEF ControlInv, Progress
<1>4. Progress'
  BY <1>1, <1>2, <1>3 DEF ControlInv, Progress
<1> QED BY <1>1, <1>2, <1>4, MaskingNext, PrefixesNext, OperandsNext, SeedsNext, ConditionNext,
           ReadNext, ErrorsNext DEF ControlInv

\* The others leave its variables alone, except that what a check keeps in its
\* own is gone when it returns.
LEMMA ControlKept ==
  ASSUME ControlInv, UNCHANGED <<pc, ctl, regs, seeds>>,
         Progress', Masking', ErrorsInv',
         \/ UNCHANGED <<out, disturbed>>
         \/ pc \in {1, 68, 129} /\ out' = [slot \in Control!Slots |-> 0]
  PROVE  ControlInv'
<1>1. PrefixesInv'
  BY DEF ControlInv, PrefixesInv
<1>2. OperandsInv'
  BY DEF ControlInv, OperandsInv, Value
<1>3. SeedsInv'
  BY DEF ControlInv, SeedsInv
<1>4. ConditionInv'
  BY DEF ControlInv, ConditionInv, Compared
<1>5. ReadInv'
  <2>1. CASE UNCHANGED <<out, disturbed>>
    BY <2>1 DEF ControlInv, ReadInv, PrefixesRead, SeedsRead, FirstRead, SecondRead, Held
  <2>2. CASE pc' \in {1, 68, 129} /\ out' = [slot \in Control!Slots |-> 0]
    BY <2>2 DEF ReadInv, PrefixesRead, SeedsRead, FirstRead, SecondRead, Held
  <2> QED BY <2>1, <2>2
<1> QED BY <1>1, <1>2, <1>3, <1>4, <1>5 DEF ControlInv

LEMMA ControlReturn ==
  ASSUME KeptInv, ControlInv, Return
  PROVE  ControlInv'
<1>1. check \in 1..9 /\ check' = check + 1
  BY ChecksCount DEF Return, KeptInv
<1>2. /\ UNCHANGED <<pc, ctl, regs, seeds, masked>>
      /\ errs' = <<>> /\ interrupts' = 0 /\ disturbed' = {}
      /\ out' = [slot \in Control!Slots |-> 0]
  BY DEF Return
<1>3. /\ check = 2 => pc = 68
      /\ check = 7 => pc = 129
  <2>1. check = 2 => Name = "ccregs"
    BY DEF Name, Checks
  <2>2. check = 7 => Name = "conditionals"
    BY DEF Name, Checks
  <2>3. Len(Code) = 128 /\ Conditionals = 68
    BY CodeParts, SameCode
  <2>4. Finished
    BY DEF Return
  <2>5. check = 2 => pc = 68
    BY <2>1, <2>3, <2>4 DEF Finished
  <2>6. check = 7 => pc > 128
    BY <2>2, <2>3, <2>4 DEF Finished
  <2> QED BY <2>5, <2>6 DEF ControlInv, Progress
<1>4. Progress' /\ pc \in {1, 68, 129}
  BY <1>1, <1>2, <1>3 DEF ControlInv, Progress
<1>5. Masking'
  <2>1. MaxInterrupts \in Nat
    BY ConstantsAssumption
  <2> QED BY <1>2, <1>4, <2>1 DEF ControlInv, Masking
<1>6. ErrorsInv'
  BY <1>1, <1>2, <1>4 DEF ErrorsInv, Progress
<1> QED BY <1>2, <1>4, <1>5, <1>6, ControlKept

\* Whatever else runs is interrupted no more often, and the delay slots leave the
\* switch for the interrupts on or off.
LEMMA ControlOthers ==
  ASSUME KeptInv, ControlInv, RunLoadBug \/ RunFpu \/ RunDelay \/ Report \/ UNCHANGED vars
  PROVE  ControlInv'
<1>1. /\ UNCHANGED <<pc, ctl, regs, seeds, out, disturbed>>
  BY DEF RunLoadBug, RunFpu, RunDelay, Report, vars, ctlVars
<1>2. interrupts' = interrupts \/ (interrupts' = interrupts + 1 /\ interrupts < MaxInterrupts)
  BY DEF RunLoadBug, RunFpu, RunDelay, Report, vars, runVars, Bug!Next, Bug!Fill, Bug!Interrupt,
         Bug!Load, Bug!Save, Bug!Accumulate, Bug!NextRun, Bug!Compare, Fpu!Next, Fpu!Draw,
         Fpu!ExecWrite, Fpu!Interrupt, Fpu!ExecRead, Fpu!ExecMatch, Fpu!ExecDiffer,
         Fpu!LeaveBlock, Slot!Next, Slot!Start, Slot!Cycle, Slot!Interrupt, Slot!Judge
<1>3. interrupts' \in 0..MaxInterrupts
  <2>1. MaxInterrupts \in Nat /\ interrupts \in 0..MaxInterrupts
    BY ConstantsAssumption DEF ControlInv, Masking
  <2> QED BY <1>2, <2>1
<1>4. CASE RunDelay
  <2>1. check = 8 /\ check' = check
    <3>1. check \in Nat \ {0} /\ \A k \in 1..9 : Checks[k] = "delay" => k = 8
      BY DEF KeptInv, Checks
    <3> QED BY <1>4, <3>1, ChecksCount DEF RunDelay, Runs, Name, mainVars
  <2>2. masked' \in BOOLEAN
    BY <1>4 DEF RunDelay, Slot!Next, Slot!Start, Slot!Cycle, Slot!Interrupt, Slot!Judge,
           ControlInv, Masking
  <2>3. pc = 129
    BY <2>1 DEF ControlInv, Progress
  <2>4. Progress' /\ Masking' /\ ErrorsInv'
    BY <1>1, <1>3, <2>1, <2>2, <2>3 DEF ControlInv, Progress, Masking, ErrorsInv
  <2> QED BY <1>1, <2>4, ControlKept
<1>5. CASE RunLoadBug \/ RunFpu
  <2>1. UNCHANGED <<masked, check>> /\ check \in {5, 6}
    <3>1. check \in Nat \ {0} /\ \A k \in 1..9 : Checks[k] \in {"loadbug", "fpu"} => k \in {5, 6}
      BY DEF KeptInv, Checks
    <3> QED BY <1>5, <3>1, ChecksCount DEF RunLoadBug, RunFpu, Runs, Name, mainVars
  <2>2. Progress' /\ Masking' /\ ErrorsInv'
    BY <1>1, <1>3, <2>1 DEF ControlInv, Progress, Masking, ErrorsInv
  <2> QED BY <1>1, <2>2, ControlKept
<1>6. CASE Report
  <2>1. UNCHANGED <<masked, errs>> /\ check = 10 /\ check' = 11
    BY <1>6, ChecksCount DEF Report, runVars
  <2>2. Progress' /\ Masking' /\ ErrorsInv'
    BY <1>1, <1>3, <2>1 DEF ControlInv, Progress, Masking, ErrorsInv
  <2> QED BY <1>1, <2>2, ControlKept
<1>7. CASE UNCHANGED vars
  <2>1. UNCHANGED <<masked, errs, check>>
    BY <1>7 DEF vars, runVars, mainVars
  <2>2. Progress' /\ Masking' /\ ErrorsInv'
    BY <1>1, <1>3, <2>1 DEF ControlInv, Progress, Masking, ErrorsInv
  <2> QED BY <1>1, <2>2, ControlKept
<1> QED BY <1>4, <1>5, <1>6, <1>7

LEMMA ControlAlways == Spec => []ControlInv
<1>1. KeptInv /\ ControlInv /\ [Next]_vars => ControlInv'
  BY Zenon, ControlRun, ControlReturn, ControlOthers DEF Next
<1> QED BY <1>1, ControlStart, KeptAlways, PTL DEF Spec

\* The reading with the hazard and the check of it.
LEMMA HazardPlaces == Control!HazardRead = 47 /\ Control!HazardCheck = 58
<1> DEFINE op(p) == Control!Code[p].op
<1>1. \A p \in 1..68 : StandsAt(p, Control!Code[p])
  BY Listing
<1>2. \A p \in 1..67 : op(p) = "vcmp" => p = 46
  BY <1>1, SMT DEF StandsAt
<1>3. op(46) = "vcmp" /\ op(47) = "mfvc" /\ op(58) = "expect" /\ Control!Code[58].slot = "o0"
  <2>1. /\ Control!Code[46] = validate_ccregs[46] /\ Control!Code[47] = validate_ccregs[47]
        /\ Control!Code[58] = validate_ccregs[58]
    BY CodeParts
  <2> QED BY <2>1, FirstList DEF Compare, Read, Expect
<1>4. \A p \in 47..68 : op(p) = "expect" /\ Control!Code[p].slot = "o0" => p = 58
  BY <1>1, SMT DEF StandsAt
<1> HIDE DEF op
<1>5. Control!HazardRead = 47
  <2>1. \A p \in 2..68 : op(p-1) = "vcmp" /\ op(p) = "mfvc" <=> p = 47
    BY <1>2, <1>3
  <2> QED BY <2>1, CodeParts DEF Control!HazardRead, op
<1>6. Control!HazardCheck = 58
  <2>1. \A p \in 47..68 : (op(p) = "expect" /\ Control!Code[p].slot = "o0") <=> p = 58
    BY <1>3, <1>4
  <2> QED BY <1>5, <2>1, CodeParts DEF Control!HazardCheck, op
<1> QED BY <1>5, <1>6

\* Every variable has its type whatever runs, however often it is interrupted
\* (TypeOK).
THEOREM TypesCorrect == Spec => []TypeOK
<1>1. ASSUME KeptInv, ControlInv, BranchInv PROVE TypeOK
  <2>1. /\ check \in 1..Len(Checks) + 2
        /\ DOMAIN check_info = 0..checkcnt - 1 /\ DOMAIN err_info = 0..nerrs - 1
    BY <1>1, ChecksCount DEF KeptInv
  <2>2. pc \in 1..Len(Control!Code) + 1
    BY <1>1, CodeParts DEF ControlInv, Progress
  <2>3. /\ ctl.pfx \in [Control!Prefixed -> Nat] /\ ctl.cc \subseteq 0..5 /\ ctl.seen \subseteq 0..5
    BY <1>1 DEF ControlInv, PrefixesInv, ControlState, Control!Prefixed, Control!Sources
  <2>4. \A r \in Control!Prefixed : ctl.pfx[r] < 2^Control!PayloadBits(r)
    <3>1. 2^20 = 1048576 /\ 2^12 = 4096
      OBVIOUS
    <3> QED BY <1>1, <3>1 DEF ControlInv, PrefixesInv, Control!Prefixed, Control!Sources,
                              Control!PayloadBits
  <2>5. \A row \in DOMAIN regs, lane \in 0..3 : regs[row][lane] \in -4..4 \cup {Unknown}
    <3>1. \A row, p : \A lane \in 0..3 : Value(row, lane, p) \in -4..4 \cup {Unknown}
      BY OperandRange DEF Value
    <3> QED BY <1>1, <3>1 DEF ControlInv, OperandsInv
  <2>6. DOMAIN out = Control!Slots /\ \A slot \in Control!Slots : out[slot] \in Nat
    BY <1>1 DEF ControlInv, ReadInv
  <2>7. /\ masked \in BOOLEAN /\ interrupts \in 0..MaxInterrupts
        /\ disturbed \subseteq 1..Len(Control!Code)
    BY <1>1, CodeParts DEF ControlInv, Masking
  <2>8. seeds \in Nat
    BY <1>1 DEF ControlInv, SeedsInv
  <2>9. hw \in Consoles
    BY <1>1 DEF BranchInv
  <2> QED BY Zenon, <2>1, <2>2, <2>3, <2>4, <2>5, <2>6, <2>7, <2>8, <2>9 DEF TypeOK, Control!TypeOK
<1>2. Spec => []BranchInv
  BY BranchNext, BranchStart, KeptAlways, PTL DEF Spec
<1> QED BY <1>1, <1>2, KeptAlways, ControlAlways, PTL

\* However many interrupts come and wherever, a vcmp compares the operands its
\* own check has loaded and under no prefix, the check of the control registers
\* reports the old condition code exactly when an interrupt has shown it and
\* nothing else, and the check of the conditions reports nothing
\* (ControlVerdict, vfpu-cc.c 158-219, test-conditional.c 39-117).
THEOREM ControlExact == Spec => []ControlVerdict
<1>1. ASSUME KeptInv, ControlInv PROVE ControlVerdict
  <2>1. Control!ComparesOwnOperands
    <3> SUFFICES ASSUME Control!At("vcmp")
                 PROVE  /\ ctl.pfx = Control!DefaultPrefixes
                        /\ \A lane \in 0..Control!i.n-1 :
                             Unknown \notin {regs["R000"][lane], regs[Control!i.row][lane]}
      BY DEF Control!ComparesOwnOperands
    <3>1. /\ Control!i.n \in 1..4 /\ Control!i.row \in {"R000", "R100"}
          /\ ctl.pfx = Control!DefaultPrefixes
          /\ \A lane \in 0..3 : KnownLane(lane)
      BY <1>1, OperandsKnown DEF ControlInv
    <3>2. Unknown \notin -4..4
      BY ConstantsAssumption
    <3> HIDE DEF Control!i
    <3>3. \A lane \in 0..3 : regs["R000"][lane] # Unknown /\ regs["R100"][lane] # Unknown
      BY Zenon, <3>1, <3>2, OperandRange DEF KnownLane
    <3>4. \A lane \in 0..Control!i.n-1 : lane \in 0..3
      BY <3>1
    <3> QED BY Zenon, <3>1, <3>3, <3>4
  <2>2. ASSUME check = 2 PROVE Control!OnlyHazardReported
    <3>1. errs = IF pc > 58 /\ 47 \in disturbed THEN <<58>> ELSE <<>>
      BY <1>1, <2>2 DEF ControlInv, ErrorsInv
    <3>2. Control!Range(<<58>>) = {58} /\ Control!Range(<<>>) = {}
      BY DEF Control!Range
    <3>3. Control!Range(errs) = IF pc > 58 /\ 47 \in disturbed THEN {58} ELSE {}
      BY <3>1, <3>2
    <3> QED BY <3>3, HazardPlaces DEF Control!OnlyHazardReported
  <2>3. check = 7 => errs = <<>>
    BY <1>1 DEF ControlInv, ErrorsInv
  <2> QED BY <1>1, <2>1, <2>2, <2>3, ControlCalls DEF ControlVerdict
<1> QED BY <1>1, KeptAlways, ControlAlways, PTL
=============================================================================
