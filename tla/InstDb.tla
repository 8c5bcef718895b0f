------------------------------- MODULE InstDb -------------------------------
(***************************************************************************)
(* instparse.py: the instruction database. Loading it expands every entry  *)
(* of the instruction list, once for each flavor, to an encoding: a base   *)
(* word, the mask of its fixed bits, and the fields left to the operands.  *)
(* Run on its own, the script then looks for instructions that overlap.    *)
(*                                                                         *)
(* A word is the set of the positions of its ones, 0 to 31: 32 bits are    *)
(* more than TLC's integers hold, and the bit operations of the code are   *)
(* those of sets.                                                          *)
(***************************************************************************)
EXTENDS Integers, FiniteSets, SequencesExt

CONSTANTS
  Encodings,  \* name -> the segments of the word from bit 31 on: [field, size],
              \* or, for fixed bits, [ones, size]
  Table       \* sequence of entries [name, encoding, fixed, flavors]: fixed maps
              \* fields to values, flavors are sizes, <<0>> if it has none

ASSUME TableAssumption ==
  \A r \in DOMAIN Table : Table[r].encoding \in DOMAIN Encodings

Bits == 0..31

\* The ones of a number.
Ones(n, size) == {k \in 0..size-1 : (n \div 2^k) % 2 = 1}

\* Values of fixed fields: numbers, which may be negative, and bit strings,
\* which must be as long as the field.
Str(size, n) == [size |-> size, ones |-> Ones(n, size)]
Num(n)       == [num |-> n]

Fits(v, size) ==
  IF "num" \in DOMAIN v THEN -(2^(size - 1)) <= v.num /\ v.num < 2^size
                        ELSE v.size = size

OnesOf(v, size) ==
  IF "num" \in DOMAIN v THEN Ones(IF v.num < 0 THEN 2^size + v.num ELSE v.num, size)
                        ELSE v.ones

-----------------------------------------------------------------------------
(* Encoding: where the segments of a layout lie.                            *)

Lsb(layout, s) == MapThenSumSet(LAMBDA t : layout[t].size, s+1..Len(layout))

IsField(seg) == "field" \in DOMAIN seg

At(lsb, ones) == {lsb + k : k \in ones}

\* The encoding of a layout, nothing filled in; its instruction has no name yet.
Blank(layout) ==
  LET named    == {s \in DOMAIN layout : IsField(layout[s])}
      fixed    == DOMAIN layout \ named
      place(f) == LET s == CHOOSE t \in named : layout[t].field = f
                  IN [lsb |-> Lsb(layout, s), size |-> layout[s].size]
  IN [name |-> <<>>,
      base |-> UNION {At(Lsb(layout, s), layout[s].ones) : s \in fixed},
      mask |-> UNION {At(Lsb(layout, s), 0..layout[s].size - 1) : s \in fixed},
      fields |-> [f \in {layout[s].field : s \in named} |-> place(f)],
      filled |-> {}, ok |-> TRUE]

\* Fault: the mask is not extended.
FillBase(e, f, v) ==
  [e EXCEPT !.base = @ \cup At(e.fields[f].lsb, OnesOf(v, e.fields[f].size)),
            !.filled = @ \cup {f}, !.ok = @ /\ Fits(v, e.fields[f].size)]

\* fill: a value that does not fit is a failed assertion.
Fill(e, f, v) ==
  LET p == e.fields[f]
  IN [e EXCEPT !.base = @ \cup At(p.lsb, OnesOf(v, p.size)),
               !.mask = @ \cup At(p.lsb, 0..p.size - 1),
               !.filled = @ \cup {f},
               !.ok = @ /\ Fits(v, p.size)]

\* Those of the given values that the encoding has a field for.
FillAll(e, values) ==
  FoldSet(LAMBDA f, acc : IF f \in DOMAIN acc.fields THEN Fill(acc, f, values[f]) ELSE acc,
          e, DOMAIN values)

HasField(layout, f) == \E s \in DOMAIN layout : IsField(layout[s]) /\ layout[s].field = f

Sized(hi, lo, n) == (hi :> Num(n \div 2)) @@ (lo :> Num(n % 2))
NoSize           == Str(-1, 0)   \* fits no field

\* Fault: the size of the "m1" encodings is written as that of the others.
SizeAsUsual(layout, n) ==
  CASE n > 0 /\ HasField(layout, "sizelo")    -> Sized("sizehi", "sizelo", n - 1)
    [] n > 0 /\ HasField(layout, "sizelo-m1") -> Sized("sizehi-m1", "sizelo-m1", n - 1)
    [] OTHER -> <<>>

\* The flavor: its size less one, in two bits; less two in the "m1" encodings,
\* where there is no size one (the script stops).
SizeOf(layout, n) ==
  CASE n > 0 /\ HasField(layout, "sizelo")    -> Sized("sizehi", "sizelo", n - 1)
    [] n = 1 /\ HasField(layout, "sizelo-m1") -> "sizelo-m1" :> NoSize
    [] n > 1 /\ HasField(layout, "sizelo-m1") -> Sized("sizehi-m1", "sizelo-m1", n - 2)
    [] OTHER -> <<>>

-----------------------------------------------------------------------------
(* The instructions, in the order they are expanded.                        *)

\* The blank encodings are parsed first, then copied for every instruction.
Blanks == [layout \in Range(Encodings) |-> Blank(layout)]

Expand(entry, flavor) ==
  LET layout == Encodings[entry.encoding]
      blank  == [Blanks[layout] EXCEPT !.name = <<entry.name, flavor>>]
  IN FillAll(FillAll(blank, entry.fixed), SizeOf(layout, flavor))

Insts ==
  FoldLeft(LAMBDA list, entry :
             list \o [k \in DOMAIN entry.flavors |-> Expand(entry, entry.flavors[k])],
           <<>>, Table)

\* Some word is of both: they agree where both are fixed.
Overlap(e1, e2) == e1.base \cap e2.mask = e2.base \cap e1.mask

\* What validate() compares.
Same(e1, e2) == e1.base \cap e1.mask = e2.base \cap e2.mask

-----------------------------------------------------------------------------
VARIABLES
  loaded,   \* instructions expanded so far
  checked,  \* instructions validate() has compared with the earlier ones
  crashed   \* an assertion failed, in the expansion or in validate()

dbvars == <<loaded, checked, crashed>>

DbInit == loaded = 0 /\ checked = 0 /\ crashed = FALSE

Load ==
  /\ ~crashed /\ loaded < Len(Insts)
  /\ IF Insts[loaded + 1].ok THEN loaded' = loaded + 1 /\ UNCHANGED crashed
                             ELSE crashed' = TRUE /\ UNCHANGED loaded
  /\ UNCHANGED checked

Loaded == loaded = Len(Insts)

\* validate(), one instruction against all before it.
Check ==
  /\ ~crashed /\ Loaded /\ checked < Len(Insts)
  /\ IF \E k \in 1..checked : Same(Insts[k], Insts[checked + 1])
     THEN crashed' = TRUE /\ UNCHANGED checked
     ELSE checked' = checked + 1 /\ UNCHANGED crashed
  /\ UNCHANGED loaded

-----------------------------------------------------------------------------
\* The words an instruction accepts are those its free fields can spell.
FieldsFree(e) ==
  LET free      == DOMAIN e.fields \ e.filled
      places(f) == At(e.fields[f].lsb, 0..e.fields[f].size - 1)
  IN /\ e.base \subseteq e.mask
     /\ Bits \ e.mask = UNION {places(f) : f \in free}
     /\ \A f, g \in free : f # g => places(f) \cap places(g) = {}

DbTypeOK ==
  /\ loaded \in 0..Len(Insts) /\ checked \in 0..loaded /\ crashed \in BOOLEAN
  /\ \A e \in {Insts[k] : k \in {loaded} \ {0}} : FieldsFree(e)

(***************************************************************************)
(* "Ensure there's no overlap between instructions": no word is of two     *)
(* instructions, and none replaces another of its name; nothing in the     *)
(* table fails an assertion.                                               *)
(***************************************************************************)
EncodingsDisjoint ==
  /\ ~crashed
  /\ \A k \in 1..loaded - 1 : /\ ~Overlap(Insts[k], Insts[loaded])
                              /\ Insts[k].name # Insts[loaded].name
=============================================================================
