--------------------------- MODULE MCFuncHarness ---------------------------
(***************************************************************************)
(* Instructions of every kind of input, output and accuracy, with hardware *)
(* that is perfect, ignores prefixes of one kind, operand or word, or      *)
(* computes some results wrong: by more and less than the accuracy, and    *)
(* with an infinity or NaN where there is none or none where there is.     *)
(***************************************************************************)
EXTENDS FuncHarness

Test(name, kind, n, imms) ==
  [name |-> name, kind |-> kind, n |-> n, imms |-> imms, accuracy |-> <<"exact", 0>>]

Approximate(name, kind, accuracy) ==
  [name |-> name, kind |-> kind, n |-> 1, imms |-> <<0>>, accuracy |-> accuracy]

SomeTests ==
  <<Test("vadd.p", "vadd", 2, <<0>>), Test("vzero.p", "vzero", 2, <<0>>),
    Test("vcmp.p", "vcmp", 2, <<2, 6>>), Test("vcmovt.t", "vcmovt", 3, <<1, 6>>),
    Test("vcmp.s", "vcmp", 1, <<1>>),
    Approximate("vrcp.s", "vrcp", <<"relative", 32>>),
    Approximate("vlog2.s", "vlog2", <<"absolute", 2>>)>>

Machine(name, ignored, when, off) ==
  [name |-> name, ignored |-> ignored, when |-> when, off |-> off]

Words(k, operands, ops) ==
  {<<c[1], c[3]>> : c \in {c \in Range(pref_checks(SomeTests[k])) :
                            c[1] \in operands /\ c[2] \in ops}}

Ignoring(k, operands, ops) == Machine(SomeTests[k].name, Words(k, operands, ops), {}, 0)

Perfect   == Machine("none", {}, {}, 0)
Selective ==
  {m \in {Ignoring(k, {reg}, {op}) : k \in {1, 4, 6, 7}, reg \in DOMAIN Reg, op \in DOMAIN enum}
           \cup {Ignoring(k, {"rt"}, {op}) : k \in {3, 5}, op \in DOMAIN enum} : m.ignored # {}}
Deaf      == {Ignoring(k, DOMAIN Reg, DOMAIN enum) : k \in {2, 3, 4}}
OneWord   == {Machine("vadd.p", {<<"rs", \hAE4>>}, {}, 0),
              Machine("vcmovt.t", {<<"rd", \h55>>}, {}, 0)}
Wrong     == {Machine(name, {}, {0}, 4) : name \in {"vadd.p", "vzero.p", "vcmp.p"}}
               \cup {Machine("vcmovt.t", Words(4, {"rs"}, {"cst"}), {16, -8}, -32)}

Inaccurate ==
  {Machine("vrcp.s", {}, {64}, off) : off \in {1, -2}}
    \cup {Machine("vrcp.s", {}, {8}, Inf - 8), Machine("vrcp.s", {}, {Inf}, 8 - Inf)}
    \cup {Machine("vlog2.s", {}, {0}, off) : off \in {2, 3, Inf, NaN}}
    \cup {Machine("vlog2.s", {}, {v}, -v) : v \in {NaN, -Inf}}

SomeHardware == {Perfect} \cup Selective \cup Deaf \cup OneWord \cup Wrong \cup Inaccurate

\* 1.75 instead of 1.5.
RoundingHardware == {Machine("vadd.p", {}, {12}, 2)}
=============================================================================
