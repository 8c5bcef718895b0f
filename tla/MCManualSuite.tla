--------------------------- MODULE MCManualSuite ---------------------------
(***************************************************************************)
(* Consoles of both models: as documented, or deviating in one respect.    *)
(***************************************************************************)
EXTENDS ManualSuite

\* A hazard of the FPU that is not the documented one.
AsDocumented == Documented
OffByOnePair == UNION {{[AsDocumented EXCEPT ![pair] = n] : n \in 0..2} : pair \in Pairs}

Console(fat, corrupts, hazard, jump, branch, other) ==
  [is_fat |-> fat, corrupts |-> corrupts, hazard |-> hazard,
   jump |-> jump, branch |-> branch, other |-> other]

MCConsoles ==
  UNION {
    LET documented == IF fat THEN "own" ELSE "none"
    IN {Console(fat, c, AsDocumented, 3, 4, FALSE) : c \in Bug!Effects}
         \cup {Console(fat, documented, h, 3, 4, FALSE) : h \in OffByOnePair}
         \cup {Console(fat, documented, AsDocumented, l[1], l[2], FALSE) :
                 l \in {<<3, 3>>, <<4, 3>>, <<3, 5>>}}
         \cup {Console(fat, documented, AsDocumented, 3, 4, TRUE)}
    : fat \in BOOLEAN}

\* Outcomes that vary enough, that vary once, and that do not vary.
MCInputs == {<<FALSE, TRUE, FALSE>>, <<FALSE, TRUE, TRUE>>, <<TRUE, TRUE, TRUE>>}
=============================================================================
