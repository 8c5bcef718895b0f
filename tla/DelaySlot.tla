----------------------------- MODULE DelaySlot -----------------------------
(***************************************************************************)
(* check_delay_slot_ub (undefined-behaviour.c): seven programs with a jump *)
(* or branch in the delay slot of another, run with interrupts disabled,   *)
(* on the processor as the comment at the head of that file explains it: a *)
(* transfer redirects the fetch some cycles after it is issued, a branch   *)
(* later than a jump; of two due in the same cycle the older one wins; and *)
(* nothing but the delay slot of a pending transfer is executed.           *)
(***************************************************************************)
EXTENDS Integers, Sequences, Functions

CONSTANT
  MaxInterrupts   \* how many interrupts come during the check (a bound)

VARIABLES
  hw,          \* the console: cycles until a jump and a branch take effect
  prog,        \* the program run, 0 before the first
  fetch,       \* the address fetched
  pending,     \* the transfers issued and not due yet
  outval,      \* the bits recorded by the instructions executed
  masked,      \* interrupts are disabled
  errs,        \* the programs reported so far
  interrupts   \* interrupts so far

Program(first, slot, expected) == [first |-> first, slot |-> slot, expected |-> expected]

\* jr differs from j in nothing that matters here; bne $0, $0 is never taken.
Programs == <<
  Program("jump",   "jump",   {8, 16}),
  Program("branch", "jump",   {2, 4}),
  Program("never",  "jump",   {1, 8, 16}),
  Program("jump",   "branch", {8, 16}),
  Program("branch", "branch", {8, 16}),
  Program("jump",   "jump",   {8, 16}),
  Program("branch", "jump",   {2, 4})>>

Transfer(kind, to) == [op |-> kind, to |-> to]
Record(bit)        == [op |-> "ori", bit |-> bit]
Nop                == [op |-> "nop"]
LeaveTo3           == Transfer("jump", 15)

\* Labels 2, 1 and 3 are at addresses 7, 11 and 15.
Code == <<Transfer(Programs[prog].first, 11), Transfer(Programs[prog].slot, 7), Record(1),
          LeaveTo3, Nop, Nop,
          Record(8), Record(16), LeaveTo3, Nop,
          Record(2), Record(4), LeaveTo3, Nop>>

Idle == prog = 0 /\ fetch = 1 /\ pending = {} /\ outval = {}

-----------------------------------------------------------------------------
\* Mutant: interrupts stay enabled.
StartEnabled ==
  /\ prog = 0
  /\ prog' = 1
  /\ UNCHANGED <<fetch, pending, outval, masked, errs, interrupts>>

Start ==
  /\ prog = 0
  /\ prog' = 1 /\ masked' = TRUE
  /\ UNCHANGED <<fetch, pending, outval, errs, interrupts>>

Running == prog \in DOMAIN Programs /\ (fetch <= Len(Code) \/ pending # {})

Latency(kind) == IF kind = "jump" THEN hw.jump ELSE hw.branch

\* A transfer issued age cycles ago, whose delay slot is at the address slot.
Flight(kind, to, slot, age) == [kind |-> kind, to |-> to, slot |-> slot, age |-> age]

\* One transfer is issued in a cycle, so that no two have the same age.
Oldest(transfers) == CHOOSE t \in transfers : \A other \in transfers : other.age <= t.age

Due     == {t \in pending : t.age = Latency(t.kind)}
Waiting == pending \ Due

\* The address fetched, and the instruction there.
Target      == IF Due = {} THEN fetch ELSE Oldest(Due).to
Fetched(at) == IF at <= Len(Code) THEN Code[at] ELSE Nop

Executed == \A t \in Waiting : t.slot = Target
Issued   ==
  LET i == Fetched(Target)
  IN IF Executed /\ i.op \in {"jump", "branch"} THEN {Flight(i.op, i.to, Target + 1, 0)} ELSE {}
Recorded ==
  LET i == Fetched(Target) IN IF Executed /\ i.op = "ori" THEN {i.bit} ELSE {}

Cycle ==
  /\ Running
  /\ fetch' = Target + 1
  /\ pending' = {Flight(t.kind, t.to, t.slot, t.age + 1) : t \in Waiting \cup Issued}
  /\ outval' = outval \cup Recorded
  /\ UNCHANGED <<prog, masked, errs, interrupts>>

\* Execution resumes at the oldest transfer: those in its delay slot are lost.
Interrupt ==
  /\ Running /\ ~masked /\ interrupts < MaxInterrupts
  /\ pending' = {t \in pending : t = Oldest(pending)}
  /\ interrupts' = interrupts + 1
  /\ UNCHANGED <<prog, fetch, outval, masked, errs>>

\* The comparison after a block, and pspSdkEnableInterrupts after the last.
Judge ==
  /\ prog \in DOMAIN Programs /\ ~Running
  /\ errs' = IF outval # Programs[prog].expected THEN Append(errs, prog) ELSE errs
  /\ prog' = prog + 1
  /\ fetch' = 1 /\ outval' = {}
  /\ masked' = (prog' \in DOMAIN Programs /\ masked)
  /\ UNCHANGED <<pending, interrupts>>

Next == (Start \/ Cycle \/ Interrupt \/ Judge) /\ UNCHANGED hw

Done == prog > Len(Programs)

-----------------------------------------------------------------------------
\* The programs report nothing exactly when branches take effect later than
\* jumps, the conclusion of the comment (undefined-behaviour.c 22-34); a
\* report is about a jump together with a taken branch; interrupts are on again.
Verdict ==
  Done =>
    /\ errs = <<>> <=> hw.branch > hw.jump
    /\ \A p \in Range(errs) : {Programs[p].first, Programs[p].slot} = {"jump", "branch"}
    /\ ~masked
=============================================================================
