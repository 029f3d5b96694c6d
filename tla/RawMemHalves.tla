----------------------------- MODULE RawMemHalves -----------------------------
(***************************************************************************)
(* Both halves of the raw memory extension run the same opcodes: the one   *)
(* the reference VM calls (fuzz/ts/lib/rawmem_ext.ts), and the emitted     *)
(* code with its helpers (src/support/ext-rawmem).                         *)
(***************************************************************************)
EXTENDS RawMem

CONSTANTS
  OnStack,   \* the values an opcode finds on the stack
  InAcc,     \* the values an opcode finds in the accumulator
  MaxOps     \* opcodes in a program

VARIABLES
  reference, \* what the reference half left: the buffer and the accumulator
  target,    \* and the target half
  ran        \* opcodes run

ASSUME HalvesAssumption ==
  /\ OnStack \subseteq 0 .. Word - 1 /\ InAcc \subseteq 0 .. Word - 1
  /\ MaxOps \in Nat

halvesVars == <<reference, target, ran>>

HalvesIdle ==
  reference = Result(Zeroed, 0) /\ target = Result(Zeroed, 0) /\ ran = 0

(* Operands are the program's, the accumulator is loaded before. *)
RunBoth(op) ==
  /\ ran < MaxOps
  /\ \E stack \in [1 .. Pops(op) -> OnStack], acc \in InAcc :
       /\ reference' = Exec(op, reference.mem, stack, acc)
       /\ target' = Emitted(op, target.mem, stack, acc)
  /\ ran' = ran + 1

RunOpcode == \E op \in ExtOps : RunBoth(op)

HalvesSpec == HalvesIdle /\ [][RunOpcode]_halvesVars

(* The emitted code masks with shifts and lets helpers wrap only what the
   reference wraps, so that whatever the operands, one past the end and an end
   below its start included, a program's buffer and results are the same on
   both sides. *)
HalvesAgree == reference = target
=============================================================================
