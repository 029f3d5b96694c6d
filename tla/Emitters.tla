------------------------------ MODULE Emitters ------------------------------
(***************************************************************************)
(* The emit layer: where the translator believes the operand stack and the *)
(* accumulator are, and what the code it emits does to the machine.  Code  *)
(* is straight between two branches, so one record holds both sides, each  *)
(* emission moving them in step:                                           *)
(*   tos            Window::tos, the depth of the operand stack            *)
(*   proc           the procedure's argument count, and savesLR            *)
(*   kind, value    AccState: Pending in a Shape, Boolean or Dead          *)
(*   flags          FlagState                                              *)
(*   reg, mem, lr   the registers, the stack with its top last, and lr     *)
(*   nz             what the processor's flags hold: the outcome of        *)
(*                  comparing x with y, or of a value x with zero          *)
(***************************************************************************)
EXTENDS Integers, Sequences, SequencesExt, FiniteSets

CONSTANTS
  Values,       (* what a word can hold, 0 and 1 among them                *)
  Junk,         (* what nothing may rely on: clobbered, or never written   *)
  Record,       (* the return record that comes in lr                      *)
  Arith(_, _, _)  (* what an operation makes of two words                  *)

(* One operation stands for each family the emitters of arithmetic tell apart:
   SUB for the ones with immediate forms, RSUB for their reverse, SHL for the
   ones that shift their first operand in place, XOR for the commutative. *)
BinaryOps == {"SUB", "RSUB", "SHL", "XOR"}

ASSUME EmittersConstants ==
  /\ {0, 1} \subseteq Values /\ Values \subseteq Nat
  /\ Junk \notin Values /\ Record \notin Values

(* What the emitters take for granted of the operations. *)
ASSUME Arithmetic ==
  /\ \A op \in BinaryOps : \A x, y \in Values : Arith(op, x, y) \in Values
  /\ \A x \in Values : Arith("SUB", x, 0) = x
  /\ \A x, y \in Values : /\ Arith("RSUB", x, y) = Arith("SUB", y, x)
                         /\ Arith("XOR", x, y) = Arith("XOR", y, x)

VARIABLE WindowSize   (* WINDOW_SIZE, which a build fixes *)

ACC == 0
SCRATCH == 2
JUMP == 3
WINDOW_BASE == 4

Lower(a, b) == IF a < b THEN a ELSE b

InWindow(tos, k) == k < tos /\ tos - k <= WindowSize
PhysReg(k) == WINDOW_BASE + (WindowSize - 1 - (k % WindowSize))
SpilledCount(tos) == IF tos > WindowSize THEN tos - WindowSize ELSE 0

Imm(v) == [is |-> "imm", of |-> v]
Reg(r) == [is |-> "reg", of |-> r]

-----------------------------------------------------------------------------
(* Instructions. *)

Zero(v) == [kind |-> "zero", x |-> v, y |-> 0]
NoFlags == [kind |-> "none", x |-> 0, y |-> 0]

Mov(s, dst, src) == [s EXCEPT !.reg[dst] = s.reg[src]]
LoadInto(s, dst, v) == [s EXCEPT !.reg[dst] = v]
Alu(s, dst, v) == [s EXCEPT !.reg[dst] = v, !.nz = Zero(v)]
Cmp(s, x, y) == [s EXCEPT !.nz = [kind |-> "cmp", x |-> x, y |-> y]]

(* A PUSH stores its lowest register at the lowest address, on top: the place
   of each, and the register in each place. *)
Place(regs, r) == 1 + Cardinality({ q \in regs : q > r })
Downwards(regs) ==
  [i \in 1 .. Cardinality(regs) |-> CHOOSE r \in regs : Place(regs, r) = i]

Push(s, regs) ==
  [s EXCEPT !.mem = @ \o [i \in 1 .. Cardinality(regs) |->
                            s.reg[Downwards(regs)[i]]]]

MemAt(s, i) == IF i \in 1 .. Len(s.mem) THEN s.mem[i] ELSE Junk

Pop(s, regs) ==
  LET left == Len(s.mem) - Cardinality(regs)
  IN  [s EXCEPT
         !.reg = [r \in DOMAIN @ |->
                    IF r \in regs THEN MemAt(s, left + Place(regs, r)) ELSE @[r]],
         !.mem = SubSeq(@, 1, left)]

IncrSp(s, words) == [s EXCEPT !.mem = SubSeq(@, 1, Len(@) - words)]

(* A subroutine the code calls: r0 to r3, lr and the flags are gone. *)
Called(s, result) ==
  [s EXCEPT !.reg = [r \in DOMAIN @ |-> IF r = ACC THEN result
                                       ELSE IF r <= JUMP THEN Junk ELSE @[r]],
            !.lr = Junk, !.nz = NoFlags]

-----------------------------------------------------------------------------
(* Effects, and what AccState makes of them. *)

Writes(regs) == [kind |-> "Untouched", of |-> regs]
NoEffect == Writes({})
Into(r, zSet) == IF zSet THEN [kind |-> "ZeroOf", of |-> r] ELSE Writes({r})
Comparison(cond) == [kind |-> "Compare", of |-> cond]
FlagsUnknown == [kind |-> "Gone", of |-> 0]

Unknown == [kind |-> "Unknown", of |-> 0]

Apply(s, e) ==
  CASE e.kind = "Untouched" ->
         IF s.flags.kind = "ZeroOf" /\ s.flags.of \in e.of
         THEN [s EXCEPT !.flags = Unknown] ELSE s
    [] e.kind = "ZeroOf"  -> [s EXCEPT !.flags = e]
    [] e.kind = "Compare" -> [s EXCEPT !.flags = e, !.kind = "Boolean"]
    [] OTHER              -> [s EXCEPT !.flags = Unknown]

Pending(s, shape) == [s EXCEPT !.kind = "Pending", !.value = shape]
Poison(s) == [s EXCEPT !.kind = "Dead"]
Edge(s) == Apply(Poison(s), FlagsUnknown)

(* Shape::materialize, and the effect it reports. *)
Move(s, shape, dst) ==
  IF shape.is = "imm" THEN Alu(s, dst, shape.of)
  ELSE IF shape.of = dst THEN s ELSE Mov(s, dst, shape.of)
MoveEffect(shape, dst) ==
  IF shape.is = "imm" THEN Into(dst, TRUE)
  ELSE IF shape.of = dst THEN NoEffect ELSE Into(dst, FALSE)

(* Shape::sourceReg: the register, and the code that puts the value there. *)
SourceReg(shape, scratch) == IF shape.is = "reg" THEN shape.of ELSE scratch
Source(s, shape, scratch) ==
  IF shape.is = "reg" THEN s ELSE Move(s, shape, scratch)

(* The value a shape stands for. *)
ValueOf(s, shape) == IF shape.is = "imm" THEN shape.of ELSE s.reg[shape.of]

Truth(cond, x, y) ==
  CASE cond = "EQ" -> x = y [] cond = "GT" -> x > y [] cond = "LT" -> x < y

(* Whether a branch on the condition the comparison left is taken. *)
Holds(s) ==
  IF s.nz.kind = "cmp" /\ s.flags.kind = "Compare" /\ {s.nz.x, s.nz.y} \subseteq Values
  THEN (IF Truth(s.flags.of, s.nz.x, s.nz.y) THEN 1 ELSE 0)
  ELSE Junk

LivesIn(s, r) == s.kind = "Pending" /\ s.value = Reg(r)

FlushPending(s, dst) ==
  IF LivesIn(s, dst) THEN s
  ELSE Pending(Apply(Move(s, s.value, dst), MoveEffect(s.value, dst)), Reg(dst))

Flush(s, dst) ==
  IF s.kind = "Boolean"
  THEN Pending(Apply(Alu(s, dst, Holds(s)), Into(dst, TRUE)), Reg(dst))
  ELSE FlushPending(s, dst)

FlushLive(s, dst) == IF s.kind = "Pending" THEN FlushPending(s, dst) ELSE s

(* sourceReg of an accumulator that is no Boolean. *)
AccSource(s, scratch) ==
  IF s.value.is = "reg" THEN s
  ELSE Apply(Move(s, s.value, scratch), MoveEffect(s.value, scratch))

TestNonzero(s) ==
  IF \/ s.kind = "Boolean"
     \/ s.value.is = "reg" /\ s.flags.kind = "ZeroOf" /\ s.flags.of = s.value.of
  THEN s
  ELSE LET r == SourceReg(s.value, SCRATCH)
           t == AccSource(s, SCRATCH)
       IN  Apply([t EXCEPT !.nz = Zero(t.reg[r])], Into(r, TRUE))

(* What the branch after it does: 1 for taken on a nonzero accumulator. *)
Outcome(s) ==
  IF s.kind = "Boolean" THEN Holds(s)
  ELSE IF s.nz.kind = "zero" /\ s.nz.x \in Values
       THEN (IF s.nz.x = 0 THEN 0 ELSE 1)
       ELSE Junk

-----------------------------------------------------------------------------
(* Window. *)

InitialSpilled(proc) == SpilledCount(proc.args)

(* spillOffset, in words: the word the prologue pushed for lr lies between the
   arguments that came on the stack and everything spilled since. *)
\* Faulty form: forgets the word pushed for lr.
SpillOffset_NoLR(s, k) == SpilledCount(s.tos) - 1 - k
SpillOffset(s, k) ==
  SpilledCount(s.tos) - 1 - k
    + (IF s.proc.savesLR /\ k < InitialSpilled(s.proc) THEN 1 ELSE 0)

SpillIndex(s, k) == Len(s.mem) - SpillOffset(s, k)

LdrSp(s, dst, k) == LoadInto(s, dst, MemAt(s, SpillIndex(s, k)))
StrSp(s, src, k) ==
  [s EXCEPT !.mem = [i \in 1 .. Len(@) |->
                       IF i = SpillIndex(s, k) THEN s.reg[src] ELSE @[i]]]

RegsFor(bottom, count) == { PhysReg(k) : k \in bottom .. bottom + count - 1 }

(* windowRuns: as many slots from the bottom as one instruction can name in
   stack order, and the rest. *)
PreWrap(bottom, count) == Lower(count, WindowSize - (bottom % WindowSize))
FirstRun(bottom, count) == RegsFor(bottom, PreWrap(bottom, count))
SecondRun(bottom, count) ==
  RegsFor(bottom + PreWrap(bottom, count), count - PreWrap(bottom, count))

PushRuns(s, bottom, count) ==
  Push(Push(s, FirstRun(bottom, count)), SecondRun(bottom, count))

PopRuns(s, bottom, count) ==
  Pop(Pop(s, SecondRun(bottom, count)), FirstRun(bottom, count))

Evict(s) ==
  IF s.tos >= WindowSize THEN Push(s, {PhysReg(s.tos - WindowSize)}) ELSE s

PushValue(s) ==
  LET t == Flush(Evict(s), PhysReg(s.tos)) IN [t EXCEPT !.tos = @ + 1]

FinishPop(s) ==
  LET under == s.tos - 1 - WindowSize
      t     == IF under >= 0
               THEN Apply(Pop(s, {PhysReg(under)}), Writes({PhysReg(under)}))
               ELSE s
  IN  [t EXCEPT !.tos = @ - 1]

Discard(s) ==
  IncrSp(s, SpilledCount(s.tos)
              - (IF s.proc.savesLR THEN InitialSpilled(s.proc) ELSE 0))

SpillForCall(s, stackArgs) ==
  LET w      == Lower(s.tos, WindowSize)
      m      == Lower(stackArgs, w)
      bottom == s.tos - w
      base   == s.tos - m
  IN  PushRuns(Push(s, RegsFor(bottom, base - bottom)), base, m)

\* Faulty form: fills the whole window, the slot kept for acc included.
FillCalleeArgs_All(s, stackArgs) ==
  LET m == Lower(stackArgs, WindowSize)
  IN  Apply(PopRuns(s, stackArgs - m, m), Writes(RegsFor(stackArgs - m, m)))
FillCalleeArgs(s, stackArgs) ==
  LET m == Lower(stackArgs, WindowSize - 1)
  IN  Apply(PopRuns(s, stackArgs - m, m), Writes(RegsFor(stackArgs - m, m)))

Restore(s, target) ==
  LET now   == SpilledCount(s.tos)
      floor == SpilledCount(target)
      top   == Lower(now, target)
      t     == Apply(PopRuns(IncrSp(s, now - top), floor, top - floor),
                     Writes(RegsFor(floor, top - floor)))
  IN  [t EXCEPT !.tos = target]

ReloadAfterCall(s, target) ==
  LET bottom == s.tos - Lower(s.tos, WindowSize)
      floor  == target - Lower(target, WindowSize)
      top    == Lower(bottom, target)
      mine   == IF target > bottom
                THEN Pop(s, RegsFor(bottom, target - bottom)) ELSE s
      t      == Apply(PopRuns(mine, floor, top - floor),
                      Writes(RegsFor(floor, target - floor)))
  IN  [t EXCEPT !.tos = target]

-----------------------------------------------------------------------------
(* Arithmetic. *)

Compute(op, x, y) == IF {x, y} \subseteq Values THEN Arith(op, x, y) ELSE Junk

Swapped(op) == CASE op = "SUB" -> "RSUB" [] op = "RSUB" -> "SUB" [] OTHER -> op

(* addOrSubWithImm; wide when the constant needs a register of its own. *)
SubWithImm(s, op, dest, n, k, wide) ==
  IF op # "RSUB" /\ ~ wide
  THEN IF k = 0 /\ dest = n THEN s ELSE Alu(s, dest, Compute(op, s.reg[n], k))
  ELSE LET t == IF n = SCRATCH THEN JUMP ELSE SCRATCH
           u == Alu(s, t, k)
       IN  Alu(u, dest, Compute(op, u.reg[n], u.reg[t]))
SubEffect(op, dest, n, k, wide) ==
  IF op # "RSUB" /\ ~ wide /\ k = 0 /\ dest = n THEN NoEffect
  ELSE Into(dest, TRUE)

Shift(s, op, acc, rhs, dest) ==
  IF rhs.is = "imm"
  THEN LET m == SourceReg(acc, SCRATCH)
           t == Source(s, acc, SCRATCH)
       IN  Alu(t, dest, Compute(op, t.reg[m], rhs.of))
  ELSE LET t == IF rhs.of = dest THEN ACC ELSE dest
           u == Move(s, acc, t)
       IN  Mov(Alu(u, t, Compute(op, u.reg[t], u.reg[rhs.of])), dest, t)

Commutative(s, op, acc, rhs, dest) ==
  LET m == SourceReg(rhs, SCRATCH)
      t == Source(s, rhs, SCRATCH)
  IN  IF m = dest
      THEN LET a == SourceReg(acc, ACC)
               u == Source(t, acc, ACC)
           IN  Alu(u, dest, Compute(op, u.reg[dest], u.reg[a]))
      ELSE LET u == Move(t, acc, dest)
           IN  Alu(u, dest, Compute(op, u.reg[dest], u.reg[m]))

(* Two constants are folded, into one a load from the pool may have to make. *)
BinaryOp(s, op, acc, rhs, dest, wide) ==
  IF acc.is = "imm" /\ rhs.is = "imm"
  THEN LET v == Compute(op, acc.of, rhs.of)
       IN  Apply(IF wide THEN LoadInto(s, dest, v) ELSE Alu(s, dest, v),
                 Into(dest, ~ wide))
  ELSE IF op \in {"SUB", "RSUB"}
  THEN IF rhs.is = "imm"
       THEN Apply(SubWithImm(s, op, dest, acc.of, rhs.of, wide),
                  SubEffect(op, dest, acc.of, rhs.of, wide))
       ELSE IF acc.is = "imm"
       THEN Apply(SubWithImm(s, Swapped(op), dest, rhs.of, acc.of, wide),
                  SubEffect(Swapped(op), dest, rhs.of, acc.of, wide))
       ELSE Apply(Alu(s, dest, Compute(op, s.reg[acc.of], s.reg[rhs.of])),
                  Into(dest, TRUE))
  ELSE Apply(IF op = "SHL" THEN Shift(s, op, acc, rhs, dest)
             ELSE Commutative(s, op, acc, rhs, dest),
             Into(dest, TRUE))

Mirrored(cond) == CASE cond = "GT" -> "LT" [] cond = "LT" -> "GT" [] OTHER -> cond

CompareEffect(cond, left, operand) ==
  Comparison(IF left.is = "imm" /\ operand.is = "reg" THEN Mirrored(cond)
             ELSE cond)

Compare(s, cond, left, operand, wide) ==
  LET t == Source(s, left, ACC)
      u == IF wide THEN Source(t, operand, SCRATCH) ELSE t
  IN  Apply(IF left.is = "imm" /\ operand.is = "reg"
            THEN Cmp(s, s.reg[operand.of], left.of)
            ELSE Cmp(u, u.reg[SourceReg(left, ACC)], ValueOf(u, operand)),
            CompareEffect(cond, left, operand))
=============================================================================
