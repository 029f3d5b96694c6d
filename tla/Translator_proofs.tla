--------------------------- MODULE Translator_proofs ---------------------------
(***************************************************************************)
(* The translator keeps in step with the bytecode machine: in whatever     *)
(* order the instructions of a body come, for every size of the window,    *)
(* every depth of the operand stack, every procedure and every callee.     *)
(***************************************************************************)
EXTENDS Translator, Emitters_proofs

Accs == Values \cup {Junk}

LEMMA DeadAccIsOk ==
  ASSUME NEW s
  PROVE  /\ AccOk(s, Junk) /\ Junk \in Accs /\ ~ Live(Junk) /\ Values \subseteq Accs
         /\ \A v \in Values : Live(v)
         /\ \A v \in Accs : Live(v) => v \in Values
         /\ \A v \in Accs : ~ Live(v) => v = Junk
  BY EmittersConstants DEF AccOk, Accs, Live

-----------------------------------------------------------------------------
(* A result brought to the register of an accumulator that is r0, or of a
   slot a STORE was folded for. *)

Brought(s, t, dst, v) ==
  /\ IsState(t) /\ SameFrame(s, t) /\ FlagsOk(t)
  /\ t.kind = "Pending" /\ t.value = Reg(dst) /\ t.reg[dst] = v
  /\ \A q \in PhysRegs : q # dst => t.reg[q] = s.reg[q]

LEMMA FlushedBrings ==
  ASSUME WindowSize \in Nat \ {0}, NEW s, NEW t, NEW dst, NEW v \in Values,
         Flushed(s, t, dst, v)
  PROVE  Brought(s, t, dst, v)
  BY RegsAreRegisters DEF Flushed, Brought

LEMMA ComputedBrings ==
  ASSUME NEW s, NEW u, NEW dst \in Homes, NEW v, Computed(s, u, dst, v)
  PROVE  Brought(s, Pending(u, Reg(dst)), dst, v)
  <1> DEFINE t == Pending(u, Reg(dst))
  <1>1. Reg(dst) \in Shapes /\ IsState(u)
    BY DEF Shapes, Computed, Worked
  <1>2. /\ IsState(t) /\ t.tos = u.tos /\ t.proc = u.proc /\ SameMachine(u, t)
        /\ t.flags = u.flags /\ t.kind = "Pending" /\ t.value = Reg(dst)
    BY <1>1, PendingDoes
  <1> HIDE DEF t
  <1>3. FlagsOk(t) /\ SameFrame(s, t)
    BY <1>2 DEF Computed, Worked, FlagsOk, SameFrame, SameMachine
  <1> QED
    BY <1>2, <1>3 DEF Computed, Worked, SameMachine, Brought, t

LEMMA FoldRegIs ==
  ASSUME WindowSize \in Nat \ {0}, NEW s, NEW n \in Nat, NEW fold \in FoldsOf(s, n)
  PROVE  FoldReg(fold) \in Homes /\ FoldReg(fold) \in Registers
  <1>1. fold # -1 => fold \in Nat
    BY DEF FoldsOf
  <1> QED
    BY <1>1, PhysRegIs, RegsAreRegisters DEF FoldReg

LEMMA StoredIs ==
  ASSUME NEW stack \in Seq(Values), NEW fold \in {-1} \cup 0 .. Len(stack) - 1,
         NEW v \in Values
  PROVE  Stored(stack, fold, v) \in Seq(Values)
         /\ Len(Stored(stack, fold, v)) = Len(stack)
  BY DEF Stored, SetSlot

(* What every instruction with a result leaves. *)
LEMMA ResultDoes ==
  ASSUME WindowSize \in Nat \ {0}, NEW s, IsState(s), NEW stack \in Seq(Values),
         Layout(s, stack), NEW fold \in FoldsOf(s, Len(stack)), NEW v \in Values,
         NEW t, Brought(s, t, FoldReg(fold), v)
  PROVE  /\ InStep(t, Stored(stack, fold, v), v) /\ t.proc = s.proc
         /\ Stored(stack, fold, v) \in Seq(Values)
         /\ Len(Stored(stack, fold, v)) = Len(stack)
  <1>1. IsState(t) /\ FlagsOk(t) /\ AccOk(t, v) /\ t.proc = s.proc /\ SameFrame(s, t)
    BY DEF Brought, AccOk, ValueOf, Reg, SameFrame
  <1>2. Stored(stack, fold, v) \in Seq(Values)
        /\ Len(Stored(stack, fold, v)) = Len(stack)
    BY StoredIs DEF FoldsOf
  <1>3. CASE fold = -1
    <2>1. \A q \in PhysRegs : t.reg[q] = s.reg[q]
      BY <1>3, RegsAreRegisters DEF Brought, FoldReg
    <2>2. Layout(t, stack)
      BY <1>1, <2>1, LayoutKept
    <2> QED
      BY <1>1, <1>2, <1>3, <2>2 DEF InStep, Stored
  <1>4. CASE fold # -1
    <2>1. fold \in 0 .. s.tos - 1 /\ InWindow(s.tos, fold) /\ FoldReg(fold) = PhysReg(fold)
      BY <1>4 DEF FoldsOf, FoldReg, Layout
    <2>2. t.reg[PhysReg(fold)] = v /\ \A q \in PhysRegs : q # PhysReg(fold) => t.reg[q] = s.reg[q]
      BY <2>1 DEF Brought
    <2>3. Layout(t, [stack EXCEPT ![fold + 1] = v])
      BY <1>1, <2>1, <2>2, SlotWritten
    <2> QED
      BY <1>1, <1>2, <1>4, <2>3 DEF InStep, Stored, SetSlot
  <1> QED
    BY <1>3, <1>4

(* Code that leaves acc, the frame and the registers of the window alone. *)
LEMMA StillInStep ==
  ASSUME WindowSize \in Nat \ {0}, NEW s, NEW stack \in Seq(Values), NEW acc,
         InStep(s, stack, acc), NEW t, IsState(t), SameFrame(s, t), FlagsOk(t),
         NEW new, AccOk(t, new), \A q \in PhysRegs : t.reg[q] = s.reg[q]
  PROVE  InStep(t, stack, new) /\ t.proc = s.proc
  BY LayoutKept DEF InStep, SameFrame

LEMMA ScratchWritten ==
  ASSUME WindowSize \in Nat \ {0}, NEW s, NEW stack \in Seq(Values), NEW acc,
         InStep(s, stack, acc), NEW r, r \notin Homes, NEW v, NEW t,
         Raw(s, t, r, v), t.nz = s.nz
  PROVE  /\ InStep(t, stack, acc) /\ t.proc = s.proc /\ SameFrame(s, t) /\ SameAcc(s, t)
         /\ t.reg[r] = v
  <1>1. /\ IsState(t) /\ SameFrame(s, t) /\ SameAcc(s, t) /\ t.flags = s.flags
        /\ t.reg[r] = v /\ \A q \in Registers : q # r => t.reg[q] = s.reg[q]
    BY DEF Raw, Wrote
  <1>2. r \notin Homes /\ Homes \subseteq Registers /\ PhysRegs \subseteq Homes
    BY RegsAreRegisters
  <1>3. \A q \in Homes : t.reg[q] = s.reg[q]
    BY <1>1, <1>2
  <1>4. FlagsOk(t)
    BY <1>1, <1>3 DEF InStep, FlagsOk
  <1>5. ValueOf(t, s.value) = ValueOf(s, s.value)
    BY <1>3, ShapesAre DEF InStep, IsState, ValueOf
  <1>6. AccOk(t, acc)
    BY <1>1, <1>5 DEF InStep, AccOk, SameAcc, Holds
  <1> QED
    BY <1>1, <1>2, <1>3, <1>4, <1>5, <1>6, StillInStep


-----------------------------------------------------------------------------
(* What a step leaves when it goes right, and the moves. *)

Keeps(s, t, stack, acc) ==
  InStep(t, stack, acc) /\ t.proc = s.proc /\ stack \in Seq(Values) /\ acc \in Accs

LEMMA StoredKeeps ==
  ASSUME WindowSize \in Nat \ {0}, NEW s, IsState(s), NEW stack \in Seq(Values),
         Layout(s, stack), NEW fold \in FoldsOf(s, Len(stack)), NEW v \in Values,
         NEW t, Brought(s, t, FoldReg(fold), v)
  PROVE  Keeps(s, t, Stored(stack, fold, v), v)
         /\ Len(Stored(stack, fold, v)) = Len(stack)
  <1>1. v \in Accs
    BY DEF Accs
  <1>2. /\ InStep(t, Stored(stack, fold, v), v) /\ t.proc = s.proc
        /\ Stored(stack, fold, v) \in Seq(Values)
        /\ Len(Stored(stack, fold, v)) = Len(stack)
    BY ResultDoes
  <1> QED
    BY <1>1, <1>2 DEF Keeps

LEMMA ConstWaits ==
  ASSUME WindowSize \in Nat \ {0}, NEW s, NEW stack \in Seq(Values), NEW acc,
         InStep(s, stack, acc), NEW v \in Values
  PROVE  Keeps(s, Pending(s, Imm(v)), stack, v)
  <1> DEFINE t == Pending(s, Imm(v))
  <1>1. Imm(v) \in Shapes
    BY DEF Shapes
  <1>2. /\ IsState(t) /\ t.tos = s.tos /\ t.proc = s.proc /\ SameMachine(s, t)
        /\ t.flags = s.flags /\ t.kind = "Pending" /\ t.value = Imm(v)
    BY <1>1, PendingDoes DEF InStep
  <1> HIDE DEF t
  <1>3. FlagsOk(t) /\ AccOk(t, v) /\ SameFrame(s, t) /\ t.reg = s.reg
    BY <1>2 DEF FlagsOk, AccOk, ValueOf, Imm, SameFrame, SameMachine, InStep
  <1>4. InStep(t, stack, v)
    BY <1>2, <1>3, StillInStep
  <1> QED
    BY <1>2, <1>4, DeadAccIsOk DEF Keeps, t

LEMMA ConstLoads ==
  ASSUME WindowSize \in Nat \ {0}, NEW s, NEW stack \in Seq(Values), NEW acc,
         InStep(s, stack, acc), NEW v \in Values, NEW fold \in FoldsOf(s, Len(stack)),
         NEW pooled \in BOOLEAN
  PROVE  LET r == FoldReg(fold)
             t == Pending(Apply(IF pooled THEN LoadInto(s, r, v) ELSE Alu(s, r, v),
                                Into(r, ~ pooled)), Reg(r))
         IN  Keeps(s, t, Stored(stack, fold, v), v)
             /\ Len(Stored(stack, fold, v)) = Len(stack)
  <1> DEFINE r == FoldReg(fold)
             u == Apply(IF pooled THEN LoadInto(s, r, v) ELSE Alu(s, r, v),
                        Into(r, ~ pooled))
  <1>1. r \in Homes /\ r \in Registers /\ IsState(s) /\ FlagsOk(s) /\ Layout(s, stack)
        /\ v \in Words
    BY FoldRegIs, LayoutIs DEF InStep, Words
  <1>2. Placed(s, u, r, v)
    <2>1. CASE pooled
      <3>1. Raw(s, LoadInto(s, r, v), r, v) /\ LoadInto(s, r, v).nz = s.nz
        BY <1>1, LoadDoes
      <3> QED
        BY <1>1, <2>1, <3>1, RawPlaces
    <2>2. CASE ~ pooled
      BY <1>1, <2>2, AluPlaces
    <2> QED
      BY <2>1, <2>2
  <1> HIDE DEF r, u
  <1>3. Flushed(s, Pending(u, Reg(r)), r, v)
    BY <1>1, <1>2, PendingPlaces
  <1>4. Brought(s, Pending(u, Reg(r)), r, v)
    BY <1>1, <1>3, FlushedBrings
  <1>5. Brought(s, Pending(u, Reg(r)), FoldReg(fold), v)
    BY <1>4 DEF r
  <1>6. Keeps(s, Pending(u, Reg(r)), Stored(stack, fold, v), v)
        /\ Len(Stored(stack, fold, v)) = Len(stack)
    BY <1>1, <1>5, StoredKeeps
  <1> QED
    BY <1>6 DEF r, u

LEMMA LoadSpilled ==
  ASSUME WindowSize \in Nat \ {0}, NEW s, NEW stack \in Seq(Values), NEW acc,
         InStep(s, stack, acc), NEW k \in 0 .. Len(stack) - 1, ~ InWindow(s.tos, k)
  PROVE  Keeps(s, Pending(Apply(LdrSp(s, ACC, k), Into(ACC, FALSE)), Reg(ACC)),
               stack, stack[k + 1])
  <1> DEFINE u == Apply(LdrSp(s, ACC, k), Into(ACC, FALSE))
             v == stack[k + 1]
  <1>1. /\ IsState(s) /\ FlagsOk(s) /\ Layout(s, stack) /\ k \in 0 .. s.tos - 1
        /\ ACC \in Homes /\ ACC \in Registers /\ v \in Values
    BY RegsAreRegisters, LayoutIs DEF InStep, Layout
  <1>2. Raw(s, LdrSp(s, ACC, k), ACC, v) /\ LdrSp(s, ACC, k).nz = s.nz
    BY <1>1, LdrSpDoes
  <1>3. Placed(s, u, ACC, v)
    BY <1>1, <1>2, RawPlaces
  <1> HIDE DEF u, v
  <1>4. Flushed(s, Pending(u, Reg(ACC)), ACC, v)
    BY <1>1, <1>3, PendingPlaces
  <1>5. Brought(s, Pending(u, Reg(ACC)), FoldReg(-1), v)
    BY <1>1, <1>4, FlushedBrings DEF FoldReg
  <1>6. Keeps(s, Pending(u, Reg(ACC)), Stored(stack, -1, v), v)
    BY <1>1, <1>5, StoredKeeps DEF FoldsOf
  <1> QED
    BY <1>6 DEF u, v, Stored

LEMMA LoadHeld ==
  ASSUME WindowSize \in Nat \ {0}, NEW s, NEW stack \in Seq(Values), NEW acc,
         InStep(s, stack, acc), NEW k \in 0 .. Len(stack) - 1, InWindow(s.tos, k),
         NEW fold \in FoldsOf(s, Len(stack))
  PROVE  LET t == Flush(Pending(s, Reg(PhysReg(k))),
                        IF fold = -1 THEN PhysReg(k) ELSE PhysReg(fold))
         IN  Keeps(s, t, Stored(stack, fold, stack[k + 1]), stack[k + 1])
             /\ Len(Stored(stack, fold, stack[k + 1])) = Len(stack)
  <1> DEFINE p == Pending(s, Reg(PhysReg(k)))
             v == stack[k + 1]
             dst == IF fold = -1 THEN PhysReg(k) ELSE PhysReg(fold)
             t == Flush(p, dst)
  <1>1. /\ IsState(s) /\ FlagsOk(s) /\ Layout(s, stack) /\ k \in 0 .. s.tos - 1
        /\ v \in Values /\ k >= SpilledCount(s.tos) /\ k \in Nat
    BY LayoutIs DEF InStep, Layout
  <1>2. PhysReg(k) \in PhysRegs /\ PhysReg(k) \in Homes /\ s.reg[PhysReg(k)] = v
    BY <1>1, PhysRegIs, RegsAreRegisters, LayoutIs DEF Layout, InRegs
  <1>3. Reg(PhysReg(k)) \in Shapes
    BY <1>2 DEF Shapes
  <1>4. /\ IsState(p) /\ p.tos = s.tos /\ p.proc = s.proc /\ SameMachine(s, p)
        /\ p.flags = s.flags /\ p.kind = "Pending" /\ p.value = Reg(PhysReg(k))
    BY <1>1, <1>3, PendingDoes
  <1>5. dst \in Homes
    BY <1>2, FoldRegIs DEF FoldReg
  <1>6. fold # -1 => dst = FoldReg(fold)
    BY DEF FoldReg
  <1>7. fold = -1 => dst = PhysReg(k)
    OBVIOUS
  <1> HIDE DEF p, v, dst
  <1>8. /\ FlagsOk(p) /\ AccOk(p, v) /\ SameFrame(s, p) /\ p.reg = s.reg
    BY <1>1, <1>2, <1>4 DEF FlagsOk, AccOk, ValueOf, Reg, SameFrame, SameMachine
  <1>9. Layout(p, stack)
    BY <1>1, <1>8, LayoutKept
  <1>10. Flushed(p, t, dst, v)
    BY <1>4, <1>5, <1>8, FlushDoes
  <1> HIDE DEF t
  <1>11. CASE fold = -1
    <2>1. \A q \in PhysRegs : t.reg[q] = s.reg[q]
      BY <1>1, <1>2, <1>7, <1>8, <1>10, <1>11, RegsAreRegisters DEF Flushed
    <2>2. /\ IsState(t) /\ SameFrame(s, t) /\ FlagsOk(t)
      BY <1>8, <1>10 DEF Flushed, SameFrame
    <2>3. AccOk(t, v)
      BY <1>10 DEF Flushed, AccOk, ValueOf, Reg
    <2>4. InStep(t, stack, v) /\ t.proc = s.proc
      BY <2>1, <2>2, <2>3, StillInStep
    <2> QED
      BY <1>1, <1>11, <2>4, DeadAccIsOk DEF Keeps, Stored, t, dst, p, v
  <1>12. CASE fold # -1
    <2>1. Brought(p, t, FoldReg(fold), v)
      BY <1>1, <1>6, <1>10, <1>12, FlushedBrings
    <2>2. fold \in FoldsOf(p, Len(stack))
      BY <1>4 DEF FoldsOf
    <2>3. Keeps(p, t, Stored(stack, fold, v), v)
          /\ Len(Stored(stack, fold, v)) = Len(stack)
      BY <1>1, <1>4, <1>9, <2>1, <2>2, StoredKeeps
    <2> QED
      BY <1>4, <2>3 DEF Keeps, t, dst, p, v
  <1> QED
    BY <1>11, <1>12


(* A value stored to a slot, from the register it is in. *)
LEMMA SpillStored ==
  ASSUME WindowSize \in Nat \ {0}, NEW s, NEW stack \in Seq(Values), NEW acc,
         InStep(s, stack, acc), NEW k \in 0 .. Len(stack) - 1, ~ InWindow(s.tos, k),
         NEW src \in Registers, NEW v \in Values, s.reg[src] = v, acc \in Accs
  PROVE  Keeps(s, StrSp(s, src, k), SetSlot(stack, k, v), acc)
         /\ Len(SetSlot(stack, k, v)) = Len(stack)
  <1> DEFINE t == StrSp(s, src, k)
  <1>1. IsState(s) /\ FlagsOk(s) /\ Layout(s, stack) /\ AccOk(s, acc)
        /\ k \in 0 .. s.tos - 1
    BY DEF InStep, Layout
  <1>2. /\ IsState(t) /\ SameTracking(s, t) /\ t.reg = s.reg /\ t.nz = s.nz
        /\ Layout(t, [stack EXCEPT ![k + 1] = v])
    BY <1>1, StrSpDoes
  <1> HIDE DEF t
  <1>3. FlagsOk(t) /\ AccOk(t, acc)
    BY <1>1, <1>2 DEF FlagsOk, AccOk, ValueOf, Holds, SameTracking
  <1>4. SetSlot(stack, k, v) \in Seq(Values) /\ Len(SetSlot(stack, k, v)) = Len(stack)
    BY DEF SetSlot
  <1> QED
    BY <1>2, <1>3, <1>4 DEF Keeps, InStep, SetSlot, SameTracking, t

LEMMA StoreHeld ==
  ASSUME WindowSize \in Nat \ {0}, NEW s, NEW stack \in Seq(Values),
         NEW acc \in Values, InStep(s, stack, acc),
         NEW k \in 0 .. Len(stack) - 1, InWindow(s.tos, k)
  PROVE  Keeps(s, Flush(s, PhysReg(k)), SetSlot(stack, k, acc), acc)
         /\ Len(SetSlot(stack, k, acc)) = Len(stack)
  <1>1. IsState(s) /\ FlagsOk(s) /\ Layout(s, stack) /\ AccOk(s, acc) /\ k \in Nat
        /\ k # -1 /\ k \in FoldsOf(s, Len(stack))
    BY DEF InStep, FoldsOf
  <1>2. PhysReg(k) \in Homes
    BY <1>1, PhysRegIs, RegsAreRegisters
  <1>3. Flushed(s, Flush(s, PhysReg(k)), PhysReg(k), acc)
    BY <1>1, <1>2, FlushDoes
  <1>4. Brought(s, Flush(s, PhysReg(k)), FoldReg(k), acc)
    BY <1>1, <1>3, FlushedBrings DEF FoldReg
  <1>5. Keeps(s, Flush(s, PhysReg(k)), Stored(stack, k, acc), acc)
        /\ Len(Stored(stack, k, acc)) = Len(stack)
    BY <1>1, <1>4, StoredKeeps
  <1> QED
    BY <1>1, <1>5 DEF Stored

(* The accumulator read for one instruction, from its register or a scratch one. *)
LEMMA SourceInStep ==
  ASSUME WindowSize \in Nat \ {0}, NEW s, NEW stack \in Seq(Values),
         NEW acc \in Values, InStep(s, stack, acc), s.kind # "Boolean"
  PROVE  LET t == AccSource(s, SCRATCH)
             r == SourceReg(s.value, SCRATCH)
         IN  /\ InStep(t, stack, acc) /\ t.proc = s.proc /\ t.tos = s.tos
             /\ r \in Registers /\ t.reg[r] = acc
  <1> DEFINE t == AccSource(s, SCRATCH)
             r == SourceReg(s.value, SCRATCH)
  <1>1. IsState(s) /\ FlagsOk(s) /\ AccOk(s, acc) /\ Layout(s, stack)
        /\ s.value \in Shapes /\ SCRATCH \in Registers
    BY RegsAreRegisters DEF InStep, IsState
  <1>2. ValueOf(s, s.value) = acc /\ s.kind = "Pending"
    BY <1>1 DEF AccOk
  <1>3. /\ r \in Registers /\ IsState(t) /\ SameFrame(s, t) /\ SameAcc(s, t)
        /\ FlagsOk(t) /\ t.reg[r] = ValueOf(s, s.value)
        /\ \A q \in Registers : q # SCRATCH => t.reg[q] = s.reg[q]
    BY <1>1, AccSourceDoes
  <1> HIDE DEF t, r
  <1>4. \A q \in Homes : t.reg[q] = s.reg[q]
    BY <1>3, RegsAreRegisters
  <1>5. ValueOf(t, s.value) = acc
    BY <1>1, <1>2, <1>4, ShapesAre DEF ValueOf
  <1>6. AccOk(t, acc)
    BY <1>2, <1>3, <1>5 DEF AccOk, SameAcc
  <1>7. \A q \in PhysRegs : t.reg[q] = s.reg[q]
    BY <1>4, RegsAreRegisters
  <1>8. InStep(t, stack, acc) /\ t.proc = s.proc
    BY <1>3, <1>6, <1>7, StillInStep
  <1> QED
    BY <1>2, <1>3, <1>8 DEF SameFrame, t, r

LEMMA StoreSpilled ==
  ASSUME WindowSize \in Nat \ {0}, NEW s, NEW stack \in Seq(Values),
         NEW acc \in Values, InStep(s, stack, acc), s.kind # "Boolean",
         NEW k \in 0 .. Len(stack) - 1, ~ InWindow(s.tos, k)
  PROVE  Keeps(s, StrSp(AccSource(s, SCRATCH), SourceReg(s.value, SCRATCH), k),
               SetSlot(stack, k, acc), acc)
         /\ Len(SetSlot(stack, k, acc)) = Len(stack)
  <1> DEFINE t == AccSource(s, SCRATCH)
             r == SourceReg(s.value, SCRATCH)
  <1>1. /\ InStep(t, stack, acc) /\ t.proc = s.proc /\ t.tos = s.tos
        /\ r \in Registers /\ t.reg[r] = acc
    BY SourceInStep
  <1>2. acc \in Accs
    BY DEF Accs
  <1> HIDE DEF t, r
  <1>3. Keeps(t, StrSp(t, r, k), SetSlot(stack, k, acc), acc)
        /\ Len(SetSlot(stack, k, acc)) = Len(stack)
    BY <1>1, <1>2, SpillStored
  <1> QED
    BY <1>1, <1>3 DEF Keeps, t, r

(* An accumulator that waits nowhere but in r0, or in the flags, is there
   still when the window is lowered. *)
LEMMA LoweredKeeps ==
  ASSUME WindowSize \in Nat \ {0}, NEW s, NEW stack \in Seq(Values), NEW acc \in Accs,
         InStep(s, stack, acc), s.kind = "Pending" => s.value = Reg(ACC),
         NEW m \in Nat, m <= Len(stack), NEW t, Lowered(s, t, stack, m)
  PROVE  Keeps(s, t, SubSeq(stack, 1, m), acc) /\ Len(SubSeq(stack, 1, m)) = m
  <1>1. IsState(t) /\ t.proc = s.proc /\ t.nz = s.nz /\ SameAcc(s, t) /\ FlagsOk(t)
        /\ Layout(t, SubSeq(stack, 1, m)) /\ t.reg[ACC] = s.reg[ACC]
        /\ (s.flags.kind # "ZeroOf" => t.flags = s.flags)
    BY RegsAreRegisters DEF Lowered, InStep
  <1>2. SubSeq(stack, 1, m) \in Seq(Values) /\ Len(SubSeq(stack, 1, m)) = m
    BY SubSeqProperties
  <1>3. AccOk(t, acc)
    <2> SUFFICES ASSUME acc \in Values
                 PROVE  \/ t.kind = "Pending" /\ ValueOf(t, t.value) = acc
                        \/ t.kind = "Boolean" /\ Holds(t) = acc
      BY DEF AccOk
    <2>1. CASE s.kind = "Pending"
      BY <1>1, <2>1 DEF InStep, AccOk, ValueOf, Reg, SameAcc
    <2>2. CASE s.kind = "Boolean" /\ Holds(s) = acc
      <3>1. s.flags.kind # "ZeroOf"
        BY <2>2, EmittersConstants DEF Holds
      <3>2. Holds(t) = Holds(s)
        BY <1>1, <3>1 DEF Holds
      <3> QED
        BY <1>1, <2>2, <3>2 DEF SameAcc
    <2> QED
      BY <2>1, <2>2 DEF InStep, AccOk
  <1> QED
    BY <1>1, <1>2, <1>3 DEF Keeps, InStep

(* Brought to r0 if it waits, then down to a depth: DROP and the ends of
   blocks. *)
LEMMA RestoreKeeps ==
  ASSUME WindowSize \in Nat \ {0}, NEW s, NEW stack \in Seq(Values), NEW acc \in Accs,
         InStep(s, stack, acc), NEW m \in Nat, s.proc.args <= m, m <= Len(stack)
  PROVE  LET t == Restore(FlushLive(s, ACC), m)
         IN  /\ Keeps(s, t, SubSeq(stack, 1, m), acc)
             /\ Len(SubSeq(stack, 1, m)) = m
             /\ t.kind = s.kind /\ (t.kind = "Pending" => t.value = Reg(ACC))
  <1> DEFINE u == FlushLive(s, ACC)
             t == Restore(u, m)
  <1>1. IsState(s) /\ FlagsOk(s) /\ AccOk(s, acc) /\ Layout(s, stack)
    BY DEF InStep
  <1>2. Settled(s, u, acc) /\ u.kind = s.kind
    BY <1>1, FlushLiveDoes
  <1> HIDE DEF u
  <1>3. InStep(u, stack, acc) /\ u.proc = s.proc
    BY <1>2, StillInStep DEF Settled
  <1>4. IsState(u) /\ Layout(u, stack) /\ u.tos = Len(stack)
    BY <1>3 DEF InStep, Layout
  <1>5. Lowered(u, t, stack, m)
    BY <1>3, <1>4, RestoreDoes
  <1>6. u.kind = "Pending" => u.value = Reg(ACC)
    BY <1>2 DEF Settled
  <1> HIDE DEF t
  <1>7. Keeps(u, t, SubSeq(stack, 1, m), acc) /\ Len(SubSeq(stack, 1, m)) = m
    BY <1>3, <1>5, <1>6, LoweredKeeps
  <1> QED
    BY <1>2, <1>3, <1>5, <1>6, <1>7 DEF Keeps, Lowered, SameAcc, t, u


-----------------------------------------------------------------------------
(* Arithmetic. *)

LEMMA AccIsValue ==
  ASSUME NEW s, NEW stack, NEW acc \in Values, InStep(s, stack, acc), s.kind # "Boolean"
  PROVE  s.kind = "Pending" /\ ValueOf(s, s.value) = acc /\ s.value \in Shapes
         /\ IsState(s) /\ FlagsOk(s) /\ Layout(s, stack)
  BY DEF InStep, AccOk, IsState

LEMMA XorIs ==
  ASSUME NEW x \in Values
  PROVE  Compute("XOR", x, 1) \in Values /\ Compute("XOR", x, 1) \in Words
  <1>1. "XOR" \in BinaryOps /\ 1 \in Values
    BY EmittersConstants DEF BinaryOps
  <1> QED
    BY <1>1, ComputeIs

LEMMA UnaryKeeps ==
  ASSUME WindowSize \in Nat \ {0}, NEW s, NEW stack \in Seq(Values),
         NEW acc \in Values, InStep(s, stack, acc), s.kind # "Boolean",
         NEW fold \in FoldsOf(s, Len(stack)), NEW sets \in BOOLEAN
  PROVE  LET dest == FoldReg(fold)
             t == AccSource(s, dest)
             v == Compute("XOR", t.reg[SourceReg(s.value, dest)], 1)
             r == Compute("XOR", acc, 1)
             u == Pending(Apply(IF sets THEN Alu(t, dest, v) ELSE LoadInto(t, dest, v),
                                Into(dest, sets)), Reg(dest))
         IN  Keeps(s, u, Stored(stack, fold, r), r)
             /\ Len(Stored(stack, fold, r)) = Len(stack)
  <1> DEFINE dest == FoldReg(fold)
             t == AccSource(s, dest)
             q0 == SourceReg(s.value, dest)
             v == Compute("XOR", t.reg[q0], 1)
             r == Compute("XOR", acc, 1)
             w == Apply(IF sets THEN Alu(t, dest, v) ELSE LoadInto(t, dest, v),
                        Into(dest, sets))
             u == Pending(w, Reg(dest))
  <1>1. /\ ValueOf(s, s.value) = acc /\ IsState(s) /\ FlagsOk(s) /\ Layout(s, stack)
        /\ dest \in Homes /\ dest \in Registers
    BY AccIsValue, FoldRegIs
  <1>2. /\ IsState(t) /\ SameFrame(s, t) /\ FlagsOk(t) /\ t.reg[q0] = acc
        /\ \A q \in Registers : q # dest => t.reg[q] = s.reg[q]
    BY <1>1, AccSourceDoes
  <1>3. v = r /\ r \in Values /\ v \in Words
    BY <1>2, XorIs
  <1> HIDE DEF dest, t, q0, v, r
  <1>4. Placed(t, w, dest, v)
    <2>1. CASE sets
      BY <1>1, <1>2, <1>3, <2>1, AluPlaces
    <2>2. CASE ~ sets
      <3>1. Raw(t, LoadInto(t, dest, v), dest, v) /\ LoadInto(t, dest, v).nz = t.nz
        BY <1>1, <1>2, <1>3, LoadDoes
      <3> QED
        BY <1>1, <1>2, <2>2, <3>1, RawPlaces
    <2> QED
      BY <2>1, <2>2
  <1> HIDE DEF w
  <1>5. Flushed(t, u, dest, v)
    BY <1>1, <1>4, PendingPlaces
  <1> HIDE DEF u
  <1>6. Flushed(s, u, dest, v)
    BY <1>2, <1>5 DEF Flushed, SameFrame
  <1>7. Brought(s, u, FoldReg(fold), r)
    BY <1>3, <1>6, FlushedBrings DEF dest
  <1>8. Keeps(s, u, Stored(stack, fold, r), r)
        /\ Len(Stored(stack, fold, r)) = Len(stack)
    BY <1>1, <1>3, <1>7, StoredKeeps
  <1> QED
    BY <1>8 DEF u, w, r, v, q0, t, dest

(* A call the code makes: what it may not disturb, if lr was saved, it leaves. *)
LEMMA CalledDoes ==
  ASSUME WindowSize \in Nat \ {0}, NEW s, IsState(s), NEW stack \in Seq(Values),
         Layout(s, stack), s.proc.savesLR, NEW v \in Words
  PROVE  LET t == Called(s, v)
         IN  /\ IsState(t) /\ t.proc = s.proc /\ t.tos = s.tos /\ SameAcc(s, t)
             /\ t.flags = s.flags /\ t.mem = s.mem /\ Layout(t, stack)
             /\ t.reg[ACC] = v /\ \A q \in PhysRegs : t.reg[q] = s.reg[q]
  <1> DEFINE t == Called(s, v)
             regs == [r \in DOMAIN s.reg |-> IF r = ACC THEN v
                                             ELSE IF r <= JUMP THEN Junk ELSE s.reg[r]]
  <1>1. t = [s EXCEPT !.reg = regs, !.lr = Junk, !.nz = NoFlags]
    BY DEF Called
  <1>2. /\ DOMAIN s.reg = Registers /\ \A r \in Registers : s.reg[r] \in Words
    BY DEF IsState
  <1>3. /\ regs \in [Registers -> Words] /\ regs[ACC] = v
        /\ \A q \in PhysRegs : regs[q] = s.reg[q]
    <2>1. Junk \in Words
      BY DEF Words
    <2>2. regs \in [Registers -> Words]
      BY <1>2, <2>1
    <2>3. regs[ACC] = v
      BY <1>2, RegsAreRegisters
    <2>4. ASSUME NEW q \in PhysRegs PROVE regs[q] = s.reg[q]
      <3>1. q \in Registers /\ q # ACC /\ q > JUMP /\ q \in Int
        BY RegsAreRegisters
      <3>2. ~ (q <= JUMP)
        BY <3>1 DEF JUMP
      <3> QED
        BY <1>2, <3>1, <3>2
    <2> QED
      BY <2>2, <2>3, <2>4
  <1> HIDE DEF t, regs
  <1>4. /\ t.proc = s.proc /\ t.tos = s.tos /\ SameAcc(s, t) /\ t.flags = s.flags
        /\ t.mem = s.mem /\ t.reg = regs
    BY <1>1 DEF IsState, SameAcc
  <1>5. IsState(t)
    BY <1>1, <1>3, <1>4 DEF IsState, SameAcc
  <1>6. Layout(t, stack)
    <2>1. SpilledCount(s.tos) \in Nat
      BY LayoutIs
    <2>2. InMem(t, stack, SpilledCount(s.tos))
      BY <1>4, InMemKept DEF Layout
    <2>3. InRegs(t, stack, SpilledCount(s.tos), s.tos)
      BY <1>3, <1>4, <2>1, InRegsKept DEF Layout
    <2> QED
      BY <1>4, <2>2, <2>3 DEF Layout
  <1> QED
    BY <1>3, <1>4, <1>5, <1>6 DEF t

LEMMA HelperKeeps ==
  ASSUME WindowSize \in Nat \ {0}, NEW s, NEW stack \in Seq(Values),
         NEW acc \in Values, InStep(s, stack, acc), s.kind # "Boolean",
         s.proc.savesLR, NEW fold \in FoldsOf(s, Len(stack))
  PROVE  LET t == Flush(s, ACC)
             dest == FoldReg(fold)
             v == Compute("XOR", t.reg[ACC], 1)
             r == Compute("XOR", acc, 1)
             u == Pending(Apply(Mov(Called(t, v), dest, ACC), FlagsUnknown), Reg(dest))
         IN  Keeps(s, u, Stored(stack, fold, r), r)
             /\ Len(Stored(stack, fold, r)) = Len(stack)
  <1> DEFINE t == Flush(s, ACC)
             dest == FoldReg(fold)
             v == Compute("XOR", t.reg[ACC], 1)
             r == Compute("XOR", acc, 1)
             c == Called(t, v)
             m == Mov(c, dest, ACC)
             w == Apply(m, FlagsUnknown)
             u == Pending(w, Reg(dest))
  <1>1. /\ IsState(s) /\ FlagsOk(s) /\ AccOk(s, acc) /\ Layout(s, stack)
        /\ dest \in Homes /\ dest \in Registers /\ ACC \in Homes /\ ACC \in Registers
        /\ Reg(dest) \in Shapes
    BY FoldRegIs, RegsAreRegisters DEF InStep, Shapes
  <1>2. Flushed(s, t, ACC, acc)
    BY <1>1, FlushDoes
  <1> HIDE DEF t
  <1>3. /\ IsState(t) /\ SameFrame(s, t) /\ t.reg[ACC] = acc
        /\ \A q \in PhysRegs : t.reg[q] = s.reg[q]
    BY <1>2, RegsAreRegisters DEF Flushed
  <1>4. v = r /\ r \in Values /\ v \in Words
    BY <1>3, XorIs
  <1>5. Layout(t, stack) /\ t.proc = s.proc
    BY <1>1, <1>3, LayoutKept DEF SameFrame
  <1> HIDE DEF v, r
  <1>6. /\ IsState(c) /\ c.proc = s.proc /\ c.tos = s.tos /\ Layout(c, stack)
        /\ c.reg[ACC] = v
    BY <1>3, <1>4, <1>5, CalledDoes DEF SameFrame
  <1> HIDE DEF c, dest
  <1>7. Raw(c, m, dest, v)
    BY <1>1, <1>6, MovDoes
  <1> HIDE DEF m
  <1>8. IsState(m)
    BY <1>7 DEF Raw, Wrote
  <1>9. Marked(m, w) /\ FlagsOk(w)
    BY <1>8, UnknownDoes
  <1> HIDE DEF w
  <1>10. Placed(c, w, dest, v)
    BY <1>7, <1>9, MarkedWrote DEF Raw, Placed
  <1>11. Flushed(c, u, dest, v)
    BY <1>1, <1>10, PendingPlaces
  <1> HIDE DEF u
  <1>12. Brought(c, u, FoldReg(fold), r)
    BY <1>4, <1>11, FlushedBrings DEF dest
  <1>13. fold \in FoldsOf(c, Len(stack))
    BY <1>6 DEF FoldsOf
  <1>14. Keeps(c, u, Stored(stack, fold, r), r)
         /\ Len(Stored(stack, fold, r)) = Len(stack)
    BY <1>4, <1>6, <1>12, <1>13, StoredKeeps
  <1> QED
    BY <1>6, <1>14 DEF Keeps, u, w, m, c, r, v, dest, t

(* The operand of an instruction that names a slot. *)
FetchedBy(s, k) == IF InWindow(s.tos, k) THEN s ELSE LdrSp(s, SCRATCH, k)
FetchedIn(s, k) == IF InWindow(s.tos, k) THEN PhysReg(k) ELSE SCRATCH

LEMMA FetchedDoes ==
  ASSUME WindowSize \in Nat \ {0}, NEW s, NEW stack \in Seq(Values), NEW acc,
         InStep(s, stack, acc), NEW k \in 0 .. Len(stack) - 1
  PROVE  LET f == FetchedBy(s, k)
             r == FetchedIn(s, k)
         IN  /\ InStep(f, stack, acc) /\ f.proc = s.proc /\ f.tos = s.tos
             /\ f.kind = s.kind /\ f.value = s.value
             /\ ValueOf(f, s.value) = ValueOf(s, s.value)
             /\ IsOperand(Reg(r)) /\ ValueOf(f, Reg(r)) = stack[k + 1]
             /\ stack[k + 1] \in Values
  <1>1. /\ IsState(s) /\ Layout(s, stack) /\ k \in 0 .. s.tos - 1 /\ k \in Nat
        /\ stack[k + 1] \in Values
        /\ (InWindow(s.tos, k) <=> k >= SpilledCount(s.tos))
    BY LayoutIs DEF InStep, Layout
  <1>2. CASE InWindow(s.tos, k)
    <2>1. PhysReg(k) \in PhysRegs
      BY <1>1, PhysRegIs
    <2>2. s.reg[PhysReg(k)] = stack[k + 1]
      BY <1>1, <1>2 DEF Layout, InRegs
    <2> QED
      BY <1>1, <1>2, <2>1, <2>2 DEF FetchedBy, FetchedIn, IsOperand, ValueOf, Reg
  <1>3. CASE ~ InWindow(s.tos, k)
    <2> DEFINE f == LdrSp(s, SCRATCH, k)
               y == stack[k + 1]
    <2>1. Raw(s, f, SCRATCH, y) /\ f.nz = s.nz
      BY <1>1, <1>3, LdrSpDoes, RegsAreRegisters
    <2>2. y \in Values /\ y = stack[k + 1]
      BY <1>1
    <2>3. SCRATCH \notin Homes
      BY RegsAreRegisters
    <2> HIDE DEF f, y
    <2>4. /\ InStep(f, stack, acc) /\ f.proc = s.proc /\ SameFrame(s, f) /\ SameAcc(s, f)
          /\ f.reg[SCRATCH] = y
      BY <2>1, <2>3, ScratchWritten
    <2>5. ValueOf(f, s.value) = ValueOf(s, s.value)
      <3>1. s.value \in Shapes /\ \A q \in Homes : f.reg[q] = s.reg[q]
        BY <1>1, <2>1, RegsAreRegisters DEF Raw, Wrote, IsState
      <3> QED
        BY <3>1, ShapesAre DEF ValueOf
    <2> QED
      BY <1>1, <1>3, <2>2, <2>4, <2>5
         DEF FetchedBy, FetchedIn, IsOperand, ValueOf, Reg, SameFrame, SameAcc, f
  <1> QED
    BY <1>2, <1>3


(* The second operand in a register, or a constant; the result to r0 or to the
   register of a slot. *)
LEMMA OperationKeeps ==
  ASSUME WindowSize \in Nat \ {0}, NEW s, NEW stack \in Seq(Values),
         NEW acc \in Values, InStep(s, stack, acc), s.kind # "Boolean",
         NEW op \in BinaryOps, NEW rhs, IsOperand(rhs), NEW y \in Values,
         ValueOf(s, rhs) = y, NEW fold \in FoldsOf(s, Len(stack)), NEW wide \in BOOLEAN
  PROVE  LET r == FoldReg(fold)
             t == Pending(BinaryOp(s, op, s.value, rhs, r, wide), Reg(r))
             v == Compute(op, acc, y)
         IN  /\ Keeps(s, t, Stored(stack, fold, v), v)
             /\ Len(Stored(stack, fold, v)) = Len(stack)
             /\ t.kind = "Pending" /\ t.value = Reg(r) /\ t.reg[r] = v
             /\ t.tos = s.tos /\ v \in Values
  <1> DEFINE r == FoldReg(fold)
             u == BinaryOp(s, op, s.value, rhs, r, wide)
             t == Pending(u, Reg(r))
             v == Compute(op, acc, y)
  <1>1. /\ s.value \in Shapes /\ ValueOf(s, s.value) = acc
        /\ IsState(s) /\ FlagsOk(s) /\ Layout(s, stack)
    BY AccIsValue
  <1>2. r \in Homes /\ r \in Homes \cup {SCRATCH}
    BY FoldRegIs
  <1>3. v = Arith(op, acc, y) /\ v \in Values
    BY ComputeIs
  <1> HIDE DEF r, v
  <1>4. Computed(s, u, r, v)
    BY <1>1, <1>2, <1>3, BinaryOpDoes
  <1> HIDE DEF u
  <1>5. Brought(s, t, r, v)
    BY <1>2, <1>4, ComputedBrings
  <1> HIDE DEF t
  <1>6. Keeps(s, t, Stored(stack, fold, v), v)
        /\ Len(Stored(stack, fold, v)) = Len(stack)
    BY <1>1, <1>3, <1>5, StoredKeeps DEF r
  <1> QED
    BY <1>3, <1>5, <1>6 DEF Brought, SameFrame, t, u, v, r

LEMMA ImmediateKeeps ==
  ASSUME WindowSize \in Nat \ {0}, NEW s, NEW stack \in Seq(Values),
         NEW acc \in Values, InStep(s, stack, acc), s.kind # "Boolean",
         NEW op \in BinaryOps, NEW k \in Values,
         NEW fold \in FoldsOf(s, Len(stack)), NEW wide \in BOOLEAN
  PROVE  LET r == FoldReg(fold)
             t == Pending(BinaryOp(s, op, s.value, Imm(k), r, wide), Reg(r))
             v == Compute(op, acc, k)
         IN  /\ Keeps(s, t, Stored(stack, fold, v), v)
             /\ Len(Stored(stack, fold, v)) = Len(stack)
  <1>1. IsOperand(Imm(k)) /\ ValueOf(s, Imm(k)) = k
    BY DEF IsOperand, ValueOf, Imm
  <1> QED
    BY <1>1, OperationKeeps

LEMMA SlotOperandKeeps ==
  ASSUME WindowSize \in Nat \ {0}, NEW s, NEW stack \in Seq(Values),
         NEW acc \in Values, InStep(s, stack, acc), s.kind # "Boolean",
         NEW op \in BinaryOps, NEW k \in 0 .. Len(stack) - 1,
         NEW fold \in FoldsOf(s, Len(stack)), NEW wide \in BOOLEAN
  PROVE  LET r == FoldReg(fold)
             t == Pending(BinaryOp(FetchedBy(s, k), op, s.value, Reg(FetchedIn(s, k)),
                                   r, wide), Reg(r))
             v == Compute(op, acc, stack[k + 1])
         IN  /\ Keeps(s, t, Stored(stack, fold, v), v)
             /\ Len(Stored(stack, fold, v)) = Len(stack)
  <1> DEFINE f == FetchedBy(s, k)
             rhs == Reg(FetchedIn(s, k))
             y == stack[k + 1]
             t == Pending(BinaryOp(f, op, f.value, rhs, FoldReg(fold), wide),
                          Reg(FoldReg(fold)))
             v == Compute(op, acc, y)
  <1>1. /\ InStep(f, stack, acc) /\ f.proc = s.proc /\ f.tos = s.tos
        /\ f.kind = s.kind /\ f.value = s.value
        /\ IsOperand(rhs) /\ ValueOf(f, rhs) = y /\ y \in Values
    BY FetchedDoes
  <1>2. fold \in FoldsOf(f, Len(stack)) /\ f.kind # "Boolean"
    BY <1>1 DEF FoldsOf
  <1> HIDE DEF f, rhs, y
  <1>3. /\ Keeps(f, t, Stored(stack, fold, v), v)
        /\ Len(Stored(stack, fold, v)) = Len(stack)
    BY <1>1, <1>2, OperationKeeps
  <1> QED
    BY <1>1, <1>3 DEF Keeps, f, rhs, y

(* REG_REG: the result goes back to the slot, and acc is lost. *)
LEMMA WriteBackKeeps ==
  ASSUME WindowSize \in Nat \ {0}, NEW s, NEW stack \in Seq(Values),
         NEW acc \in Values, InStep(s, stack, acc), s.kind # "Boolean",
         NEW op \in BinaryOps, NEW k \in 0 .. Len(stack) - 1
  PROVE  LET Do(dest) == BinaryOp(FetchedBy(s, k), op, s.value, Reg(FetchedIn(s, k)),
                                  dest, FALSE)
             t == IF ~ InWindow(s.tos, k) THEN StrSp(Poison(Do(SCRATCH)), SCRATCH, k)
                  ELSE Poison(Do(PhysReg(k)))
             v == Compute(op, acc, stack[k + 1])
         IN  /\ Keeps(s, t, SetSlot(stack, k, v), Junk)
             /\ Len(SetSlot(stack, k, v)) = Len(stack)
  <1> DEFINE f == FetchedBy(s, k)
             q == FetchedIn(s, k)
             y == stack[k + 1]
             Do(dest) == BinaryOp(f, op, s.value, Reg(q), dest, FALSE)
             v == Compute(op, acc, y)
  <1>1. /\ InStep(f, stack, acc) /\ f.proc = s.proc /\ f.tos = s.tos
        /\ f.kind = s.kind /\ f.value = s.value
        /\ IsOperand(Reg(q)) /\ ValueOf(f, Reg(q)) = y /\ y \in Values
    BY FetchedDoes
  <1> HIDE DEF f, q, y
  <1>2. /\ f.value \in Shapes /\ ValueOf(f, f.value) = acc
        /\ IsState(f) /\ FlagsOk(f) /\ Layout(f, stack)
    BY <1>1, AccIsValue
  <1>3. v = Arith(op, acc, y) /\ v \in Values
    BY <1>1, ComputeIs
  <1> HIDE DEF v
  <1>4. ASSUME NEW dest \in Homes \cup {SCRATCH}
        PROVE  /\ IsState(Poison(Do(dest))) /\ SameFrame(f, Poison(Do(dest)))
               /\ FlagsOk(Poison(Do(dest))) /\ Poison(Do(dest)).reg[dest] = v
               /\ \A r \in PhysRegs : r # dest => Poison(Do(dest)).reg[r] = f.reg[r]
    <2> DEFINE u == Do(dest)
               p == Poison(u)
    <2>1. FALSE \in BOOLEAN
      OBVIOUS
    <2>2. Computed(f, u, dest, v)
      BY <1>1, <1>2, <1>3, <2>1, BinaryOpDoes
    <2> HIDE DEF u
    <2>3. IsState(u)
      BY <2>2 DEF Computed, Worked
    <2>4. /\ IsState(p) /\ p.tos = u.tos /\ p.proc = u.proc /\ SameMachine(u, p)
          /\ p.flags = u.flags
      BY <2>3, PoisonDoes
    <2> HIDE DEF p
    <2>5. /\ SameFrame(f, p) /\ FlagsOk(p) /\ p.reg[dest] = v
          /\ \A r \in PhysRegs : r # dest => p.reg[r] = f.reg[r]
      BY <2>2, <2>4 DEF Computed, Worked, FlagsOk, SameFrame, SameMachine
    <2> QED
      BY <2>4, <2>5 DEF p, u
  <1>5. AccOk(Poison(Do(SCRATCH)), Junk) /\ AccOk(Poison(Do(PhysReg(k))), Junk)
        /\ Junk \in Accs
    BY DeadAccIsOk
  <1>6. CASE ~ InWindow(s.tos, k)
    <2> DEFINE p == Poison(Do(SCRATCH))
    <2>1. /\ IsState(p) /\ SameFrame(f, p) /\ FlagsOk(p) /\ p.reg[SCRATCH] = v
          /\ \A r \in PhysRegs : p.reg[r] = f.reg[r]
      <3>1. SCRATCH \in Homes \cup {SCRATCH}
        OBVIOUS
      <3> QED
        BY <1>4, <3>1, RegsAreRegisters
    <2>2. AccOk(p, Junk)
      BY <1>5
    <2> HIDE DEF p
    <2>3. InStep(p, stack, Junk) /\ p.proc = f.proc /\ p.tos = s.tos
      BY <1>1, <2>1, <2>2, StillInStep DEF SameFrame
    <2>4. SCRATCH \in Registers
      BY RegsAreRegisters
    <2>5. Keeps(p, StrSp(p, SCRATCH, k), SetSlot(stack, k, v), Junk)
          /\ Len(SetSlot(stack, k, v)) = Len(stack)
      BY <1>3, <1>5, <1>6, <2>1, <2>3, <2>4, SpillStored
    <2> QED
      BY <1>1, <1>6, <2>3, <2>5 DEF Keeps, p, f, q, v, y
  <1>7. CASE InWindow(s.tos, k)
    <2> DEFINE p == Poison(Do(PhysReg(k)))
    <2>1. PhysReg(k) \in Homes \cup {SCRATCH}
      BY PhysRegIs, RegsAreRegisters
    <2>2. /\ IsState(p) /\ SameFrame(f, p) /\ FlagsOk(p) /\ p.reg[PhysReg(k)] = v
          /\ \A r \in PhysRegs : r # PhysReg(k) => p.reg[r] = f.reg[r]
      BY <1>4, <2>1
    <2>3. AccOk(p, Junk)
      BY <1>5
    <2> HIDE DEF p
    <2>4. k \in 0 .. f.tos - 1 /\ InWindow(f.tos, k)
      BY <1>1, <1>2, <1>7 DEF Layout
    <2>5. Layout(p, [stack EXCEPT ![k + 1] = v])
      BY <1>2, <2>2, <2>4, SlotWritten
    <2>6. SetSlot(stack, k, v) \in Seq(Values) /\ Len(SetSlot(stack, k, v)) = Len(stack)
      BY <1>3 DEF SetSlot
    <2>7. Keeps(s, p, SetSlot(stack, k, v), Junk)
      BY <1>1, <1>5, <2>2, <2>3, <2>5, <2>6 DEF Keeps, InStep, SetSlot, SameFrame
    <2> QED
      BY <1>7, <2>6, <2>7 DEF p, f, q, v, y
  <1> QED
    BY <1>6, <1>7


(* POP_ACC: the pop may reload the register the instruction has just read, and
   never one its result is in. *)
LEMMA FrontStored ==
  ASSUME NEW stack \in Seq(Values), NEW top \in Nat, Len(stack) = top + 1,
         NEW fold \in {-1} \cup 0 .. top - 1, NEW v \in Values
  PROVE  /\ SubSeq(Stored(stack, fold, v), 1, top) = Stored(Front(stack), fold, v)
         /\ Front(stack) \in Seq(Values) /\ Len(Front(stack)) = top
         /\ Front(stack) = SubSeq(stack, 1, top)
         /\ Stored(Front(stack), fold, v) \in Seq(Values)
         /\ Len(Stored(Front(stack), fold, v)) = top
  <1> DEFINE rest == SubSeq(stack, 1, top)
             all == Stored(stack, fold, v)
             left == SubSeq(all, 1, top)
             right == Stored(rest, fold, v)
  <1>1. Front(stack) = rest
    BY DEF Front
  <1>2. \A i \in 1 .. top : stack[i] \in Values
    BY ElementOfSeq
  <1>3. /\ rest \in Seq(Values) /\ Len(rest) = top
        /\ \A i \in 1 .. top : rest[i] = stack[i]
    BY <1>2, SubSeqProperties
  <1>4. fold \in {-1} \cup 0 .. Len(stack) - 1 /\ fold \in {-1} \cup 0 .. Len(rest) - 1
    BY <1>3
  <1> HIDE DEF rest
  <1>5. all \in Seq(Values) /\ Len(all) = top + 1
    BY <1>4, StoredIs
  <1>6. right \in Seq(Values) /\ Len(right) = top
    BY <1>3, <1>4, StoredIs
  <1>7. ASSUME NEW i \in 1 .. top PROVE all[i] = right[i]
    <2>1. CASE fold = -1
      BY <1>3, <2>1 DEF Stored
    <2>2. CASE fold # -1
      <3>1. fold + 1 \in 1 .. Len(stack) /\ fold + 1 \in 1 .. Len(rest)
        BY <1>3, <2>2
      <3>2. all = [stack EXCEPT ![fold + 1] = v] /\ right = [rest EXCEPT ![fold + 1] = v]
        BY <2>2 DEF Stored, SetSlot
      <3>3. i \in 1 .. Len(stack) /\ i \in 1 .. Len(rest)
        BY <1>3
      <3> HIDE DEF all, right
      <3>4. all[i] = IF i = fold + 1 THEN v ELSE stack[i]
        BY <3>1, <3>2, <3>3, ExceptSeq
      <3>5. right[i] = IF i = fold + 1 THEN v ELSE rest[i]
        BY <1>3, <3>1, <3>2, <3>3, ExceptSeq
      <3> QED
        BY <1>3, <3>4, <3>5
    <2> QED
      BY <2>1, <2>2
  <1> HIDE DEF all, right
  <1>8. \A i \in 1 .. top : all[i] \in Values
    BY <1>5, ElementOfSeq
  <1>9. /\ left \in Seq(Values) /\ Len(left) = top
        /\ \A i \in 1 .. top : left[i] = all[i]
    BY <1>8, SubSeqProperties
  <1> HIDE DEF left
  <1>10. left = right
    BY <1>6, <1>7, <1>9, SeqEqual
  <1> QED
    BY <1>1, <1>3, <1>6, <1>10 DEF left, right, all, rest

LEMMA PopApart ==
  ASSUME WindowSize \in Nat \ {0}, NEW s, NEW top \in Nat, s.tos = top + 1,
         NEW fold \in FoldsOf(s, top)
  PROVE  FoldReg(fold) # PhysReg(top) /\ FoldReg(fold) \in Registers
  <1>1. CASE fold = -1
    BY <1>1, PhysRegIs, RegsAreRegisters DEF FoldReg
  <1>2. CASE fold # -1
    <2>1. fold \in Nat /\ fold < top /\ top < fold + WindowSize
      BY <1>2 DEF FoldsOf, InWindow
    <2>2. PhysReg(fold) # PhysReg(top)
      BY <2>1, PhysRegDistinct
    <2> QED
      BY <1>2, <2>1, <2>2, PhysRegIs, RegsAreRegisters DEF FoldReg
  <1> QED
    BY <1>1, <1>2

LEMMA PoppedKeeps ==
  ASSUME WindowSize \in Nat \ {0}, NEW s, NEW stack \in Seq(Values),
         NEW acc \in Values, InStep(s, stack, acc), NEW top \in Nat,
         Len(stack) = top + 1, s.proc.args <= top,
         s.kind = "Pending", NEW r \in Registers, s.value = Reg(r),
         r # PhysReg(top)
  PROVE  Keeps(s, FinishPop(s), SubSeq(stack, 1, top), acc)
  <1> DEFINE t == FinishPop(s)
  <1>1. IsState(s) /\ Layout(s, stack) /\ AccOk(s, acc) /\ FlagsOk(s)
        /\ s.tos = top + 1 /\ s.tos - 1 = top /\ s.proc.args \in Nat
    BY DEF InStep, Layout, IsState
  <1>2. s.proc.args < s.tos
    BY <1>1
  <1>3. /\ Lowered(s, t, stack, s.tos - 1)
        /\ \A q \in Registers : q # PhysReg(s.tos - 1) => t.reg[q] = s.reg[q]
    BY <1>1, <1>2, FinishPopDoes
  <1> HIDE DEF t
  <1>4. /\ Lowered(s, t, stack, top) /\ t.reg[r] = s.reg[r]
    BY <1>1, <1>3
  <1>5. s.reg[r] = acc
    BY <1>1 DEF AccOk, ValueOf, Reg
  <1>6. AccOk(t, acc)
    BY <1>4, <1>5 DEF AccOk, ValueOf, Reg, Lowered, SameAcc
  <1>7. SubSeq(stack, 1, top) \in Seq(Values)
    <2>1. \A i \in 1 .. top : stack[i] \in Values
      BY ElementOfSeq
    <2> QED
      BY <2>1, SubSeqProperties
  <1>8. acc \in Accs
    BY DEF Accs
  <1> QED
    BY <1>1, <1>4, <1>6, <1>7, <1>8 DEF Keeps, InStep, Lowered, t

PopLeaves(s, stack, acc, op, top, fold, wide) ==
  LET v == Compute(op, acc, stack[top + 1])
      r == FoldReg(fold)
      t == BinaryOp(s, op, s.value, Reg(PhysReg(top)), r, wide)
  IN  /\ Keeps(s, FinishPop(Pending(t, Reg(r))), Stored(Front(stack), fold, v), v)
      /\ Len(Stored(Front(stack), fold, v)) = top

LEMMA PopOperandKeeps ==
  ASSUME WindowSize \in Nat \ {0}, NEW s, NEW stack \in Seq(Values),
         NEW acc \in Values, InStep(s, stack, acc), s.kind # "Boolean",
         NEW op \in BinaryOps, NEW top \in Nat, Len(stack) = top + 1,
         s.proc.args <= top, NEW fold \in FoldsOf(s, top), NEW wide \in BOOLEAN
  PROVE  PopLeaves(s, stack, acc, op, top, fold, wide)
  <1> DEFINE y == stack[top + 1]
             v == Compute(op, acc, y)
             r == FoldReg(fold)
             rhs == Reg(PhysReg(top))
             p == Pending(BinaryOp(s, op, s.value, rhs, r, wide), Reg(r))
             all == Stored(stack, fold, v)
  <1>1. IsState(s) /\ Layout(s, stack) /\ s.tos = top + 1 /\ top \in 0 .. s.tos - 1
        /\ y \in Values /\ top >= SpilledCount(s.tos)
    <2>1. IsState(s) /\ Layout(s, stack) /\ s.tos = top + 1 /\ top \in 0 .. s.tos - 1
      BY DEF InStep, Layout
    <2>2. InWindow(s.tos, top)
      BY <2>1 DEF InWindow
    <2> QED
      BY <2>1, <2>2, LayoutIs
  <1>2. IsOperand(rhs) /\ ValueOf(s, rhs) = y
    <2>1. PhysReg(top) \in PhysRegs
      BY PhysRegIs
    <2>2. s.reg[PhysReg(top)] = y
      BY <1>1 DEF Layout, InRegs
    <2> QED
      BY <2>1, <2>2 DEF IsOperand, ValueOf, Reg
  <1>3. fold \in FoldsOf(s, Len(stack))
        /\ fold \in {-1} \cup 0 .. top - 1
    BY DEF FoldsOf
  <1> HIDE DEF rhs, y
  <1>4. /\ Keeps(s, p, all, v) /\ Len(all) = Len(stack)
        /\ p.kind = "Pending" /\ p.value = Reg(r) /\ p.reg[r] = v
        /\ p.tos = s.tos /\ v \in Values
    BY <1>1, <1>2, <1>3, OperationKeeps
  <1>5. r # PhysReg(top) /\ r \in Registers
    BY <1>1, PopApart
  <1>6. v \in Values
    BY <1>4
  <1> HIDE DEF p, r, v
  <1>61. /\ SubSeq(Stored(stack, fold, v), 1, top) = Stored(Front(stack), fold, v)
         /\ Len(Stored(Front(stack), fold, v)) = top
    BY <1>3, <1>6, FrontStored
  <1> HIDE DEF all
  <1>7. InStep(p, all, v) /\ all \in Seq(Values) /\ p.proc = s.proc
    BY <1>4 DEF Keeps
  <1>8. Keeps(p, FinishPop(p), SubSeq(all, 1, top), v)
    BY <1>4, <1>5, <1>7, PoppedKeeps
  <1> QED
    BY <1>61, <1>7, <1>8 DEF Keeps, PopLeaves, p, all, r, v, rhs, y


-----------------------------------------------------------------------------
(* Comparisons. *)

LEMMA ComparedKeeps ==
  ASSUME WindowSize \in Nat \ {0}, NEW s, NEW stack \in Seq(Values),
         NEW acc \in Values, InStep(s, stack, acc), s.kind # "Boolean",
         NEW cond \in {"EQ", "GT", "LT"}, NEW operand, IsOperand(operand),
         NEW y \in Values, ValueOf(s, operand) = y, NEW wide \in BOOLEAN
  PROVE  LET t == Compare(s, cond, s.value, operand, wide)
             v == IF Truth(cond, acc, y) THEN 1 ELSE 0
         IN  Keeps(s, t, stack, v) /\ t.kind = "Boolean" /\ t.tos = s.tos /\ v \in Values
  <1> DEFINE t == Compare(s, cond, s.value, operand, wide)
             v == IF Truth(cond, acc, y) THEN 1 ELSE 0
  <1>1. /\ s.value \in Shapes /\ ValueOf(s, s.value) = acc
        /\ IsState(s) /\ FlagsOk(s) /\ Layout(s, stack)
    BY AccIsValue
  <1>2. Compared(s, t, Truth(cond, acc, y))
    BY <1>1, CompareDoes
  <1>3. v \in Values /\ v \in Accs
    BY EmittersConstants DEF Accs
  <1> HIDE DEF t
  <1>4. /\ IsState(t) /\ SameFrame(s, t) /\ FlagsOk(t) /\ t.kind = "Boolean"
        /\ Holds(t) = v /\ \A q \in PhysRegs : t.reg[q] = s.reg[q]
    BY <1>2 DEF Compared
  <1> HIDE DEF v
  <1>5. AccOk(t, v)
    BY <1>4 DEF AccOk
  <1>6. InStep(t, stack, v) /\ t.proc = s.proc
    BY <1>4, <1>5, StillInStep
  <1> QED
    BY <1>3, <1>4, <1>6 DEF Keeps, SameFrame, t, v

(* The pop of a comparison's operand, the outcome waiting in the flags. *)
LEMMA BooleanPopped ==
  ASSUME WindowSize \in Nat \ {0}, NEW s, NEW stack \in Seq(Values),
         NEW acc \in Values, InStep(s, stack, acc), s.kind = "Boolean",
         NEW top \in Nat, Len(stack) = top + 1, s.proc.args <= top
  PROVE  Keeps(s, FinishPop(s), Front(stack), acc) /\ Len(Front(stack)) = top
  <1> DEFINE t == FinishPop(s)
  <1>1. IsState(s) /\ Layout(s, stack) /\ s.tos = top + 1 /\ s.tos - 1 = top
        /\ s.proc.args \in Nat /\ s.proc.args < s.tos
    BY DEF InStep, Layout, IsState
  <1>2. Lowered(s, t, stack, s.tos - 1)
    BY <1>1, FinishPopDoes
  <1> HIDE DEF t
  <1>3. Lowered(s, t, stack, top) /\ acc \in Accs /\ top <= Len(stack)
    BY <1>1, <1>2 DEF Accs
  <1>4. Keeps(s, t, SubSeq(stack, 1, top), acc) /\ Len(SubSeq(stack, 1, top)) = top
    BY <1>3, LoweredKeeps
  <1> QED
    BY <1>4 DEF Front, t

LEMMA OutcomeKept ==
  ASSUME WindowSize \in Nat \ {0}, NEW s, NEW stack \in Seq(Values),
         NEW acc \in Values, InStep(s, stack, acc), NEW fold \in FoldsOf(s, Len(stack))
  PROVE  /\ Keeps(s, Flush(s, FoldReg(fold)), Stored(stack, fold, acc), acc)
         /\ Len(Stored(stack, fold, acc)) = Len(stack)
  <1>1. /\ IsState(s) /\ FlagsOk(s) /\ AccOk(s, acc) /\ Layout(s, stack)
        /\ FoldReg(fold) \in Homes
    BY FoldRegIs DEF InStep
  <1>2. Flushed(s, Flush(s, FoldReg(fold)), FoldReg(fold), acc)
    BY <1>1, FlushDoes
  <1>3. Brought(s, Flush(s, FoldReg(fold)), FoldReg(fold), acc)
    BY <1>2, FlushedBrings
  <1> QED
    BY <1>1, <1>3, StoredKeeps


-----------------------------------------------------------------------------
(* Calls. *)

LEMMA ReturnedDoes ==
  ASSUME WindowSize \in Nat \ {0}, NEW s, IsState(s), NEW n \in Nat,
         SpilledCount(n) \in 0 .. Len(s.mem), NEW v \in Values
  PROVE  LET t == Apply(Returned(s, n, v), FlagsUnknown)
         IN  /\ IsState(t) /\ t.tos = s.tos /\ t.proc = s.proc /\ FlagsOk(t)
             /\ t.flags.kind # "ZeroOf" /\ t.reg[ACC] = v
             /\ Len(t.mem) = Len(s.mem) - SpilledCount(n)
             /\ \A i \in 1 .. Len(t.mem) : t.mem[i] = s.mem[i]
  <1> DEFINE c == Called(s, v)
             w == Returned(s, n, v)
             t == Apply(w, FlagsUnknown)
             left == SubSeq(s.mem, 1, Len(s.mem) - SpilledCount(n))
             regs == [r \in DOMAIN c.reg |-> IF r = ACC THEN v ELSE Junk]
  <1>1. /\ c = [s EXCEPT !.reg = c.reg, !.lr = Junk, !.nz = NoFlags]
        /\ DOMAIN c.reg = Registers
    BY DEF Called, IsState
  <1> HIDE DEF c
  <1>2. w = [c EXCEPT !.mem = SubSeq(@, 1, Len(@) - SpilledCount(n)), !.reg = regs]
    BY DEF Returned, c
  <1>3. c.mem = s.mem
    BY <1>1 DEF IsState
  <1>4. w = [s EXCEPT !.reg = regs, !.lr = Junk, !.nz = NoFlags, !.mem = left]
    BY <1>1, <1>2, <1>3 DEF IsState
  <1>5. regs \in [Registers -> Words] /\ regs[ACC] = v
    BY <1>1, RegsAreRegisters DEF Words
  <1>6. /\ left \in Seq(Words) /\ Len(left) = Len(s.mem) - SpilledCount(n)
        /\ \A i \in 1 .. Len(left) : left[i] = s.mem[i]
    <2>1. s.mem \in Seq(Words) /\ Len(s.mem) \in Nat
      BY DEF IsState
    <2> DEFINE m == Len(s.mem) - SpilledCount(n)
    <2>2. m \in Nat /\ m <= Len(s.mem)
      BY <2>1
    <2> HIDE DEF m
    <2>3. \A i \in 1 .. m : s.mem[i] \in Words
      BY <2>1, <2>2, ElementOfSeq
    <2>4. /\ SubSeq(s.mem, 1, m) \in Seq(Words) /\ Len(SubSeq(s.mem, 1, m)) = m
          /\ \A i \in 1 .. m : SubSeq(s.mem, 1, m)[i] = s.mem[i]
      BY <2>2, <2>3, SubSeqProperties
    <2> QED
      BY <2>4 DEF m
  <1> HIDE DEF w, left, regs
  <1>7. /\ w.tos = s.tos /\ w.proc = s.proc /\ w.reg = regs /\ w.mem = left
        /\ w.kind = s.kind /\ w.value = s.value /\ w.flags = s.flags
    BY <1>4 DEF IsState
  <1>8. IsState(w)
    BY <1>4, <1>5, <1>6, <1>7 DEF IsState
  <1>9. Marked(w, t) /\ FlagsOk(t)
    BY <1>8, UnknownDoes
  <1>10. t.flags.kind # "ZeroOf"
    BY <1>8 DEF Apply, FlagsUnknown, Unknown, IsState
  <1> HIDE DEF t
  <1> QED
    BY <1>5, <1>6, <1>7, <1>9, <1>10 DEF Marked, SameMachine, t, w

(* From the spill before a call to the operand stack after it, the callee
   having found what is its, and nothing in the registers being left. *)
LEMMA CallReturns ==
  ASSUME WindowSize \in Nat \ {0}, NEW s, IsState(s), NEW stack \in Seq(Values),
         Layout(s, stack), s.proc.savesLR, NEW a \in Nat, s.proc.args + a <= s.tos,
         NEW n \in Nat, NEW x, IsState(x), x.tos = s.tos, x.proc = s.proc,
         SpilledCount(n) \in 0 .. a,
         Len(x.mem) = (Len(SpillForCall(s, a).mem) - a) + SpilledCount(n),
         \A i \in 1 .. Len(x.mem) : x.mem[i] = SpillForCall(s, a).mem[i],
         NEW v \in Values
  PROVE  LET t == Apply(Returned(x, n, v), FlagsUnknown)
             u == Pending(ReloadAfterCall(t, s.tos - a), Reg(ACC))
         IN  /\ Keeps(s, u, SubSeq(stack, 1, s.tos - a), v)
             /\ Len(SubSeq(stack, 1, s.tos - a)) = s.tos - a
  <1> DEFINE sp == SpillForCall(s, a)
             t == Apply(Returned(x, n, v), FlagsUnknown)
             m == s.tos - a
             w == ReloadAfterCall(t, m)
             u == Pending(w, Reg(ACC))
  <1>1. /\ IsState(sp) /\ SameTracking(s, sp) /\ ArgsOnTop(sp, stack, a)
        /\ Parked(s, sp, stack, a)
    BY SpillForCallDoes
  <1> HIDE DEF sp
  <1>2. Len(sp.mem) \in Nat /\ a <= Len(sp.mem) /\ Len(x.mem) \in Nat
    BY <1>1 DEF ArgsOnTop, IsState
  <1>3. SpilledCount(n) \in 0 .. Len(x.mem)
        /\ Len(x.mem) = (Len(sp.mem) - a) + SpilledCount(n)
    BY <1>2 DEF sp
  <1>4. /\ IsState(t) /\ t.tos = s.tos /\ t.proc = s.proc /\ FlagsOk(t)
        /\ t.flags.kind # "ZeroOf" /\ t.reg[ACC] = v
        /\ Len(t.mem) = Len(x.mem) - SpilledCount(n)
        /\ \A i \in 1 .. Len(t.mem) : t.mem[i] = x.mem[i]
    BY <1>3, ReturnedDoes
  <1> HIDE DEF t
  <1>5. /\ Len(t.mem) = Len(sp.mem) - a
        /\ \A i \in 1 .. Len(t.mem) : t.mem[i] = sp.mem[i]
    <2>1. SpilledCount(n) \in Nat
      OBVIOUS
    <2>2. Len(t.mem) = Len(sp.mem) - a /\ Len(t.mem) <= Len(x.mem)
      BY <1>2, <1>3, <1>4, <2>1
    <2> QED
      BY <1>2, <1>4, <2>2 DEF sp
  <1>6. IsState(sp) /\ sp.proc = s.proc
    BY <1>1 DEF SameTracking
  <1>7. Lowered(t, w, stack, m)
    BY <1>1, <1>2, <1>4, <1>5, <1>6, ReloadAfterCallDoes
  <1>8. m \in Nat /\ m <= Len(stack) /\ ACC \in Homes /\ Reg(ACC) \in Shapes
    <2>1. s.tos \in Nat /\ s.proc.args \in Nat /\ s.tos = Len(stack)
      BY DEF Layout, IsState
    <2>2. m \in Nat /\ m <= Len(stack)
      <3> DEFINE n0 == s.proc.args
                 d == s.tos
      <3>1. d \in Nat /\ n0 \in Nat /\ a \in Nat /\ n0 + a <= d
        BY <2>1
      <3>2. m = d - a /\ d = Len(stack)
        BY <2>1
      <3> HIDE DEF n0, d, m
      <3> QED
        BY ONLY <3>1, <3>2
    <2>3. ACC \in Homes /\ Reg(ACC) \in Shapes
      BY RegsAreRegisters DEF Shapes
    <2> QED
      BY <2>2, <2>3
  <1> HIDE DEF w, m
  <1>9. IsState(w) /\ w.proc = t.proc /\ FlagsOk(w) /\ w.reg[ACC] = v
        /\ Layout(w, SubSeq(stack, 1, m))
    BY <1>4, <1>7, RegsAreRegisters DEF Lowered
  <1>10. /\ IsState(u) /\ u.tos = w.tos /\ u.proc = w.proc /\ SameMachine(w, u)
         /\ u.flags = w.flags /\ u.kind = "Pending" /\ u.value = Reg(ACC)
    BY <1>8, <1>9, PendingDoes
  <1> HIDE DEF u
  <1>11. FlagsOk(u) /\ AccOk(u, v) /\ SameFrame(w, u) /\ \A q \in PhysRegs : u.reg[q] = w.reg[q]
    BY <1>9, <1>10 DEF FlagsOk, AccOk, ValueOf, Reg, SameFrame, SameMachine
  <1>12. SubSeq(stack, 1, m) \in Seq(Values) /\ Len(SubSeq(stack, 1, m)) = m
    <2>1. \A i \in 1 .. m : stack[i] \in Values
      BY <1>8, ElementOfSeq
    <2> QED
      BY <1>8, <2>1, SubSeqProperties
  <1>13. Layout(u, SubSeq(stack, 1, m))
    BY <1>9, <1>11, <1>12, LayoutKept
  <1>14. v \in Accs
    BY DEF Accs
  <1> QED
    BY <1>4, <1>9, <1>10, <1>11, <1>12, <1>13, <1>14
       DEF Keeps, InStep, u, w, t, m

LEMMA ArgumentsFound ==
  ASSUME WindowSize \in Nat \ {0}, NEW s, IsState(s), NEW stack \in Seq(Values),
         Layout(s, stack), NEW a \in Nat, s.proc.args + a <= s.tos,
         NEW acc \in Values, s.reg[ACC] = acc
  PROVE  LET x == CallOf(a + 1, s)
         IN  /\ FoundBy(a + 1, x)
                  = Append(SubSeq(stack, (Len(stack) - a) + 1, Len(stack)), acc)
             /\ IsState(x) /\ x.tos = s.tos /\ x.proc = s.proc
             /\ SpilledCount(a + 1) \in 0 .. a
             /\ Len(x.mem) = (Len(SpillForCall(s, a).mem) - a) + SpilledCount(a + 1)
             /\ \A i \in 1 .. Len(x.mem) : x.mem[i] = SpillForCall(s, a).mem[i]
  <1> DEFINE sp == SpillForCall(s, a)
             x == FillCalleeArgs(sp, a)
             c == SpilledCount(a + 1)
             base == Len(stack) - a
             args == SubSeq(stack, base + 1, Len(stack))
             found == FoundBy(a + 1, x)
             expected == Append(args, acc)
  <1>1. x = CallOf(a + 1, s)
    BY DEF CallOf
  <1>2. /\ IsState(sp) /\ SameTracking(s, sp) /\ sp.reg = s.reg
        /\ ArgsOnTop(sp, stack, a)
    BY SpillForCallDoes
  <1> HIDE DEF sp
  <1>3. /\ IsState(x) /\ x.tos = sp.tos /\ x.proc = sp.proc
        /\ x.reg[ACC] = sp.reg[ACC] /\ c \in 0 .. a
        /\ Len(x.mem) = (Len(sp.mem) - a) + c
        /\ \A i \in 1 .. Len(x.mem) : x.mem[i] = sp.mem[i]
        /\ \A k \in c .. a - 1 : x.reg[PhysReg(k)] = stack[base + (k + 1)]
    BY <1>2, FillCalleeArgsDoes
  <1>4. /\ Len(stack) \in Nat /\ base \in Nat /\ base + a = Len(stack)
    <2>1. s.tos \in Nat /\ s.proc.args \in Nat /\ Len(stack) = s.tos
      BY DEF IsState, Layout
    <2> QED
      BY <2>1
  <1>5. /\ args \in Seq(Values) /\ Len(args) = a
        /\ \A k \in 1 .. a : args[k] = stack[base + k]
    <2>1. \A i \in base + 1 .. Len(stack) : stack[i] \in Values
      <3>1. \A i \in base + 1 .. Len(stack) : i \in 1 .. Len(stack)
        BY <1>4
      <3> QED
        BY <3>1, ElementOfSeq
    <2>2. base + 1 \in Int /\ Len(stack) \in Int
      BY <1>4
    <2>3. /\ args \in Seq(Values)
          /\ Len(args) = IF base + 1 <= Len(stack) THEN Len(stack) - (base + 1) + 1 ELSE 0
          /\ \A i \in 1 .. Len(stack) - (base + 1) + 1 : args[i] = stack[(base + 1) + i - 1]
      BY <2>1, <2>2, SubSeqProperties
    <2>4. Len(args) = a
      BY <1>4, <2>3
    <2>5. ASSUME NEW k \in 1 .. a PROVE args[k] = stack[base + k]
      <3>1. k \in 1 .. Len(stack) - (base + 1) + 1 /\ (base + 1) + k - 1 = base + k
        BY <1>4
      <3> QED
        BY <2>3, <3>1
    <2> QED
      BY <2>3, <2>4, <2>5
  <1>6. x.reg[ACC] = acc
    BY <1>2, <1>3
  <1>7. Len(sp.mem) \in Nat /\ a <= Len(sp.mem)
        /\ \A k \in 1 .. a : sp.mem[(Len(sp.mem) - a) + k] = stack[base + k]
    BY <1>2 DEF ArgsOnTop, IsState
  <1> HIDE DEF x, args, base
  <1>8. ASSUME NEW k \in 1 .. a
        PROVE  IF InWindow(a + 1, k - 1) THEN x.reg[PhysReg(k - 1)] = stack[base + k]
               ELSE MemAt(x, Len(x.mem) - (c - k)) = stack[base + k]
    <2>1. InWindow(a + 1, k - 1) <=> k - 1 >= c
      BY DEF InWindow, SpilledCount
    <2> HIDE DEF c
    <2>2. CASE k - 1 >= c
      <3>1. k - 1 \in c .. a - 1 /\ (k - 1) + 1 = k
        BY <1>3, <2>2
      <3> QED
        BY <1>3, <2>1, <2>2, <3>1
    <2>3. CASE ~ (k - 1 >= c)
      <3> DEFINE i == (Len(sp.mem) - a) + k
      <3>1. i = Len(x.mem) - (c - k)
        BY <1>3, <1>7
      <3>2. i \in 1 .. Len(x.mem)
        BY <1>3, <1>7, <2>3
      <3>3. x.mem[i] = stack[base + k]
        BY <1>3, <1>7, <3>2
      <3> HIDE DEF i
      <3>4. MemAt(x, i) = x.mem[i]
        BY <3>2 DEF MemAt
      <3> QED
        BY <2>1, <2>3, <3>1, <3>3, <3>4
    <2> QED
      BY <2>2, <2>3
  <1>9. found = [k \in 1 .. a + 1 |->
                   IF k = a + 1 THEN x.reg[ACC]
                   ELSE IF InWindow(a + 1, k - 1) THEN x.reg[PhysReg(k - 1)]
                   ELSE MemAt(x, Len(x.mem) - (c - k))]
    BY DEF FoundBy
  <1>10. ASSUME NEW k \in 1 .. a + 1
         PROVE  found[k] = IF k = a + 1 THEN acc ELSE stack[base + k]
    <2> HIDE DEF found, c
    <2>1. CASE k = a + 1
      BY <1>6, <1>9, <2>1
    <2>2. CASE k # a + 1
      <3>1. k \in 1 .. a
        BY <2>2
      <3>2. found[k] = IF InWindow(a + 1, k - 1) THEN x.reg[PhysReg(k - 1)]
                       ELSE MemAt(x, Len(x.mem) - (c - k))
        BY <1>9, <2>2
      <3> QED
        BY <1>8, <2>2, <3>1, <3>2
    <2> QED
      BY <2>1, <2>2
  <1>11. expected = [k \in 1 .. a + 1 |-> IF k = a + 1 THEN acc ELSE args[k]]
    <2>1. /\ expected \in Seq(Values) /\ Len(expected) = a + 1
          /\ \A i \in 1 .. a : expected[i] = args[i]
          /\ expected[a + 1] = acc
      BY <1>5, AppendProperties
    <2> HIDE DEF expected
    <2>2. expected \in [1 .. a + 1 -> Values]
      BY <2>1, LenProperties
    <2> QED
      BY <2>1, <2>2
  <1>12. found = expected
    <2> HIDE DEF found, expected, c
    <2>1. found = [k \in 1 .. a + 1 |-> IF k = a + 1 THEN acc ELSE stack[base + k]]
      BY <1>9, <1>10
    <2>2. expected = [k \in 1 .. a + 1 |-> IF k = a + 1 THEN acc ELSE stack[base + k]]
      BY <1>5, <1>11
    <2> QED
      BY <2>1, <2>2
  <1> QED
    BY <1>1, <1>2, <1>3, <1>12 DEF SameTracking, sp, args, base


CallLeaves(s, stack, acc, a, v) ==
  LET x == CallOf(a + 1, Flush(s, ACC))
      u == Pending(ReloadAfterCall(Apply(Returned(x, a + 1, v), FlagsUnknown),
                                   s.tos - a), Reg(ACC))
      rest == SubSeq(stack, 1, Len(stack) - a)
  IN  /\ Keeps(s, u, rest, v) /\ Len(rest) = Len(stack) - a
      /\ FoundBy(a + 1, x)
           = Append(SubSeq(stack, (Len(stack) - a) + 1, Len(stack)), acc)

LEMMA CallKeeps ==
  ASSUME WindowSize \in Nat \ {0}, NEW s, NEW stack \in Seq(Values),
         NEW acc \in Values, InStep(s, stack, acc), s.proc.savesLR,
         NEW a \in Nat, s.proc.args + a <= Len(stack), NEW v \in Values
  PROVE  CallLeaves(s, stack, acc, a, v)
  <1> DEFINE t == Flush(s, ACC)
             n == a + 1
             x == CallOf(n, t)
  <1>1. /\ IsState(s) /\ FlagsOk(s) /\ AccOk(s, acc) /\ Layout(s, stack)
        /\ ACC \in Homes /\ s.tos = Len(stack)
    BY RegsAreRegisters DEF InStep, Layout
  <1>2. Flushed(s, t, ACC, acc)
    BY <1>1, FlushDoes
  <1> HIDE DEF t
  <1>3. /\ IsState(t) /\ SameFrame(s, t) /\ t.reg[ACC] = acc
        /\ \A q \in PhysRegs : t.reg[q] = s.reg[q]
    BY <1>2, RegsAreRegisters DEF Flushed
  <1>4. Layout(t, stack) /\ t.proc = s.proc /\ t.tos = s.tos
    BY <1>1, <1>3, LayoutKept DEF SameFrame
  <1>5. /\ FoundBy(n, x) = Append(SubSeq(stack, (Len(stack) - a) + 1, Len(stack)), acc)
        /\ IsState(x) /\ x.tos = t.tos /\ x.proc = t.proc
        /\ SpilledCount(n) \in 0 .. a
        /\ Len(x.mem) = (Len(SpillForCall(t, a).mem) - a) + SpilledCount(n)
        /\ \A i \in 1 .. Len(x.mem) : x.mem[i] = SpillForCall(t, a).mem[i]
    BY <1>1, <1>3, <1>4, ArgumentsFound
  <1>6. n \in Nat
    OBVIOUS
  <1> HIDE DEF x, n
  <1> DEFINE u == Pending(ReloadAfterCall(Apply(Returned(x, n, v), FlagsUnknown),
                                          t.tos - a), Reg(ACC))
             rest == SubSeq(stack, 1, t.tos - a)
  <1>7. Keeps(t, u, rest, v) /\ Len(rest) = t.tos - a
    <2>1. t.proc.savesLR /\ t.proc.args + a <= t.tos
      BY <1>1, <1>4
    <2> QED
      BY <1>3, <1>4, <1>5, <1>6, <2>1, CallReturns
  <1> QED
    BY <1>1, <1>4, <1>5, <1>7 DEF Keeps, CallLeaves, x, n, t

LEMMA PoisonKeeps ==
  ASSUME WindowSize \in Nat \ {0}, NEW s, NEW stack \in Seq(Values), NEW acc,
         InStep(s, stack, acc)
  PROVE  Keeps(s, Poison(s), stack, Junk) /\ Poison(s).tos = s.tos
         /\ Poison(s).kind = "Dead"
  <1> DEFINE t == Poison(s)
  <1>1. /\ IsState(t) /\ t.tos = s.tos /\ t.proc = s.proc /\ SameMachine(s, t)
        /\ t.flags = s.flags /\ t.kind = "Dead"
    BY PoisonDoes DEF InStep
  <1> HIDE DEF t
  <1>2. FlagsOk(t) /\ SameFrame(s, t) /\ t.reg = s.reg /\ AccOk(t, Junk) /\ Junk \in Accs
    BY <1>1, DeadAccIsOk DEF FlagsOk, SameFrame, SameMachine, InStep
  <1>3. InStep(t, stack, Junk) /\ t.proc = s.proc
    BY <1>1, <1>2, StillInStep
  <1> QED
    BY <1>1, <1>2, <1>3 DEF Keeps, t

(* With no argument, acc is lost and nothing is moved for the callee. *)
LEMMA EmptyCallKeeps ==
  ASSUME WindowSize \in Nat \ {0}, NEW s, NEW stack \in Seq(Values), NEW acc,
         InStep(s, stack, acc), s.proc.savesLR, NEW v \in Values
  PROVE  LET x == SpillForCall(Poison(s), 0)
             u == Pending(ReloadAfterCall(Apply(Returned(x, 0, v), FlagsUnknown),
                                          s.tos - 0), Reg(ACC))
             rest == SubSeq(stack, 1, Len(stack) - 0)
         IN  /\ Keeps(s, u, rest, v) /\ Len(rest) = Len(stack)
             /\ FoundBy(0, x) = << >>
  <1> DEFINE t == Poison(s)
             x == SpillForCall(t, 0)
             u == Pending(ReloadAfterCall(Apply(Returned(x, 0, v), FlagsUnknown),
                                          t.tos - 0), Reg(ACC))
             rest == SubSeq(stack, 1, t.tos - 0)
  <1>1. InStep(t, stack, Junk) /\ t.proc = s.proc /\ t.tos = s.tos
    BY PoisonKeeps DEF Keeps
  <1> HIDE DEF t
  <1>2. /\ IsState(t) /\ Layout(t, stack) /\ t.tos = Len(stack) /\ t.tos \in Nat
        /\ 0 \in Nat /\ t.proc.args + 0 <= t.tos
    BY <1>1 DEF InStep, Layout, IsState
  <1>3. IsState(x) /\ SameTracking(t, x)
    BY <1>2, SpillForCallDoes
  <1>4. SpilledCount(0) = 0
    BY DEF SpilledCount
  <1>5. /\ SpilledCount(0) \in 0 .. 0 /\ x.tos = t.tos /\ x.proc = t.proc
        /\ Len(x.mem) = (Len(SpillForCall(t, 0).mem) - 0) + SpilledCount(0)
        /\ \A i \in 1 .. Len(x.mem) : x.mem[i] = SpillForCall(t, 0).mem[i]
    <2>1. x.tos = t.tos /\ x.proc = t.proc /\ Len(x.mem) \in Nat
      BY <1>3 DEF SameTracking, IsState
    <2> QED
      BY <1>4, <2>1
  <1>6. Keeps(t, u, rest, v) /\ Len(rest) = t.tos - 0
    BY <1>1, <1>2, <1>3, <1>5, CallReturns
  <1>7. FoundBy(0, x) = << >>
    BY DEF FoundBy
  <1>8. t.tos = Len(stack) /\ t.tos - 0 = t.tos /\ s.tos = t.tos
    BY <1>1, <1>2
  <1> QED
    BY <1>1, <1>6, <1>7, <1>8 DEF Keeps, t

-----------------------------------------------------------------------------
(* Extension instructions. *)

LEMMA OpaqueKeeps ==
  ASSUME WindowSize \in Nat \ {0}, NEW s, IsState(s), NEW stack \in Seq(Values),
         NEW acc \in Accs, AccOk(s, acc), s.kind # "Boolean", Layout(s, stack)
  PROVE  Keeps(s, Opaque(s), stack, acc)
  <1> DEFINE t == Opaque(s)
  <1>1. Marked(s, t) /\ FlagsOk(t)
    BY UnknownDoes DEF Opaque
  <1> HIDE DEF t
  <1>2. /\ IsState(t) /\ SameFrame(s, t) /\ t.reg = s.reg /\ AccOk(t, acc)
    BY <1>1 DEF Marked, SameMachine, SameFrame, SameAcc, AccOk, ValueOf
  <1>3. Layout(t, stack)
    BY <1>2, LayoutKept
  <1> QED
    BY <1>1, <1>2, <1>3 DEF Keeps, InStep, SameFrame, t

(* The accumulator out of the way of a register about to be written. *)
LEMMA ResolveDoes ==
  ASSUME WindowSize \in Nat \ {0}, NEW s, IsState(s), FlagsOk(s), NEW acc,
         AccOk(s, acc), s.kind # "Boolean", NEW r \in Registers, r # ACC
  PROVE  LET t == ResolveIfLiveIn(s, r)
         IN  /\ IsState(t) /\ FlagsOk(t) /\ AccOk(t, acc) /\ SameFrame(s, t)
             /\ t.kind # "Boolean" /\ (t.kind = "Pending" => t.value # Reg(r))
             /\ \A q \in Registers : q # ACC => t.reg[q] = s.reg[q]
  <1> DEFINE t == ResolveIfLiveIn(s, r)
  <1>1. CASE LivesIn(s, r)
    <2>1. t = Flush(s, ACC)
      BY <1>1 DEF ResolveIfLiveIn
    <2> HIDE DEF t
    <2>2. Flushed(s, t, ACC, acc)
      BY <2>1, FlushDoes, RegsAreRegisters
    <2>3. Reg(ACC) # Reg(r)
      BY DEF Reg
    <2> QED
      BY <2>2, <2>3 DEF Flushed, AccOk, ValueOf, Reg, t
  <1>2. CASE ~ LivesIn(s, r)
    <2>1. t = s
      BY <1>2 DEF ResolveIfLiveIn
    <2> QED
      BY <1>2, <2>1 DEF LivesIn, SameFrame
  <1> QED
    BY <1>1, <1>2

(* An accumulator is where it was if its own register was not written. *)
LEMMA AccUntouched ==
  ASSUME WindowSize \in Nat \ {0}, NEW s, IsState(s), NEW acc, AccOk(s, acc),
         s.kind # "Boolean", NEW r \in Registers,
         s.kind = "Pending" => s.value # Reg(r), NEW t, SameAcc(s, t), \A q \in Homes : q # r => t.reg[q] = s.reg[q]
  PROVE  AccOk(t, acc)
  <1> SUFFICES ASSUME acc \in Values PROVE t.kind = "Pending" /\ ValueOf(t, t.value) = acc
    BY DEF AccOk
  <1>1. s.kind = "Pending" /\ ValueOf(s, s.value) = acc /\ s.value \in Shapes
        /\ s.value # Reg(r)
    BY DEF AccOk, IsState
  <1>2. CASE s.value.is = "imm"
    BY <1>1, <1>2 DEF ValueOf, SameAcc
  <1>3. CASE s.value.is = "reg" /\ s.value.of \in Homes /\ s.value = Reg(s.value.of)
    <2>1. s.value.of # r
      BY <1>1, <1>3
    <2>2. t.reg[s.value.of] = s.reg[s.value.of]
      BY <1>3, <2>1
    <2> QED
      BY <1>1, <1>3, <2>2 DEF ValueOf, SameAcc
  <1> QED
    BY <1>1, <1>2, <1>3, ShapesAre

LEMMA ExtStoreKeeps ==
  ASSUME WindowSize \in Nat \ {0}, NEW s, NEW stack \in Seq(Values), NEW acc \in Accs,
         InStep(s, stack, acc), s.kind # "Boolean", NEW k \in 0 .. Len(stack) - 1,
         NEW src \in Registers, src # ACC, NEW v \in Values, s.reg[src] = v
  PROVE  /\ Keeps(s, Opaque(ExtStore(s, k, src)), SetSlot(stack, k, v), acc)
         /\ Len(SetSlot(stack, k, v)) = Len(stack)
  <1>1. /\ IsState(s) /\ FlagsOk(s) /\ AccOk(s, acc) /\ Layout(s, stack)
        /\ k \in 0 .. s.tos - 1 /\ k \in Nat
    BY DEF InStep, Layout
  <1>2. SetSlot(stack, k, v) \in Seq(Values) /\ Len(SetSlot(stack, k, v)) = Len(stack)
    BY DEF SetSlot
  <1>3. CASE ~ InWindow(s.tos, k)
    <2> DEFINE t == StrSp(s, src, k)
    <2>1. Keeps(s, t, SetSlot(stack, k, v), acc)
      BY <1>3, SpillStored
    <2>2. t.kind = s.kind
      BY <1>1, <1>3, StrSpDoes DEF SameTracking
    <2> HIDE DEF t
    <2>3. Keeps(t, Opaque(t), SetSlot(stack, k, v), acc)
      BY <1>2, <2>1, <2>2, OpaqueKeeps DEF Keeps, InStep
    <2> QED
      BY <1>2, <1>3, <2>1, <2>3 DEF Keeps, ExtStore, t
  <1>4. CASE InWindow(s.tos, k)
    <2> DEFINE dst == PhysReg(k)
               t == ResolveIfLiveIn(s, dst)
               u == MoveIfNeeded(t, dst, src)
    <2>1. dst \in Registers /\ dst # ACC /\ dst \in Homes
      BY <1>1, PhysRegIs, RegsAreRegisters
    <2>2. /\ IsState(t) /\ FlagsOk(t) /\ AccOk(t, acc) /\ SameFrame(s, t)
          /\ t.kind # "Boolean" /\ (t.kind = "Pending" => t.value # Reg(dst))
          /\ \A q \in Registers : q # ACC => t.reg[q] = s.reg[q]
      BY <1>1, <2>1, ResolveDoes
    <2> HIDE DEF t
    <2>3. t.reg[src] = v
      BY <2>2
    <2>4. /\ IsState(u) /\ SameFrame(t, u) /\ SameAcc(t, u) /\ u.reg[dst] = v
          /\ \A q \in Registers : q # dst => u.reg[q] = t.reg[q]
      <3>1. CASE dst = src
        BY <2>2, <2>3, <3>1 DEF MoveIfNeeded, SameFrame, SameAcc
      <3>2. CASE dst # src
        <4>1. Raw(t, Mov(t, dst, src), dst, v)
          BY <2>1, <2>2, <2>3, MovDoes
        <4> QED
          BY <3>2, <4>1 DEF MoveIfNeeded, Raw, Wrote
      <3> QED
        BY <3>1, <3>2
    <2>5. u = ExtStore(s, k, src)
      BY <1>4 DEF ExtStore, t
    <2> HIDE DEF u, dst
    <2>6. AccOk(u, acc)
      <3>1. \A q \in Homes : q # dst => u.reg[q] = t.reg[q]
        BY <2>4, RegsAreRegisters
      <3>2. SameAcc(t, u)
        BY <2>4
      <3> QED
        BY <2>1, <2>2, <3>1, <3>2, AccUntouched
    <2>7. SameFrame(s, u) /\ u.kind # "Boolean" /\ u.proc = s.proc
          /\ \A q \in PhysRegs : q # dst => u.reg[q] = s.reg[q]
      BY <2>2, <2>4, RegsAreRegisters DEF SameFrame, SameAcc
    <2>8. Layout(u, SetSlot(stack, k, v))
      BY <1>1, <1>4, <2>4, <2>7, SlotWritten DEF SetSlot, dst
    <2>9. Keeps(u, Opaque(u), SetSlot(stack, k, v), acc)
      BY <1>2, <2>4, <2>6, <2>7, <2>8, OpaqueKeeps
    <2> QED
      BY <1>2, <2>5, <2>7, <2>9 DEF Keeps
  <1> QED
    BY <1>3, <1>4


LEMMA JumpWritten ==
  ASSUME WindowSize \in Nat \ {0}, NEW s, NEW stack \in Seq(Values), NEW acc,
         InStep(s, stack, acc), NEW v, NEW t, Raw(s, t, JUMP, v), t.nz = s.nz
  PROVE  /\ InStep(t, stack, acc) /\ t.proc = s.proc /\ SameFrame(s, t) /\ SameAcc(s, t)
         /\ t.reg[JUMP] = v
  <1>1. JUMP \notin Homes
    BY RegsAreRegisters
  <1> QED
    BY <1>1, ScratchWritten

LEMMA ExtStoreFromJump ==
  ASSUME WindowSize \in Nat \ {0}, NEW s, NEW stack \in Seq(Values), NEW acc \in Accs,
         InStep(s, stack, acc), s.kind # "Boolean", NEW k \in 0 .. Len(stack) - 1,
         NEW v \in Values, s.reg[JUMP] = v
  PROVE  /\ Keeps(s, Opaque(ExtStore(s, k, JUMP)), SetSlot(stack, k, v), acc)
         /\ Len(SetSlot(stack, k, v)) = Len(stack)
  <1> DEFINE r == JUMP
  <1>1. r \in Registers /\ r # ACC /\ s.reg[r] = v
    BY RegsAreRegisters DEF JUMP, ACC
  <1> HIDE DEF r
  <1>2. /\ Keeps(s, Opaque(ExtStore(s, k, r)), SetSlot(stack, k, v), acc)
        /\ Len(SetSlot(stack, k, v)) = Len(stack)
    BY <1>1, ExtStoreKeeps, SMTT(30)
  <1> QED
    BY <1>2 DEF r

LEMMA ExtCopyKeeps ==
  ASSUME WindowSize \in Nat \ {0}, NEW s, NEW stack \in Seq(Values), NEW acc \in Accs,
         InStep(s, stack, acc), s.kind # "Boolean",
         NEW k \in 0 .. Len(stack) - 1, NEW j \in 0 .. Len(stack) - 1
  PROVE  LET t == IF InWindow(s.tos, k) THEN s ELSE LdrSp(s, JUMP, k)
             r == IF InWindow(s.tos, k) THEN PhysReg(k) ELSE JUMP
         IN  /\ Keeps(s, Opaque(ExtStore(t, j, r)), SetSlot(stack, j, stack[k + 1]), acc)
             /\ Len(SetSlot(stack, j, stack[k + 1])) = Len(stack)
  <1> DEFINE v == stack[k + 1]
  <1>1. /\ IsState(s) /\ Layout(s, stack) /\ k \in 0 .. s.tos - 1 /\ k \in Nat
        /\ v \in Values /\ (InWindow(s.tos, k) <=> k >= SpilledCount(s.tos))
    BY LayoutIs DEF InStep, Layout
  <1>2. CASE InWindow(s.tos, k)
    <2> DEFINE r == PhysReg(k)
    <2>1. r \in Registers /\ r # ACC
      BY <1>1, PhysRegIs, RegsAreRegisters
    <2>2. s.reg[r] = v
      BY <1>1, <1>2 DEF Layout, InRegs
    <2>3. v \in Values
      BY <1>1
    <2> HIDE DEF r, v
    <2>4. /\ Keeps(s, Opaque(ExtStore(s, j, r)), SetSlot(stack, j, v), acc)
          /\ Len(SetSlot(stack, j, v)) = Len(stack)
      BY <2>1, <2>2, <2>3, ExtStoreKeeps
    <2> QED
      BY <1>2, <2>4 DEF r, v
  <1>3. CASE ~ InWindow(s.tos, k)
    <2> DEFINE t == LdrSp(s, JUMP, k)
    <2>1. JUMP \in Registers /\ JUMP # ACC
      BY RegsAreRegisters DEF JUMP, ACC
    <2>2. Raw(s, t, JUMP, v) /\ t.nz = s.nz
      BY <1>1, <1>3, <2>1, LdrSpDoes
    <2> HIDE DEF t, v
    <2>3. /\ InStep(t, stack, acc) /\ t.proc = s.proc /\ SameAcc(s, t) /\ t.reg[JUMP] = v
      BY <2>2, JumpWritten
    <2>4. t.kind # "Boolean"
      BY <2>3 DEF SameAcc
    <2>5. /\ Keeps(t, Opaque(ExtStore(t, j, JUMP)), SetSlot(stack, j, v), acc)
          /\ Len(SetSlot(stack, j, v)) = Len(stack)
      BY <1>1, <2>3, <2>4, ExtStoreFromJump
    <2> QED
      BY <1>3, <2>3, <2>5 DEF Keeps, t, v
  <1> QED
    BY <1>2, <1>3

LEMMA ExtPushKeeps ==
  ASSUME WindowSize \in Nat \ {0}, NEW s, NEW stack \in Seq(Values), NEW acc \in Accs,
         InStep(s, stack, acc), s.kind # "Boolean", NEW v \in Values, s.reg[JUMP] = v
  PROVE  /\ Keeps(s, Opaque(ExtPush(s, JUMP)), Append(stack, v), acc)
         /\ Len(Append(stack, v)) = Len(stack) + 1
  <1> DEFINE e == Evict(s)
             dst == PhysReg(s.tos)
             t == ResolveIfLiveIn(e, dst)
             m == MoveIfNeeded(t, dst, JUMP)
             u == [m EXCEPT !.tos = @ + 1]
  <1>1. /\ IsState(s) /\ FlagsOk(s) /\ AccOk(s, acc) /\ Layout(s, stack)
        /\ s.tos = Len(stack) /\ s.tos \in Nat
    BY DEF InStep, Layout, IsState
  <1>2. /\ IsState(e) /\ SameTracking(s, e) /\ e.reg = s.reg /\ e.nz = s.nz
    BY <1>1, EvictDoes
  <1> HIDE DEF e
  <1>3. FlagsOk(e) /\ AccOk(e, acc) /\ e.kind # "Boolean"
    BY <1>1, <1>2 DEF FlagsOk, AccOk, ValueOf, Holds, SameTracking
  <1>4. dst \in Registers /\ dst # ACC /\ dst # JUMP /\ JUMP \in Registers /\ JUMP # ACC
    BY <1>1, PhysRegIs, RegsAreRegisters DEF JUMP, ACC
  <1>5. /\ IsState(t) /\ FlagsOk(t) /\ AccOk(t, acc) /\ SameFrame(e, t)
        /\ t.kind # "Boolean" /\ (t.kind = "Pending" => t.value # Reg(dst))
        /\ \A q \in Registers : q # ACC => t.reg[q] = e.reg[q]
    BY <1>2, <1>3, <1>4, ResolveDoes
  <1> HIDE DEF t
  <1>6. t.reg[JUMP] = v
    BY <1>2, <1>4, <1>5
  <1>7. Raw(t, m, dst, v)
    BY <1>4, <1>5, <1>6, MovDoes DEF MoveIfNeeded
  <1> HIDE DEF m
  <1>8. /\ IsState(m) /\ SameFrame(t, m) /\ SameAcc(t, m) /\ m.reg[dst] = v
        /\ \A q \in Registers : q # dst => m.reg[q] = t.reg[q]
    BY <1>7 DEF Raw, Wrote
  <1>9. AccOk(m, acc)
    <2>1. \A q \in Homes : q # dst => m.reg[q] = t.reg[q]
      BY <1>8, RegsAreRegisters
    <2>2. SameAcc(t, m)
      BY <1>8
    <2> QED
      BY <1>4, <1>5, <2>1, <2>2, AccUntouched
  <1>10. m.tos = s.tos /\ m.tos + 1 \in Nat
    BY <1>1, <1>2, <1>5, <1>8 DEF SameFrame, SameTracking
  <1> DEFINE n == m.tos + 1
  <1>11. u = [m EXCEPT !.tos = n]
    OBVIOUS
  <1> HIDE DEF u, n
  <1>12. /\ IsState(u) /\ u.tos = n /\ u.proc = m.proc /\ SameMachine(m, u)
         /\ SameAcc(m, u) /\ u.flags = m.flags
    BY <1>8, <1>10, <1>11, AtTos DEF n
  <1>13. AccOk(u, acc) /\ u.kind # "Boolean"
    BY <1>5, <1>8, <1>9, <1>12 DEF AccOk, ValueOf, SameMachine, SameAcc
  <1>14. /\ u.tos = s.tos + 1 /\ u.proc = s.proc /\ u.lr = s.lr /\ u.mem = e.mem
         /\ u.reg[dst] = v
    BY <1>2, <1>5, <1>8, <1>10, <1>12 DEF SameFrame, SameTracking, SameMachine, n
  <1>15. \A q \in PhysRegs : q # dst => u.reg[q] = s.reg[q]
    BY <1>2, <1>5, <1>8, <1>12, RegsAreRegisters DEF SameMachine
  <1>16. Layout(u, Append(stack, v))
    BY <1>1, <1>14, <1>15, TopWritten DEF e, dst
  <1>17. Append(stack, v) \in Seq(Values) /\ Len(Append(stack, v)) = Len(stack) + 1
    BY AppendProperties
  <1>18. Keeps(u, Opaque(u), Append(stack, v), acc)
    BY <1>12, <1>13, <1>16, <1>17, OpaqueKeeps
  <1>19. u = ExtPush(s, JUMP)
    BY DEF u, m, t, e, ExtPush
  <1> QED
    BY <1>14, <1>17, <1>18, <1>19 DEF Keeps

LEMMA ExtConstPushKeeps ==
  ASSUME WindowSize \in Nat \ {0}, NEW s, NEW stack \in Seq(Values), NEW acc \in Accs,
         InStep(s, stack, acc), s.kind # "Boolean", NEW v \in Values
  PROVE  /\ Keeps(s, Opaque(ExtPush(LoadInto(s, JUMP, v), JUMP)), Append(stack, v), acc)
         /\ Len(Append(stack, v)) = Len(stack) + 1
  <1> DEFINE t == LoadInto(s, JUMP, v)
  <1>1. IsState(s) /\ JUMP \in Registers /\ v \in Words
    BY RegsAreRegisters DEF InStep, Words
  <1>2. Raw(s, t, JUMP, v) /\ t.nz = s.nz
    BY <1>1, LoadDoes
  <1> HIDE DEF t
  <1>3. /\ InStep(t, stack, acc) /\ t.proc = s.proc /\ SameAcc(s, t) /\ t.reg[JUMP] = v
    BY <1>2, JumpWritten
  <1>4. t.kind # "Boolean"
    BY <1>3 DEF SameAcc
  <1>5. /\ Keeps(t, Opaque(ExtPush(t, JUMP)), Append(stack, v), acc)
        /\ Len(Append(stack, v)) = Len(stack) + 1
    BY <1>3, <1>4, ExtPushKeeps
  <1> QED
    BY <1>3, <1>5 DEF Keeps, t

(* A pop to a scratch register: acc leaves the popped slot's register only if
   that is about to be reloaded. *)
LEMMA ExtPopDoes ==
  ASSUME WindowSize \in Nat \ {0}, NEW s, NEW stack \in Seq(Values), NEW acc \in Accs,
         InStep(s, stack, acc), s.kind # "Boolean", NEW top \in Nat,
         Len(stack) = top + 1, s.proc.args <= top
  PROVE  LET t == ExtPop(s, JUMP)
         IN  /\ Keeps(s, t, Front(stack), acc) /\ t.kind # "Boolean"
             /\ t.reg[JUMP] = stack[top + 1] /\ Len(Front(stack)) = top
  <1> DEFINE r == PhysReg(top)
             v == stack[top + 1]
             u == IF top >= WindowSize THEN ResolveIfLiveIn(s, r) ELSE s
             m == Mov(u, JUMP, r)
             t == FinishPop(m)
  <1>1. /\ IsState(s) /\ FlagsOk(s) /\ AccOk(s, acc) /\ Layout(s, stack)
        /\ s.tos = top + 1 /\ s.tos - 1 = top /\ s.proc.args \in Nat
    BY DEF InStep, Layout, IsState
  <1>2. /\ r \in Registers /\ r # ACC /\ r # JUMP /\ JUMP \in Registers /\ JUMP # ACC
        /\ r \in PhysRegs /\ JUMP \notin Homes
    BY PhysRegIs, RegsAreRegisters DEF JUMP, ACC
  <1>3. s.reg[r] = v
    <2>1. InWindow(s.tos, top) /\ top \in 0 .. s.tos - 1
      BY <1>1 DEF InWindow
    <2>2. top >= SpilledCount(s.tos)
      BY <1>1, <2>1, LayoutIs
    <2> QED
      BY <1>1, <2>1, <2>2 DEF Layout, InRegs
  <1>4. /\ IsState(u) /\ FlagsOk(u) /\ AccOk(u, acc) /\ SameFrame(s, u)
        /\ u.kind # "Boolean"
        /\ (top >= WindowSize /\ u.kind = "Pending" => u.value # Reg(r))
        /\ \A q \in Registers : q # ACC => u.reg[q] = s.reg[q]
    <2>1. CASE top >= WindowSize
      BY <1>1, <1>2, <2>1, ResolveDoes
    <2>2. CASE ~ (top >= WindowSize)
      BY <1>1, <2>2 DEF SameFrame
    <2> QED
      BY <2>1, <2>2
  <1>5. ExtPop(s, JUMP) = t
    <2>1. ~ LivesIn(s, JUMP)
      <3>1. s.value \in Shapes
        BY <1>1 DEF IsState
      <3> QED
        BY <1>2, <3>1, ShapesAre DEF LivesIn, Reg
    <2>2. ResolveIfLiveIn(s, JUMP) = s
      BY <2>1 DEF ResolveIfLiveIn
    <2> QED
      BY <1>1, <1>2, <2>2 DEF ExtPop, MoveIfNeeded
  <1> HIDE DEF u
  <1>6. Layout(u, stack) /\ u.reg[r] = v /\ u.proc = s.proc /\ u.tos = s.tos
    BY <1>1, <1>2, <1>3, <1>4, LayoutKept, RegsAreRegisters DEF SameFrame
  <1>7. Raw(u, m, JUMP, v) /\ m.nz = u.nz
    BY <1>2, <1>4, <1>6, MovDoes
  <1> HIDE DEF m
  <1>8. InStep(u, stack, acc)
    BY <1>4, <1>6 DEF InStep
  <1>9. /\ InStep(m, stack, acc) /\ m.proc = u.proc /\ SameFrame(u, m) /\ SameAcc(u, m)
        /\ m.reg[JUMP] = v
    BY <1>7, <1>8, JumpWritten
  <1>10. /\ IsState(m) /\ Layout(m, stack) /\ m.tos = top + 1 /\ m.tos - 1 = top
         /\ m.proc.args < m.tos /\ m.proc = s.proc /\ AccOk(m, acc) /\ FlagsOk(m)
         /\ m.kind # "Boolean"
         /\ (top >= WindowSize /\ m.kind = "Pending" => m.value # Reg(r))
    BY <1>1, <1>4, <1>6, <1>9 DEF InStep, SameFrame, SameAcc
  <1>11. /\ Lowered(m, t, stack, top)
         /\ \A q \in Registers : q # r => t.reg[q] = m.reg[q]
         /\ top < WindowSize => t.reg = m.reg
    <2>1. /\ Lowered(m, t, stack, m.tos - 1)
          /\ \A q \in Registers : q # PhysReg(m.tos - 1) => t.reg[q] = m.reg[q]
          /\ m.tos - 1 < WindowSize => t.reg = m.reg
      BY <1>10, FinishPopDoes
    <2> QED
      BY <1>10, <2>1
  <1> HIDE DEF t
  <1>12. SameAcc(m, t) /\ t.proc = s.proc /\ t.reg[JUMP] = v
    BY <1>2, <1>9, <1>10, <1>11 DEF Lowered
  <1>13. AccOk(t, acc)
    <2>1. CASE top < WindowSize
      BY <1>10, <1>11, <1>12, <2>1 DEF AccOk, ValueOf, SameAcc
    <2>2. CASE ~ (top < WindowSize)
      <3>1. m.kind = "Pending" => m.value # Reg(r)
        BY <1>10, <2>2
      <3>2. \A q \in Homes : q # r => t.reg[q] = m.reg[q]
        BY <1>11, RegsAreRegisters
      <3> QED
        BY <1>2, <1>10, <1>12, <3>1, <3>2, AccUntouched
    <2> QED
      BY <2>1, <2>2
  <1>14. /\ SubSeq(stack, 1, top) \in Seq(Values) /\ Len(SubSeq(stack, 1, top)) = top
         /\ Front(stack) = SubSeq(stack, 1, top)
    <2>1. \A i \in 1 .. top : stack[i] \in Values
      BY ElementOfSeq
    <2> QED
      BY <2>1, SubSeqProperties DEF Front
  <1> QED
    BY <1>5, <1>10, <1>11, <1>12, <1>13, <1>14 DEF Keeps, InStep, Lowered, SameAcc


LEMMA ExtTakeKeeps ==
  ASSUME WindowSize \in Nat \ {0}, NEW s, NEW stack \in Seq(Values),
         NEW acc \in Values, InStep(s, stack, acc), NEW k \in 0 .. Len(stack) - 1
  PROVE  /\ Keeps(s, Opaque(ExtStore(AccInto(s, JUMP), k, JUMP)),
                  SetSlot(stack, k, acc), acc)
         /\ Len(SetSlot(stack, k, acc)) = Len(stack)
  <1> DEFINE t == Flush(s, ACC)
             u == AccInto(s, JUMP)
  <1>1. /\ IsState(s) /\ FlagsOk(s) /\ AccOk(s, acc) /\ Layout(s, stack)
        /\ ACC \in Homes /\ ACC \in Registers /\ JUMP \in Registers /\ JUMP # ACC
        /\ acc \in Accs
    BY RegsAreRegisters DEF InStep, Accs, JUMP, ACC
  <1>2. Flushed(s, t, ACC, acc)
    BY <1>1, FlushDoes
  <1>3. u = Mov(t, JUMP, ACC)
    BY <1>1 DEF AccInto, MoveIfNeeded
  <1> HIDE DEF t, u
  <1>4. /\ IsState(t) /\ SameFrame(s, t) /\ FlagsOk(t) /\ t.reg[ACC] = acc
        /\ t.kind = "Pending" /\ t.value = Reg(ACC)
        /\ \A q \in PhysRegs : t.reg[q] = s.reg[q]
    BY <1>2, RegsAreRegisters DEF Flushed
  <1>5. AccOk(t, acc)
    BY <1>4 DEF AccOk, ValueOf, Reg
  <1>6. InStep(t, stack, acc) /\ t.proc = s.proc
    BY <1>4, <1>5, StillInStep
  <1>7. Raw(t, u, JUMP, acc) /\ u.nz = t.nz
    BY <1>1, <1>3, <1>4, MovDoes
  <1>8. /\ InStep(u, stack, acc) /\ u.proc = t.proc /\ SameAcc(t, u)
        /\ u.reg[JUMP] = acc
    BY <1>6, <1>7, JumpWritten
  <1>9. u.kind # "Boolean"
    BY <1>4, <1>8 DEF SameAcc
  <1>10. /\ Keeps(u, Opaque(ExtStore(u, k, JUMP)), SetSlot(stack, k, acc), acc)
         /\ Len(SetSlot(stack, k, acc)) = Len(stack)
    BY <1>1, <1>8, <1>9, ExtStoreFromJump
  <1> QED
    BY <1>6, <1>8, <1>10 DEF Keeps, u

LEMMA ExtResultKeeps ==
  ASSUME WindowSize \in Nat \ {0}, NEW s, NEW stack \in Seq(Values), NEW acc,
         InStep(s, stack, acc), NEW v \in Values
  PROVE  Keeps(s, Opaque(Pending(LoadInto(s, ACC, v), Reg(ACC))), stack, v)
  <1> DEFINE t == LoadInto(s, ACC, v)
             u == Pending(t, Reg(ACC))
  <1>1. /\ IsState(s) /\ Layout(s, stack) /\ ACC \in Homes /\ ACC \in Registers
        /\ Reg(ACC) \in Shapes /\ v \in Words /\ v \in Accs
    BY RegsAreRegisters DEF InStep, Words, Accs, Shapes
  <1>2. Raw(s, t, ACC, v)
    BY <1>1, LoadDoes
  <1> HIDE DEF t
  <1>3. /\ IsState(t) /\ SameFrame(s, t) /\ t.reg[ACC] = v
        /\ \A q \in PhysRegs : t.reg[q] = s.reg[q]
    BY <1>2, RegsAreRegisters DEF Raw, Wrote
  <1>4. /\ IsState(u) /\ u.tos = t.tos /\ u.proc = t.proc /\ SameMachine(t, u)
        /\ u.kind = "Pending" /\ u.value = Reg(ACC)
    BY <1>1, <1>3, PendingDoes
  <1> HIDE DEF u
  <1>5. /\ SameFrame(s, u) /\ AccOk(u, v) /\ u.kind # "Boolean"
        /\ \A q \in PhysRegs : u.reg[q] = s.reg[q]
    BY <1>3, <1>4 DEF SameFrame, SameMachine, AccOk, ValueOf, Reg
  <1>6. Layout(u, stack)
    BY <1>1, <1>5, LayoutKept
  <1>7. Keeps(u, Opaque(u), stack, v)
    BY <1>1, <1>4, <1>5, <1>6, OpaqueKeeps
  <1> QED
    BY <1>5, <1>7 DEF Keeps, SameFrame, u, t

LEMMA ExtHelperKeeps ==
  ASSUME WindowSize \in Nat \ {0}, NEW s, NEW stack \in Seq(Values), NEW acc,
         InStep(s, stack, acc), s.proc.savesLR
  PROVE  Keeps(s, Opaque(Called(Poison(s), Junk)), stack, Junk)
  <1> DEFINE t == Poison(s)
             u == Called(t, Junk)
  <1>1. /\ InStep(t, stack, Junk) /\ t.proc = s.proc /\ t.kind = "Dead"
    BY PoisonKeeps DEF Keeps
  <1> HIDE DEF t
  <1>2. IsState(t) /\ Layout(t, stack) /\ t.proc.savesLR /\ Junk \in Words
    BY <1>1 DEF InStep, Words
  <1>3. /\ IsState(u) /\ u.proc = t.proc /\ SameAcc(t, u) /\ Layout(u, stack)
    BY <1>2, CalledDoes
  <1> HIDE DEF u
  <1>4. AccOk(u, Junk) /\ Junk \in Accs /\ u.kind # "Boolean"
    BY <1>1, <1>3, DeadAccIsOk DEF SameAcc
  <1>5. Keeps(u, Opaque(u), stack, Junk)
    BY <1>3, <1>4, OpaqueKeeps
  <1> QED
    BY <1>1, <1>3, <1>5 DEF Keeps, u, t

-----------------------------------------------------------------------------
(* Constructs. *)

LEMMA EdgeKeeps ==
  ASSUME WindowSize \in Nat \ {0}, NEW s, IsState(s), NEW stack \in Seq(Values),
         Layout(s, stack)
  PROVE  /\ Keeps(s, Edge(s), stack, Junk) /\ Edge(s).kind = "Dead"
         /\ Edge(s).flags.kind # "ZeroOf" /\ Edge(s).reg = s.reg
         /\ SameFrame(s, Edge(s))
  <1> DEFINE t == Poison(s)
             u == Apply(t, FlagsUnknown)
  <1>1. /\ IsState(t) /\ t.tos = s.tos /\ t.proc = s.proc /\ SameMachine(s, t)
        /\ t.kind = "Dead"
    BY PoisonDoes
  <1> HIDE DEF t
  <1>2. Marked(t, u) /\ FlagsOk(u)
    BY <1>1, UnknownDoes
  <1>3. u.flags.kind # "ZeroOf"
    BY <1>1 DEF Apply, FlagsUnknown, Unknown, IsState
  <1>4. u = Edge(s)
    BY DEF Edge, t
  <1> HIDE DEF u
  <1>5. /\ IsState(u) /\ SameFrame(s, u) /\ u.kind = "Dead" /\ u.reg = s.reg
    BY <1>1, <1>2 DEF Marked, SameFrame, SameMachine, SameAcc
  <1>6. Layout(u, stack)
    BY <1>5, LayoutKept
  <1>7. AccOk(u, Junk) /\ Junk \in Accs
    BY DeadAccIsOk
  <1> QED
    BY <1>2, <1>3, <1>4, <1>5, <1>6, <1>7 DEF Keeps, InStep, SameFrame

LEMMA MergeKeeps ==
  ASSUME WindowSize \in Nat \ {0}, NEW s, NEW stack \in Seq(Values), NEW acc \in Accs,
         InStep(s, stack, acc), s.kind # "Boolean",
         s.kind = "Pending" => s.value = Reg(ACC)
  PROVE  /\ Keeps(s, Merge(s), stack, acc) /\ Merge(s).kind # "Boolean"
         /\ Merge(s).flags.kind # "ZeroOf"
  <1> DEFINE e == Edge(s)
             t == Merge(s)
  <1>1. IsState(s) /\ Layout(s, stack) /\ ACC \in Homes /\ Reg(ACC) \in Shapes
    BY RegsAreRegisters DEF InStep, Shapes
  <1>2. /\ Keeps(s, e, stack, Junk) /\ e.flags.kind # "ZeroOf" /\ e.reg = s.reg
        /\ SameFrame(s, e)
    BY <1>1, EdgeKeeps
  <1>3. t = Pending(e, Reg(ACC))
    BY DEF Merge
  <1> HIDE DEF e, t
  <1>4. IsState(e) /\ FlagsOk(e) /\ Layout(e, stack)
    BY <1>2 DEF Keeps, InStep
  <1>5. /\ IsState(t) /\ t.tos = e.tos /\ t.proc = e.proc /\ SameMachine(e, t)
        /\ t.flags = e.flags /\ t.kind = "Pending" /\ t.value = Reg(ACC)
    BY <1>1, <1>3, <1>4, PendingDoes
  <1>6. AccOk(t, acc)
    BY <1>2, <1>5 DEF InStep, AccOk, ValueOf, Reg, SameMachine
  <1>7. /\ SameFrame(e, t) /\ FlagsOk(t) /\ t.flags.kind # "ZeroOf" /\ t.reg = e.reg
    BY <1>2, <1>5 DEF SameFrame, SameMachine, FlagsOk
  <1>8. Layout(t, stack)
    BY <1>4, <1>7, LayoutKept
  <1> QED
    BY <1>2, <1>5, <1>6, <1>7, <1>8 DEF Keeps, InStep, SameFrame, t

LEMMA JoinedKeeps ==
  ASSUME WindowSize \in Nat \ {0}, NEW s, NEW stack \in Seq(Values), NEW acc \in Accs,
         InStep(s, stack, acc), s.kind # "Boolean", s.flags.kind # "ZeroOf"
  PROVE  Keeps(s, Joined(s), stack, acc)
  <1> DEFINE t == Joined(s)
             regs == [s.reg EXCEPT ![SCRATCH] = Junk, ![JUMP] = Junk]
  <1>1. IsState(s) /\ Layout(s, stack) /\ AccOk(s, acc) /\ s.reg \in [Registers -> Words]
        /\ s.value \in Shapes
    BY DEF InStep, IsState
  <1>2. t = [s EXCEPT !.nz = NoFlags, !.reg = regs]
    BY <1>1 DEF Joined, IsState
  <1>3. /\ regs \in [Registers -> Words]
        /\ \A q \in Homes : regs[q] = s.reg[q]
    <2>1. Junk \in Words
      BY DEF Words
    <2> QED
      BY <1>1, <2>1, RegsAreRegisters
  <1> HIDE DEF t, regs
  <1>4. /\ SameFrame(s, t) /\ SameAcc(s, t) /\ t.flags = s.flags /\ t.reg = regs
    BY <1>1, <1>2 DEF IsState, SameFrame, SameAcc
  <1>5. IsState(t)
    BY <1>1, <1>2, <1>3, <1>4 DEF IsState, SameFrame, SameAcc
  <1>6. FlagsOk(t)
    BY <1>4 DEF FlagsOk
  <1>7. ValueOf(t, s.value) = ValueOf(s, s.value)
    BY <1>1, <1>3, <1>4, ShapesAre DEF ValueOf
  <1>8. AccOk(t, acc)
    BY <1>1, <1>4, <1>7 DEF AccOk, SameAcc
  <1>9. \A q \in PhysRegs : t.reg[q] = s.reg[q]
    BY <1>3, <1>4, RegsAreRegisters
  <1>10. Layout(t, stack)
    BY <1>1, <1>4, <1>9, LayoutKept
  <1> QED
    BY <1>4, <1>5, <1>6, <1>8, <1>10 DEF Keeps, InStep, SameFrame, t

(* A branch on acc, and the paths that leave it. *)
LEMMA BranchKeeps ==
  ASSUME WindowSize \in Nat \ {0}, NEW s, NEW stack \in Seq(Values),
         NEW acc \in Values, InStep(s, stack, acc)
  PROVE  /\ Keeps(s, Edge(TestNonzero(s)), stack, Junk)
         /\ Outcome(TestNonzero(s)) = IF acc = 0 THEN 0 ELSE 1
  <1> DEFINE t == TestNonzero(s)
  <1>1. IsState(s) /\ FlagsOk(s) /\ AccOk(s, acc) /\ Layout(s, stack)
    BY DEF InStep
  <1>2. /\ Outcome(t) = IF acc = 0 THEN 0 ELSE 1
        /\ IsState(t) /\ SameFrame(s, t) /\ \A q \in PhysRegs : t.reg[q] = s.reg[q]
    BY <1>1, TestDoes
  <1> HIDE DEF t
  <1>3. Layout(t, stack)
    BY <1>1, <1>2, LayoutKept
  <1>4. Keeps(t, Edge(t), stack, Junk)
    BY <1>2, <1>3, EdgeKeeps
  <1> QED
    BY <1>2, <1>4 DEF Keeps, SameFrame, t

LEMMA SwitchKeeps ==
  ASSUME WindowSize \in Nat \ {0}, NEW s, NEW stack \in Seq(Values),
         NEW acc \in Values, InStep(s, stack, acc), s.proc.savesLR
  PROVE  LET u == Flush(s, ACC)
             t == Apply(Alu(u, SCRATCH, 1), Into(SCRATCH, TRUE))
         IN  Keeps(s, Edge(Called(t, Junk)), stack, Junk) /\ t.reg[ACC] = acc
  <1> DEFINE u == Flush(s, ACC)
             t == Apply(Alu(u, SCRATCH, 1), Into(SCRATCH, TRUE))
             c == Called(t, Junk)
  <1>1. /\ IsState(s) /\ FlagsOk(s) /\ AccOk(s, acc) /\ Layout(s, stack)
        /\ ACC \in Homes /\ ACC \in Registers /\ SCRATCH \in Registers
        /\ SCRATCH \notin Homes /\ 1 \in Words /\ Junk \in Words
    BY RegsAreRegisters, EmittersConstants DEF InStep, Words
  <1>2. Flushed(s, u, ACC, acc)
    BY <1>1, FlushDoes
  <1> HIDE DEF u
  <1>3. IsState(u) /\ SameFrame(s, u) /\ u.reg[ACC] = acc
        /\ \A q \in PhysRegs : u.reg[q] = s.reg[q]
    BY <1>2, RegsAreRegisters DEF Flushed
  <1>4. Placed(u, t, SCRATCH, 1)
    BY <1>1, <1>3, AluPlaces
  <1> HIDE DEF t
  <1>5. /\ IsState(t) /\ SameFrame(u, t) /\ t.reg[ACC] = acc
        /\ \A q \in PhysRegs : t.reg[q] = u.reg[q]
    BY <1>1, <1>3, <1>4, RegsAreRegisters DEF Placed, Wrote
  <1>6. /\ SameFrame(s, t) /\ t.proc = s.proc /\ \A q \in PhysRegs : t.reg[q] = s.reg[q]
    BY <1>3, <1>5 DEF SameFrame
  <1>7. Layout(t, stack)
    BY <1>1, <1>6, LayoutKept
  <1>8. IsState(c) /\ c.proc = t.proc /\ Layout(c, stack)
    BY <1>1, <1>5, <1>6, <1>7, CalledDoes
  <1> HIDE DEF c
  <1>9. Keeps(c, Edge(c), stack, Junk)
    BY <1>8, EdgeKeeps
  <1> QED
    BY <1>5, <1>6, <1>8, <1>9 DEF Keeps, c, t, u


LEMMA EndKeeps ==
  ASSUME WindowSize \in Nat \ {0}, NEW s, NEW stack \in Seq(Values), NEW acc \in Accs,
         InStep(s, stack, acc), s.kind # "Boolean",
         NEW m \in Nat, s.proc.args <= m, m <= Len(stack)
  PROVE  LET t == Restore(FlushLive(s, ACC), m)
             rest == SubSeq(stack, 1, m)
         IN  /\ Keeps(s, Joined(Edge(t)), rest, Junk)
             /\ Keeps(s, Joined(Merge(t)), rest, acc)
             /\ Len(rest) = m
  <1> DEFINE t == Restore(FlushLive(s, ACC), m)
             rest == SubSeq(stack, 1, m)
             e == Edge(t)
             j == Merge(t)
  <1>1. /\ Keeps(s, t, rest, acc) /\ Len(rest) = m /\ t.kind = s.kind
        /\ (t.kind = "Pending" => t.value = Reg(ACC))
    BY RestoreKeeps
  <1> HIDE DEF t, rest
  <1>2. InStep(t, rest, acc) /\ rest \in Seq(Values) /\ t.proc = s.proc /\ IsState(t)
        /\ Layout(t, rest)
    BY <1>1 DEF Keeps, InStep
  <1>3. Keeps(t, e, rest, Junk) /\ e.kind = "Dead" /\ e.flags.kind # "ZeroOf"
    BY <1>2, EdgeKeeps
  <1>4. Keeps(t, j, rest, acc) /\ j.kind # "Boolean" /\ j.flags.kind # "ZeroOf"
    BY <1>1, <1>2, MergeKeeps
  <1> HIDE DEF e, j
  <1>5. InStep(e, rest, Junk) /\ InStep(j, rest, acc) /\ Junk \in Accs
        /\ e.proc = s.proc /\ j.proc = s.proc /\ e.kind # "Boolean"
    BY <1>2, <1>3, <1>4, DeadAccIsOk DEF Keeps
  <1>6. Keeps(e, Joined(e), rest, Junk)
    BY <1>2, <1>3, <1>5, JoinedKeeps
  <1>7. Keeps(j, Joined(j), rest, acc)
    BY <1>2, <1>4, <1>5, JoinedKeeps
  <1> QED
    BY <1>1, <1>5, <1>6, <1>7 DEF Keeps, e, j, t, rest

LEMMA LoopKeeps ==
  ASSUME WindowSize \in Nat \ {0}, NEW s, NEW stack \in Seq(Values), NEW acc \in Accs,
         InStep(s, stack, acc), s.kind # "Boolean"
  PROVE  LET t == Apply(FlushLive(s, ACC), FlagsUnknown)
         IN  /\ Keeps(s, Joined(Edge(t)), stack, Junk)
             /\ Keeps(s, Joined(Merge(t)), stack, acc)
  <1> DEFINE u == FlushLive(s, ACC)
             t == Apply(u, FlagsUnknown)
             e == Edge(t)
             j == Merge(t)
  <1>1. IsState(s) /\ FlagsOk(s) /\ AccOk(s, acc) /\ Layout(s, stack)
    BY DEF InStep
  <1>2. Settled(s, u, acc) /\ u.kind = s.kind
    BY <1>1, FlushLiveDoes
  <1> HIDE DEF u
  <1>3. IsState(u) /\ SameFrame(s, u) /\ AccOk(u, acc)
        /\ (u.kind = "Pending" => u.value = Reg(ACC))
        /\ \A q \in PhysRegs : u.reg[q] = s.reg[q]
    BY <1>2 DEF Settled
  <1>4. Layout(u, stack)
    BY <1>1, <1>3, LayoutKept
  <1>5. Keeps(u, Opaque(u), stack, acc)
    BY <1>2, <1>3, <1>4, OpaqueKeeps
  <1>6. t = Opaque(u) /\ Marked(u, t)
    BY <1>3, UnknownDoes DEF Opaque
  <1> HIDE DEF t
  <1>7. /\ InStep(t, stack, acc) /\ t.proc = s.proc /\ IsState(t) /\ Layout(t, stack)
        /\ t.kind # "Boolean" /\ (t.kind = "Pending" => t.value = Reg(ACC))
    BY <1>2, <1>3, <1>5, <1>6 DEF Keeps, InStep, Marked, SameAcc, SameFrame
  <1>8. Keeps(t, e, stack, Junk) /\ e.kind = "Dead" /\ e.flags.kind # "ZeroOf"
    BY <1>7, EdgeKeeps
  <1>9. Keeps(t, j, stack, acc) /\ j.kind # "Boolean" /\ j.flags.kind # "ZeroOf"
    BY <1>7, MergeKeeps
  <1> HIDE DEF e, j
  <1>10. InStep(e, stack, Junk) /\ InStep(j, stack, acc) /\ Junk \in Accs
         /\ e.proc = s.proc /\ j.proc = s.proc /\ e.kind # "Boolean"
    BY <1>7, <1>8, <1>9, DeadAccIsOk DEF Keeps
  <1>11. Keeps(e, Joined(e), stack, Junk)
    BY <1>8, <1>10, JoinedKeeps
  <1>12. Keeps(j, Joined(j), stack, acc)
    BY <1>9, <1>10, JoinedKeeps
  <1> QED
    BY <1>10, <1>11, <1>12 DEF Keeps, e, j, t, u

CondLeaves(s, stack, acc, m) ==
  LET t == IF s.tos = m THEN s ELSE Restore(FlushLive(s, ACC), m)
      rest == SubSeq(stack, 1, m)
  IN  /\ Keeps(s, Edge(TestNonzero(t)), rest, Junk)
      /\ Outcome(TestNonzero(t)) = IF acc = 0 THEN 0 ELSE 1
      /\ Len(rest) = m

LEMMA CondKeeps ==
  ASSUME WindowSize \in Nat \ {0}, NEW s, NEW stack \in Seq(Values),
         NEW acc \in Values, InStep(s, stack, acc),
         NEW m \in Nat, s.proc.args <= m, m <= Len(stack)
  PROVE  CondLeaves(s, stack, acc, m)
  <1> DEFINE t == IF s.tos = m THEN s ELSE Restore(FlushLive(s, ACC), m)
             rest == SubSeq(stack, 1, m)
  <1>1. InStep(t, rest, acc) /\ t.proc = s.proc /\ rest \in Seq(Values) /\ Len(rest) = m
    <2>1. CASE s.tos = m
      <3>1. m = Len(stack)
        BY <2>1 DEF InStep, Layout
      <3>2. rest = stack
        BY <3>1, SubSeqFull
      <3> QED
        BY <2>1, <3>1, <3>2
    <2>2. CASE s.tos # m
      <3>1. acc \in Accs
        BY DEF Accs
      <3>2. Keeps(s, Restore(FlushLive(s, ACC), m), rest, acc) /\ Len(rest) = m
        BY <3>1, RestoreKeeps
      <3> QED
        BY <2>2, <3>2 DEF Keeps
    <2> QED
      BY <2>1, <2>2
  <1> HIDE DEF t, rest
  <1>2. /\ Keeps(t, Edge(TestNonzero(t)), rest, Junk)
        /\ Outcome(TestNonzero(t)) = IF acc = 0 THEN 0 ELSE 1
    BY <1>1, BranchKeeps
  <1> QED
    BY <1>1, <1>2 DEF Keeps, CondLeaves, t, rest

LEMMA ReturnLeaves ==
  ASSUME WindowSize \in Nat \ {0}, NEW s, NEW stack \in Seq(Values), NEW acc \in Accs,
         InStep(s, stack, acc), s.kind # "Boolean"
  PROVE  LET t == Discard(FlushLive(s, ACC))
             n == Len(t.mem)
         IN  /\ (IF Live(acc) THEN t.reg[ACC] ELSE Junk) = acc
             /\ (IF t.proc.savesLR THEN MemAt(t, n) ELSE t.lr) = Record
             /\ (IF t.proc.savesLR
                 THEN SubSeq(t.mem, 1, n - 1 - InitialSpilled(t.proc))
                 ELSE t.mem) = << >>
  <1> DEFINE u == FlushLive(s, ACC)
             t == Discard(u)
             n == Len(t.mem)
  <1>1. IsState(s) /\ FlagsOk(s) /\ AccOk(s, acc) /\ Layout(s, stack)
    BY DEF InStep
  <1>2. Settled(s, u, acc) /\ u.kind = s.kind
    BY <1>1, FlushLiveDoes
  <1> HIDE DEF u
  <1>3. IsState(u) /\ SameFrame(s, u) /\ AccOk(u, acc)
        /\ (u.kind = "Pending" => u.value = Reg(ACC))
        /\ \A q \in PhysRegs : u.reg[q] = s.reg[q]
    BY <1>2 DEF Settled
  <1>4. Layout(u, stack)
    BY <1>1, <1>3, LayoutKept
  <1>5. /\ t.proc = u.proc /\ t.reg = u.reg
        /\ u.proc.savesLR => /\ MemAt(t, n) = Record
                             /\ SubSeq(t.mem, 1, n - 1 - InitialSpilled(u.proc)) = << >>
        /\ ~ u.proc.savesLR => t.lr = Record /\ t.mem = << >>
    BY <1>3, <1>4, DiscardDoes
  <1> HIDE DEF t, n
  <1>6. Live(acc) => u.reg[ACC] = acc
    <2>1. Live(acc) => acc \in Values
      BY DEF Accs, Live
    <2> QED
      BY <1>2, <1>3, <2>1 DEF AccOk, ValueOf, Reg
  <1>7. ~ Live(acc) => acc = Junk
    BY DEF Live
  <1> QED
    BY <1>5, <1>6, <1>7 DEF t, n, u


-----------------------------------------------------------------------------
(* The inductive invariant.  While the body runs, the translator, the machine
   and the bytecode machine are in step, and every open construct was entered
   above the arguments, at a depth the stack and the constructs inside it have
   never gone below: that is why a block's end can be reached by lowering. *)

Frames == [kind : {"then", "arm", "cond", "body", "returned"}, tos : Nat]

FramesOk(fs, args, depth) ==
  \A i \in 1 .. Len(fs) : /\ args <= fs[i].tos /\ fs[i].tos <= depth
                          /\ \A j \in i .. Len(fs) : fs[i].tos <= fs[j].tos

Sound ==
  /\ jit.proc.program \in Programs
  /\ vm \in [stack : Seq(Values), acc : Accs]
  /\ InStep(jit, vm.stack, vm.acc)
  /\ FramesOk(frames, Args, Depth)

IInv ==
  /\ WindowSize \in Nat \ {0} /\ frames \in Seq(Frames)
  /\ Running => Sound
  /\ BranchesAgree /\ ArgumentsArrive

(* What Layout, IsState and the rest say of the state after a step that leaves
   the size of the window alone is what they say of the new record. *)
LEMMA SameRegisters ==
  ASSUME WindowSize' = WindowSize
  PROVE  /\ PhysRegs' = PhysRegs /\ Homes' = Homes /\ Registers' = Registers
         /\ Shapes' = Shapes /\ FlagStates' = FlagStates
  <1>1. PhysRegs' = PhysRegs /\ Registers' = Registers
    BY DEF PhysRegs, Registers
  <1>2. Homes' = Homes
    BY <1>1 DEF Homes
  <1>3. Shapes' = Shapes
    BY <1>2 DEF Shapes
  <1>4. FlagStates' = FlagStates
    BY <1>1 DEF FlagStates
  <1> QED
    BY <1>1, <1>2, <1>3, <1>4

LEMMA StateIsPrimed ==
  ASSUME WindowSize' = WindowSize, IsState(jit')
  PROVE  IsState(jit)'
  BY SameRegisters DEF IsState, Words

LEMMA FlagsArePrimed ==
  ASSUME WindowSize' = WindowSize, FlagsOk(jit')
  PROVE  FlagsOk(jit)'
  BY SameRegisters DEF FlagsOk, Zero

LEMMA LayoutIsPrimed ==
  ASSUME WindowSize' = WindowSize, Layout(jit', vm'.stack)
  PROVE  Layout(jit, vm.stack)'
  <1>1. SpilledCount(jit.tos)' = SpilledCount(jit'.tos)
        /\ InitialSpilled(jit.proc)' = InitialSpilled(jit'.proc)
    BY DEF SpilledCount, InitialSpilled
  <1>2. InMem(jit, vm.stack, SpilledCount(jit.tos))'
    BY <1>1 DEF Layout, InMem, MemIndex, Saved
  <1>3. InRegs(jit, vm.stack, SpilledCount(jit.tos), jit.tos)'
    BY <1>1 DEF Layout, InRegs, PhysReg
  <1> QED
    BY <1>2, <1>3 DEF Layout

LEMMA InStepIsPrimed ==
  ASSUME WindowSize' = WindowSize, InStep(jit', vm'.stack, vm'.acc)
  PROVE  InStep(jit, vm.stack, vm.acc)'
  <1>1. AccOk(jit, vm.acc)'
    BY DEF InStep, AccOk
  <1> QED
    BY <1>1, StateIsPrimed, FlagsArePrimed, LayoutIsPrimed DEF InStep

(* What every step that goes right leaves. *)
StepKeeps ==
  /\ Keeps(jit, jit', vm'.stack, vm'.acc)
  /\ vm' \in [stack : Seq(Values), acc : Accs]

LEMMA StepGives ==
  ASSUME IInv, Running, WindowSize' = WindowSize, StepKeeps,
         frames' \in Seq(Frames), FramesOk(frames', Args, Len(vm'.stack)),
         BranchesAgree', ArgumentsArrive'
  PROVE  IInv'
  <1>1. InStep(jit, vm.stack, vm.acc)'
    BY InStepIsPrimed DEF StepKeeps, Keeps
  <1>2. jit'.proc = jit.proc /\ jit.proc.program \in Programs
    BY DEF IInv, Sound, StepKeeps, Keeps
  <1>3. FramesOk(frames, Args, Depth)'
    BY <1>2 DEF FramesOk, Args, Depth
  <1>4. Sound'
    BY <1>1, <1>2, <1>3 DEF Sound, StepKeeps, Accs
  <1> QED
    BY <1>4 DEF IInv


(* What the actions start from. *)
LEMMA BottomIs ==
  ASSUME IInv, Running
  PROVE  /\ Bottom \in Nat /\ jit.proc.args <= Bottom /\ Bottom <= Len(vm.stack)
         /\ \A i \in 1 .. Len(frames) : frames[i].tos <= Bottom
         /\ frames # << >> => Last(frames) \in Frames /\ Bottom = Last(frames).tos
  <1>1. jit.proc.args \in Nat /\ jit.tos = Len(vm.stack) /\ jit.proc.args <= jit.tos
    BY DEF IInv, Sound, InStep, IsState, Layout
  <1>2. frames \in Seq(Frames) /\ FramesOk(frames, jit.proc.args, Len(vm.stack))
    BY DEF IInv, Sound, Args, Depth
  <1>3. CASE frames = << >>
    BY <1>1, <1>3 DEF Bottom, Args
  <1>4. CASE frames # << >>
    <2>1. Len(frames) \in Nat \ {0} /\ Last(frames) = frames[Len(frames)]
      BY <1>2, <1>4, EmptySeq DEF Last
    <2>2. Last(frames) \in Frames /\ Bottom = Last(frames).tos
      BY <1>2, <1>4, <2>1, ElementOfSeq DEF Bottom
    <2>3. Bottom \in Nat
      BY <2>2 DEF Frames
    <2> QED
      BY <1>2, <2>1, <2>2, <2>3 DEF FramesOk
  <1> QED
    BY <1>3, <1>4

LEMMA SoundIs ==
  ASSUME IInv, Running
  PROVE  /\ WindowSize \in Nat \ {0} /\ Program \in Programs
         /\ vm = [stack |-> vm.stack, acc |-> vm.acc]
         /\ vm.stack \in Seq(Values) /\ Len(vm.stack) \in Nat /\ vm.acc \in Accs
         /\ InStep(jit, vm.stack, vm.acc) /\ jit.tos = Len(vm.stack)
         /\ \A k \in Slots : k \in 0 .. Len(vm.stack) - 1 /\ Slot(k) \in Values
         /\ Live(vm.acc) => vm.acc \in Values
         /\ FramesOk(frames, jit.proc.args, Len(vm.stack))
  <1>1. vm.stack \in Seq(Values) /\ vm.acc \in Accs /\ Sound
    BY DEF IInv, Sound
  <1>2. Len(vm.stack) \in Nat
    BY <1>1, LenProperties
  <1>3. ASSUME NEW k \in Slots
        PROVE  k \in 0 .. Len(vm.stack) - 1 /\ Slot(k) \in Values
    <2>1. k \in 0 .. Len(vm.stack) - 1 /\ k + 1 \in 1 .. Len(vm.stack)
      BY <1>2 DEF Slots, Depth
    <2> QED
      BY <1>1, <2>1, ElementOfSeq DEF Slot
  <1>4. Live(vm.acc) => vm.acc \in Values
    BY <1>1 DEF Accs, Live
  <1>5. vm = [stack |-> vm.stack, acc |-> vm.acc] /\ WindowSize \in Nat \ {0}
        /\ Program \in Programs
    BY DEF IInv, Sound, Program
  <1>6. InStep(jit, vm.stack, vm.acc) /\ jit.tos = Len(vm.stack)
    BY <1>1 DEF Sound, InStep, Layout
  <1>7. FramesOk(frames, jit.proc.args, Len(vm.stack))
    BY <1>1 DEF Sound, Args, Depth
  <1> QED
    BY <1>1, <1>2, <1>3, <1>4, <1>5, <1>6, <1>7

(* A step that opens and closes nothing may go down to Bottom. *)
LEMMA FramesStay ==
  ASSUME NEW fs, NEW args \in Nat, NEW old, NEW new \in Nat, NEW bottom \in Nat,
         fs \in Seq(Frames), FramesOk(fs, args, old),
         \A i \in 1 .. Len(fs) : fs[i].tos <= bottom, bottom <= new
  PROVE  FramesOk(fs, args, new)
  <1>1. \A i \in 1 .. Len(fs) : fs[i] \in Frames
    BY ElementOfSeq
  <1>2. \A i \in 1 .. Len(fs) : fs[i].tos \in Nat
    BY <1>1 DEF Frames
  <1> QED
    BY <1>2 DEF FramesOk

LEMMA StraightGives ==
  ASSUME IInv, Running, WindowSize' = WindowSize, StepKeeps,
         Bottom <= Len(vm'.stack), UNCHANGED frames,
         BranchesAgree', ArgumentsArrive'
  PROVE  IInv'
  <1>1. Len(vm'.stack) \in Nat
    BY LenProperties DEF StepKeeps, Keeps
  <1>2. jit.proc.args \in Nat
    BY DEF IInv, Sound, InStep, IsState
  <1>3. FramesOk(frames, Args, Len(vm'.stack))
    BY <1>1, <1>2, BottomIs, SoundIs, FramesStay DEF IInv, Args
  <1> QED
    BY <1>3, StepGives DEF IInv


LEMMA StraightDoes ==
  ASSUME IInv, Running, WindowSize' = WindowSize, Straight, NEW stack, NEW acc,
         Keeps(jit, jit', stack, acc), vm' = [stack |-> stack, acc |-> acc],
         Bottom <= Len(stack)
  PROVE  IInv'
  <1>1. StepKeeps /\ Len(vm'.stack) = Len(stack)
    BY DEF StepKeeps, Keeps
  <1>2. BranchesAgree' /\ ArgumentsArrive' /\ UNCHANGED frames
    BY DEF Straight, NotBranching, NotEntering, NoBranch, NoEntry, BranchesAgree,
           ArgumentsArrive
  <1> QED
    BY <1>1, <1>2, StraightGives

-----------------------------------------------------------------------------
(* One lemma per action. *)

LEMMA FoldsIs ==
  ASSUME NEW n
  PROVE  Folds(n) = FoldsOf(jit, n)
  BY DEF Folds

LEMMA ConstGives ==
  ASSUME IInv, WindowSize' = WindowSize, Const
  PROVE  IInv'
  <1>1. Ready /\ Straight /\ Running
    BY DEF Const, Ready
  <1>2. PICK v \in Values :
          \/ /\ jit' = Pending(jit, Imm(v))
             /\ vm' = [vm EXCEPT !.acc = v]
          \/ \E fold \in Folds(Depth), pooled \in BOOLEAN :
               LET r == FoldReg(fold)
               IN  /\ jit' = Pending(Apply(IF pooled THEN LoadInto(jit, r, v)
                                           ELSE Alu(jit, r, v),
                                           Into(r, ~ pooled)), Reg(r))
                   /\ vm' = [stack |-> Stored(vm.stack, fold, v), acc |-> v]
    BY DEF Const
  <1>3. CASE jit' = Pending(jit, Imm(v)) /\ vm' = [vm EXCEPT !.acc = v]
    <2>1. vm' = [stack |-> vm.stack, acc |-> v]
      BY <1>1, <1>3, SoundIs
    <2>2. Keeps(jit, jit', vm.stack, v)
      BY <1>1, <1>3, SoundIs, ConstWaits
    <2> QED
      BY <1>1, <2>1, <2>2, StraightDoes, BottomIs
  <1>4. ASSUME NEW fold \in Folds(Depth), NEW pooled \in BOOLEAN,
               LET r == FoldReg(fold)
               IN  /\ jit' = Pending(Apply(IF pooled THEN LoadInto(jit, r, v)
                                           ELSE Alu(jit, r, v),
                                           Into(r, ~ pooled)), Reg(r))
                   /\ vm' = [stack |-> Stored(vm.stack, fold, v), acc |-> v]
        PROVE  IInv'
    <2>1. fold \in FoldsOf(jit, Len(vm.stack))
      BY FoldsIs DEF Depth
    <2>2. Keeps(jit, jit', Stored(vm.stack, fold, v), v)
          /\ Len(Stored(vm.stack, fold, v)) = Len(vm.stack)
      BY <1>1, <1>4, <2>1, SoundIs, ConstLoads
    <2> QED
      BY <1>1, <1>4, <2>2, StraightDoes, BottomIs
  <1> QED
    BY <1>2, <1>3, <1>4

LEMMA LoadGives ==
  ASSUME IInv, WindowSize' = WindowSize, Load
  PROVE  IInv'
  <1>1. Ready /\ Straight /\ Running
    BY DEF Load, Ready
  <1>2. PICK k \in Slots :
          \/ /\ ~ InWindow(jit.tos, k)
             /\ jit' = Pending(Apply(LdrSp(jit, ACC, k), Into(ACC, FALSE)), Reg(ACC))
             /\ vm' = [vm EXCEPT !.acc = Slot(k)]
          \/ /\ InWindow(jit.tos, k)
             /\ \E fold \in Folds(Depth) :
                  /\ jit' = Flush(Pending(jit, Reg(PhysReg(k))),
                                  IF fold = -1 THEN PhysReg(k) ELSE PhysReg(fold))
                  /\ vm' = [stack |-> Stored(vm.stack, fold, Slot(k)),
                            acc |-> Slot(k)]
    BY DEF Load
  <1>3. k \in 0 .. Len(vm.stack) - 1 /\ Slot(k) = vm.stack[k + 1]
    BY <1>1, SoundIs DEF Slot
  <1>4. CASE /\ ~ InWindow(jit.tos, k)
             /\ jit' = Pending(Apply(LdrSp(jit, ACC, k), Into(ACC, FALSE)), Reg(ACC))
             /\ vm' = [vm EXCEPT !.acc = Slot(k)]
    <2>1. vm' = [stack |-> vm.stack, acc |-> Slot(k)]
      BY <1>1, <1>4, SoundIs
    <2>2. Keeps(jit, jit', vm.stack, Slot(k))
      BY <1>1, <1>3, <1>4, SoundIs, LoadSpilled
    <2> QED
      BY <1>1, <2>1, <2>2, StraightDoes, BottomIs
  <1>5. ASSUME InWindow(jit.tos, k), NEW fold \in Folds(Depth),
               jit' = Flush(Pending(jit, Reg(PhysReg(k))),
                            IF fold = -1 THEN PhysReg(k) ELSE PhysReg(fold)),
               vm' = [stack |-> Stored(vm.stack, fold, Slot(k)), acc |-> Slot(k)]
        PROVE  IInv'
    <2>1. fold \in FoldsOf(jit, Len(vm.stack))
      BY FoldsIs DEF Depth
    <2>2. Keeps(jit, jit', Stored(vm.stack, fold, Slot(k)), Slot(k))
          /\ Len(Stored(vm.stack, fold, Slot(k))) = Len(vm.stack)
      BY <1>1, <1>3, <1>5, <2>1, SoundIs, LoadHeld
    <2> QED
      BY <1>1, <1>5, <2>2, StraightDoes, BottomIs
  <1> QED
    BY <1>2, <1>4, <1>5

LEMMA StoreGives ==
  ASSUME IInv, WindowSize' = WindowSize, Store
  PROVE  IInv'
  <1>1. Ready /\ Straight /\ Running /\ jit.kind # "Boolean" /\ Live(vm.acc)
    BY DEF Store, Ready
  <1>2. PICK k \in Slots :
          /\ jit' = IF InWindow(jit.tos, k) THEN Flush(jit, PhysReg(k))
                    ELSE StrSp(AccSource(jit, SCRATCH),
                               SourceReg(jit.value, SCRATCH), k)
          /\ vm' = [vm EXCEPT !.stack = SetSlot(@, k, vm.acc)]
    BY DEF Store
  <1> DEFINE rest == SetSlot(vm.stack, k, vm.acc)
  <1>3. vm' = [stack |-> rest, acc |-> vm.acc] /\ vm.acc \in Values
        /\ k \in 0 .. Len(vm.stack) - 1
    BY <1>1, <1>2, SoundIs
  <1>4. Keeps(jit, jit', rest, vm.acc) /\ Len(rest) = Len(vm.stack)
    <2>1. CASE InWindow(jit.tos, k)
      BY <1>1, <1>2, <1>3, <2>1, SoundIs, StoreHeld
    <2>2. CASE ~ InWindow(jit.tos, k)
      BY <1>1, <1>2, <1>3, <2>2, SoundIs, StoreSpilled
    <2> QED
      BY <2>1, <2>2
  <1> HIDE DEF rest
  <1> QED
    BY <1>1, <1>3, <1>4, StraightDoes, BottomIs

LEMMA PushGives ==
  ASSUME IInv, WindowSize' = WindowSize, Push_
  PROVE  IInv'
  <1>1. Ready /\ Straight /\ Running /\ jit.kind # "Boolean" /\ Live(vm.acc)
    BY DEF Push_, Ready
  <1> DEFINE rest == Append(vm.stack, vm.acc)
  <1>2. vm' = [stack |-> rest, acc |-> vm.acc] /\ vm.acc \in Values
        /\ jit' = PushValue(jit)
    BY <1>1, SoundIs DEF Push_
  <1>3. rest \in Seq(Values) /\ Len(rest) = Len(vm.stack) + 1
    BY <1>1, <1>2, SoundIs, AppendProperties
  <1> HIDE DEF rest
  <1>4. Keeps(jit, jit', rest, vm.acc)
    BY <1>1, <1>2, <1>3, SoundIs, PushValueDoes DEF Keeps, rest
  <1>5. Bottom <= Len(rest)
    BY <1>1, <1>3, BottomIs, SoundIs
  <1> QED
    BY <1>1, <1>2, <1>4, <1>5, StraightDoes

LEMMA DropGives ==
  ASSUME IInv, WindowSize' = WindowSize, Drop
  PROVE  IInv'
  <1>1. Ready /\ Straight /\ Running
    BY DEF Drop, Ready
  <1>2. PICK n \in 1 .. Depth - Bottom :
          /\ jit' = Restore(FlushLive(jit, ACC), jit.tos - n)
          /\ vm' = [vm EXCEPT !.stack = SubSeq(@, 1, Depth - n)]
    BY DEF Drop
  <1> DEFINE m == Len(vm.stack) - n
             rest == SubSeq(vm.stack, 1, m)
  <1>3. vm' = [stack |-> rest, acc |-> vm.acc]
        /\ jit' = Restore(FlushLive(jit, ACC), m)
    BY <1>1, <1>2, SoundIs DEF Depth
  <1>4. m \in Nat /\ jit.proc.args <= m /\ m <= Len(vm.stack) /\ Bottom <= m
    <2>1. /\ Bottom \in Nat /\ jit.proc.args <= Bottom /\ jit.proc.args \in Nat
          /\ Len(vm.stack) \in Nat /\ n \in 1 .. Len(vm.stack) - Bottom
      BY <1>1, BottomIs, SoundIs DEF Depth, InStep, IsState
    <2> QED
      BY <2>1
  <1> HIDE DEF m
  <1>5. Keeps(jit, jit', rest, vm.acc) /\ Len(rest) = m
    BY <1>1, <1>3, <1>4, SoundIs, RestoreKeeps
  <1> QED
    BY <1>1, <1>3, <1>4, <1>5, StraightDoes


LEMMA ResultGives ==
  ASSUME IInv, Running, WindowSize' = WindowSize, Straight, NEW fold, NEW v,
         Keeps(jit, jit', Stored(vm.stack, fold, v), v),
         Len(Stored(vm.stack, fold, v)) = Len(vm.stack),
         vm' = [stack |-> Stored(vm.stack, fold, v), acc |-> v]
  PROVE  IInv'
  <1>1. Bottom <= Len(Stored(vm.stack, fold, v))
    BY BottomIs
  <1> QED
    BY <1>1, StraightDoes

LEMMA UnaryGives ==
  ASSUME IInv, WindowSize' = WindowSize, Unary
  PROVE  IInv'
  <1>1. Straight /\ Running /\ jit.kind # "Boolean" /\ vm.acc \in Values
    BY SoundIs DEF Unary, Ready
  <1>2. PICK fold \in Folds(Depth), sets \in BOOLEAN :
          LET dest == FoldReg(fold)
              t    == AccSource(jit, dest)
              v    == Compute("XOR", t.reg[SourceReg(jit.value, dest)], 1)
              r    == Compute("XOR", vm.acc, 1)
          IN  /\ jit' = Pending(Apply(IF sets THEN Alu(t, dest, v)
                                      ELSE LoadInto(t, dest, v),
                                      Into(dest, sets)), Reg(dest))
              /\ vm' = [stack |-> Stored(vm.stack, fold, r), acc |-> r]
    BY DEF Unary
  <1>3. fold \in FoldsOf(jit, Len(vm.stack))
    BY FoldsIs DEF Depth
  <1> DEFINE r == Compute("XOR", vm.acc, 1)
  <1>4. Keeps(jit, jit', Stored(vm.stack, fold, r), r)
        /\ Len(Stored(vm.stack, fold, r)) = Len(vm.stack)
    BY <1>1, <1>2, <1>3, SoundIs, UnaryKeeps
  <1>5. vm' = [stack |-> Stored(vm.stack, fold, r), acc |-> r]
    BY <1>2
  <1> HIDE DEF r
  <1> QED
    BY <1>1, <1>4, <1>5, ResultGives

LEMMA HelperOpGives ==
  ASSUME IInv, WindowSize' = WindowSize, HelperOp
  PROVE  IInv'
  <1>1. Straight /\ Running /\ jit.kind # "Boolean" /\ vm.acc \in Values
        /\ jit.proc.savesLR
    BY SoundIs DEF HelperOp, Ready
  <1>2. PICK fold \in Folds(Depth) :
          LET t    == Flush(jit, ACC)
              dest == FoldReg(fold)
              v    == Compute("XOR", t.reg[ACC], 1)
              r    == Compute("XOR", vm.acc, 1)
          IN  /\ jit' = Pending(Apply(Mov(Called(t, v), dest, ACC), FlagsUnknown),
                                Reg(dest))
              /\ vm' = [stack |-> Stored(vm.stack, fold, r), acc |-> r]
    BY DEF HelperOp
  <1>3. fold \in FoldsOf(jit, Len(vm.stack))
    BY FoldsIs DEF Depth
  <1> DEFINE r == Compute("XOR", vm.acc, 1)
  <1>4. Keeps(jit, jit', Stored(vm.stack, fold, r), r)
        /\ Len(Stored(vm.stack, fold, r)) = Len(vm.stack)
    BY <1>1, <1>2, <1>3, SoundIs, HelperKeeps
  <1>5. vm' = [stack |-> Stored(vm.stack, fold, r), acc |-> r]
    BY <1>2
  <1> HIDE DEF r
  <1> QED
    BY <1>1, <1>4, <1>5, ResultGives

LEMMA FetchedIs ==
  ASSUME NEW k
  PROVE  Fetched(k) = FetchedBy(jit, k) /\ FetchedReg(k) = FetchedIn(jit, k)
  BY DEF Fetched, FetchedReg, FetchedBy, FetchedIn

LEMMA WithSlotGives ==
  ASSUME IInv, WindowSize' = WindowSize, Ready, Straight, vm.acc \in Values,
         NEW op \in BinaryOps, NEW k \in Slots, NEW writesBack \in BOOLEAN,
         WithSlot(op, k, writesBack)
  PROVE  IInv'
  <1> DEFINE v == Compute(op, vm.acc, vm.stack[k + 1])
             Do(dest) == BinaryOp(FetchedBy(jit, k), op, jit.value,
                                  Reg(FetchedIn(jit, k)), dest, FALSE)
  <1>1. Running /\ jit.kind # "Boolean" /\ k \in 0 .. Len(vm.stack) - 1
        /\ Slot(k) = vm.stack[k + 1]
    BY SoundIs DEF Ready, Slot
  <1>0. WindowSize \in Nat \ {0} /\ vm.stack \in Seq(Values)
        /\ InStep(jit, vm.stack, vm.acc)
    BY <1>1, SoundIs
  <1>2. IF writesBack
        THEN /\ jit' = IF ~ InWindow(jit.tos, k) THEN StrSp(Poison(Do(SCRATCH)), SCRATCH, k)
                       ELSE Poison(Do(PhysReg(k)))
             /\ vm' = [stack |-> SetSlot(vm.stack, k, v), acc |-> Junk]
        ELSE \E fold \in Folds(Depth) :
             /\ jit' = Pending(Do(FoldReg(fold)), Reg(FoldReg(fold)))
             /\ vm' = [stack |-> Stored(vm.stack, fold, v), acc |-> v]
    BY <1>1, FetchedIs DEF WithSlot
  <1>3. CASE writesBack
    <2> DEFINE t == IF ~ InWindow(jit.tos, k) THEN StrSp(Poison(Do(SCRATCH)), SCRATCH, k)
                    ELSE Poison(Do(PhysReg(k)))
    <2>0. Keeps(jit, t, SetSlot(vm.stack, k, v), Junk)
          /\ Len(SetSlot(vm.stack, k, v)) = Len(vm.stack)
      BY <1>0, <1>1, WriteBackKeeps
    <2>1. Keeps(jit, jit', SetSlot(vm.stack, k, v), Junk)
          /\ Len(SetSlot(vm.stack, k, v)) = Len(vm.stack)
      BY <1>2, <1>3, <2>0
    <2>2. vm' = [stack |-> SetSlot(vm.stack, k, v), acc |-> Junk]
      BY <1>2, <1>3
    <2>3. Bottom <= Len(SetSlot(vm.stack, k, v))
      BY <1>1, <2>1, BottomIs
    <2> HIDE DEF v
    <2> QED
      BY <1>1, <2>1, <2>2, <2>3, StraightDoes
  <1>4. CASE ~ writesBack
    <2>1. PICK fold \in Folds(Depth) :
             /\ jit' = Pending(Do(FoldReg(fold)), Reg(FoldReg(fold)))
             /\ vm' = [stack |-> Stored(vm.stack, fold, v), acc |-> v]
      BY <1>2, <1>4
    <2>2. fold \in FoldsOf(jit, Len(vm.stack))
      BY FoldsIs DEF Depth
    <2> DEFINE t == Pending(Do(FoldReg(fold)), Reg(FoldReg(fold)))
    <2>0. Keeps(jit, t, Stored(vm.stack, fold, v), v)
          /\ Len(Stored(vm.stack, fold, v)) = Len(vm.stack)
      <3> DEFINE acc == vm.acc
                 stack == vm.stack
                 wide == FALSE
      <3>1. acc \in Values /\ stack \in Seq(Values) /\ InStep(jit, stack, acc)
            /\ k \in 0 .. Len(stack) - 1 /\ fold \in FoldsOf(jit, Len(stack))
            /\ wide \in BOOLEAN
        BY <1>0, <1>1, <2>2
      <3> HIDE DEF acc, stack, wide
      <3>2. LET r == FoldReg(fold)
                u == Pending(BinaryOp(FetchedBy(jit, k), op, jit.value,
                                      Reg(FetchedIn(jit, k)), r, wide), Reg(r))
                w == Compute(op, acc, stack[k + 1])
            IN  /\ Keeps(jit, u, Stored(stack, fold, w), w)
                /\ Len(Stored(stack, fold, w)) = Len(stack)
        BY <1>0, <1>1, <3>1, SlotOperandKeeps
      <3> QED
        BY <3>2 DEF acc, stack, wide
    <2>3. Keeps(jit, jit', Stored(vm.stack, fold, v), v)
          /\ Len(Stored(vm.stack, fold, v)) = Len(vm.stack)
      BY <2>1, <2>0
    <2>4. vm' = [stack |-> Stored(vm.stack, fold, v), acc |-> v]
      BY <2>1
    <2> HIDE DEF v
    <2> QED
      BY <1>1, <2>3, <2>4, ResultGives
  <1> QED
    BY <1>3, <1>4

(* A pop's operand is the top, which is above everything a block found. *)
LEMMA TopIs ==
  ASSUME IInv, Running, Depth > Bottom
  PROVE  /\ Top \in Nat /\ Len(vm.stack) = Top + 1 /\ jit.proc.args <= Top
         /\ Bottom <= Top /\ Slot(Top) = vm.stack[Top + 1] /\ Slot(Top) \in Values
         /\ Top \in Slots
  <1>1. Bottom \in Nat /\ jit.proc.args <= Bottom /\ Len(vm.stack) \in Nat
        /\ jit.proc.args \in Nat
    BY BottomIs, SoundIs DEF InStep, IsState
  <1>2. Top \in Nat /\ Len(vm.stack) = Top + 1 /\ jit.proc.args <= Top /\ Bottom <= Top
    BY <1>1 DEF Top, Depth
  <1>3. Top \in Slots
    BY <1>2 DEF Slots, Depth
  <1> QED
    BY <1>2, <1>3, SoundIs DEF Slot

LEMMA BinaryGives ==
  ASSUME IInv, WindowSize' = WindowSize, Binary
  PROVE  IInv'
  <1>1. Ready /\ Straight /\ Running /\ jit.kind # "Boolean" /\ vm.acc \in Values
    BY SoundIs DEF Binary, Ready
  <1>2. Program.arithmetic \subseteq BinaryOps
    BY <1>1, SoundIs, TranslatorConstants
  <1>3. PICK op \in Program.arithmetic :
       \/ \E k \in Slots, writesBack \in BOOLEAN : WithSlot(op, k, writesBack)
       \/ \E k \in Values, fold \in Folds(Depth), wide \in BOOLEAN :
            LET v == Compute(op, vm.acc, k)
            IN  /\ jit' = Pending(BinaryOp(jit, op, jit.value, Imm(k),
                                           FoldReg(fold), wide),
                                  Reg(FoldReg(fold)))
                /\ vm' = [stack |-> Stored(vm.stack, fold, v), acc |-> v]
       \/ /\ Depth > Bottom
          /\ \E fold \in Folds(Top) :
               LET v == Compute(op, vm.acc, Slot(Top))
                   r == FoldReg(fold)
                   t == BinaryOp(jit, op, jit.value, Reg(PhysReg(Top)), r, FALSE)
               IN  /\ jit' = FinishPop(Pending(t, Reg(r)))
                   /\ vm' = [stack |-> Stored(Front(vm.stack), fold, v),
                             acc |-> v]
    BY DEF Binary
  <1>4. op \in BinaryOps
    BY <1>2
  <1>5. CASE \E k \in Slots, writesBack \in BOOLEAN : WithSlot(op, k, writesBack)
    BY <1>1, <1>4, <1>5, WithSlotGives
  <1>6. ASSUME NEW k \in Values, NEW fold \in Folds(Depth), NEW wide \in BOOLEAN,
               LET v == Compute(op, vm.acc, k)
               IN  /\ jit' = Pending(BinaryOp(jit, op, jit.value, Imm(k),
                                              FoldReg(fold), wide),
                                     Reg(FoldReg(fold)))
                   /\ vm' = [stack |-> Stored(vm.stack, fold, v), acc |-> v]
        PROVE  IInv'
    <2> DEFINE v == Compute(op, vm.acc, k)
    <2>1. fold \in FoldsOf(jit, Len(vm.stack))
      BY FoldsIs DEF Depth
    <2>2. Keeps(jit, jit', Stored(vm.stack, fold, v), v)
          /\ Len(Stored(vm.stack, fold, v)) = Len(vm.stack)
      BY <1>1, <1>4, <1>6, <2>1, SoundIs, ImmediateKeeps
    <2>3. vm' = [stack |-> Stored(vm.stack, fold, v), acc |-> v]
      BY <1>6
    <2> HIDE DEF v
    <2> QED
      BY <1>1, <2>2, <2>3, ResultGives
  <1>7. ASSUME Depth > Bottom, NEW fold \in Folds(Top),
               LET v == Compute(op, vm.acc, Slot(Top))
                   r == FoldReg(fold)
                   t == BinaryOp(jit, op, jit.value, Reg(PhysReg(Top)), r, FALSE)
               IN  /\ jit' = FinishPop(Pending(t, Reg(r)))
                   /\ vm' = [stack |-> Stored(Front(vm.stack), fold, v), acc |-> v]
        PROVE  IInv'
    <2> DEFINE top == Top
               v == Compute(op, vm.acc, vm.stack[top + 1])
               rest == Stored(Front(vm.stack), fold, v)
    <2>1. /\ top \in Nat /\ Len(vm.stack) = top + 1 /\ jit.proc.args <= top
          /\ Bottom <= top /\ Slot(top) = vm.stack[top + 1]
      BY <1>1, <1>7, TopIs
    <2>2. fold \in FoldsOf(jit, top)
      BY FoldsIs
    <2>3. /\ jit' = FinishPop(Pending(BinaryOp(jit, op, jit.value, Reg(PhysReg(top)),
                                               FoldReg(fold), FALSE),
                                      Reg(FoldReg(fold))))
          /\ vm' = [stack |-> rest, acc |-> v]
      BY <1>7, <2>1
    <2> HIDE DEF top
    <2>0. WindowSize \in Nat \ {0} /\ vm.stack \in Seq(Values)
          /\ InStep(jit, vm.stack, vm.acc)
      BY <1>1, SoundIs
    <2> DEFINE t == FinishPop(Pending(BinaryOp(jit, op, jit.value, Reg(PhysReg(top)),
                                               FoldReg(fold), FALSE),
                                      Reg(FoldReg(fold))))
    <2>5. Keeps(jit, t, rest, v) /\ Len(rest) = top
      <3>1. PopLeaves(jit, vm.stack, vm.acc, op, top, fold, FALSE)
        BY <1>1, <1>4, <2>0, <2>1, <2>2, PopOperandKeeps
      <3> QED
        BY <3>1 DEF PopLeaves
    <2>4. Keeps(jit, jit', rest, v) /\ Len(rest) = top
      BY <2>3, <2>5
    <2> HIDE DEF v, rest
    <2> QED
      BY <1>1, <2>1, <2>3, <2>4, StraightDoes
  <1> QED
    BY <1>3, <1>5, <1>6, <1>7


(* What is left of a comparison: its outcome waiting in the flags, or made a
   value at once. *)
LEMMA OutcomeGives ==
  ASSUME IInv, Running, WindowSize' = WindowSize, Straight,
         NEW p, NEW rest, NEW v \in Values, Keeps(jit, p, rest, v),
         Bottom <= Len(rest),
         \/ jit' = p /\ vm' = [stack |-> rest, acc |-> v]
         \/ \E fold \in FoldsOf(p, Len(rest)) :
              /\ jit' = Flush(p, FoldReg(fold))
              /\ vm' = [stack |-> Stored(rest, fold, v), acc |-> v]
  PROVE  IInv'
  <1>1. CASE jit' = p /\ vm' = [stack |-> rest, acc |-> v]
    BY <1>1, StraightDoes
  <1>2. ASSUME NEW fold \in FoldsOf(p, Len(rest)),
               jit' = Flush(p, FoldReg(fold)),
               vm' = [stack |-> Stored(rest, fold, v), acc |-> v]
        PROVE  IInv'
    <2>1. fold \in FoldsOf(p, Len(rest))
      BY <1>2
    <2>2. /\ WindowSize \in Nat \ {0} /\ rest \in Seq(Values) /\ InStep(p, rest, v)
          /\ p.proc = jit.proc
      BY SoundIs DEF Keeps
    <2>3. /\ Keeps(p, Flush(p, FoldReg(fold)), Stored(rest, fold, v), v)
          /\ Len(Stored(rest, fold, v)) = Len(rest)
      BY <2>1, <2>2, OutcomeKept
    <2>4. Keeps(jit, jit', Stored(rest, fold, v), v)
      BY <1>2, <2>2, <2>3 DEF Keeps
    <2> QED
      BY <1>2, <2>3, <2>4, StraightDoes
  <1> QED
    BY <1>1, <1>2

LEMMA ComparedGives ==
  ASSUME IInv, Ready, WindowSize' = WindowSize, Straight, vm.acc \in Values,
         NEW cond \in {"EQ", "GT", "LT"}, NEW s, InStep(s, vm.stack, vm.acc),
         s.proc = jit.proc, s.value = jit.value, s.kind = jit.kind,
         NEW operand, IsOperand(operand), NEW y \in Values, ValueOf(s, operand) = y,
         NEW wide \in BOOLEAN,
         CompareWith(cond, s, jit.value, operand, wide, y, FALSE)
  PROVE  IInv'
  <1> DEFINE p == Compare(s, cond, jit.value, operand, wide)
             v == IF Truth(cond, vm.acc, y) THEN 1 ELSE 0
  <1>1. Running /\ s.kind # "Boolean" /\ WindowSize \in Nat \ {0}
        /\ vm.stack \in Seq(Values)
    BY SoundIs DEF Ready
  <1>2. \/ jit' = p /\ vm' = [stack |-> vm.stack, acc |-> v]
        \/ \E fold \in FoldsOf(p, Len(vm.stack)) :
             /\ jit' = Flush(p, FoldReg(fold))
             /\ vm' = [stack |-> Stored(vm.stack, fold, v), acc |-> v]
    BY DEF CompareWith
  <1>3. Keeps(s, p, vm.stack, v) /\ v \in Values
    BY <1>1, ComparedKeeps
  <1> HIDE DEF p, v
  <1>4. Keeps(jit, p, vm.stack, v)
    BY <1>3 DEF Keeps
  <1> QED
    BY <1>1, <1>2, <1>3, <1>4, OutcomeGives, BottomIs

LEMMA PopComparedGives ==
  ASSUME IInv, Ready, WindowSize' = WindowSize, Straight, vm.acc \in Values,
         NEW cond \in {"EQ", "GT", "LT"}, Depth > Bottom,
         CompareWith(cond, jit, jit.value, Reg(PhysReg(Top)), FALSE, Slot(Top), TRUE)
  PROVE  IInv'
  <1> DEFINE top == Top
             y == Slot(Top)
             operand == Reg(PhysReg(top))
             wide == FALSE
             t == Compare(jit, cond, jit.value, operand, wide)
             p == FinishPop(t)
             v == IF Truth(cond, vm.acc, y) THEN 1 ELSE 0
             rest == Front(vm.stack)
  <1>1. Running /\ jit.kind # "Boolean" /\ WindowSize \in Nat \ {0}
        /\ vm.stack \in Seq(Values) /\ InStep(jit, vm.stack, vm.acc)
        /\ jit.tos = Len(vm.stack)
    BY SoundIs DEF Ready
  <1>2. /\ top \in Nat /\ Len(vm.stack) = top + 1 /\ jit.proc.args <= top
        /\ Bottom <= top /\ y = vm.stack[top + 1] /\ y \in Values
    BY <1>1, TopIs
  <1>3. \/ jit' = p /\ vm' = [stack |-> rest, acc |-> v]
        \/ \E fold \in FoldsOf(p, Len(rest)) :
             /\ jit' = Flush(p, FoldReg(fold))
             /\ vm' = [stack |-> Stored(rest, fold, v), acc |-> v]
    BY DEF CompareWith
  <1>4. wide \in BOOLEAN
    OBVIOUS
  <1> HIDE DEF top, y, wide
  <1>5. IsOperand(operand) /\ ValueOf(jit, operand) = y
    <2>1. PhysReg(top) \in PhysRegs
      BY <1>1, <1>2, PhysRegIs
    <2>2. jit.reg[PhysReg(top)] = y
      <3>1. InWindow(jit.tos, top) /\ top \in 0 .. jit.tos - 1
        BY <1>1, <1>2 DEF InWindow
      <3>2. IsState(jit) /\ Layout(jit, vm.stack)
        BY <1>1 DEF InStep
      <3>3. top >= SpilledCount(jit.tos)
        BY <1>1, <3>1, <3>2, LayoutIs
      <3> QED
        BY <1>2, <3>1, <3>2, <3>3 DEF Layout, InRegs
    <2> QED
      BY <2>1, <2>2 DEF IsOperand, ValueOf, Reg
  <1> HIDE DEF operand
  <1>6. Keeps(jit, t, vm.stack, v) /\ t.kind = "Boolean" /\ v \in Values
    BY <1>1, <1>2, <1>4, <1>5, ComparedKeeps
  <1> HIDE DEF t, v
  <1>7. InStep(t, vm.stack, v) /\ t.proc = jit.proc
    BY <1>6 DEF Keeps
  <1>8. Keeps(t, p, rest, v) /\ Len(rest) = top
    BY <1>1, <1>2, <1>6, <1>7, BooleanPopped
  <1> HIDE DEF p, rest
  <1>9. Keeps(jit, p, rest, v)
    BY <1>7, <1>8 DEF Keeps
  <1> QED
    BY <1>1, <1>2, <1>3, <1>6, <1>8, <1>9, OutcomeGives

LEMMA ComparingGives ==
  ASSUME IInv, WindowSize' = WindowSize, Comparing
  PROVE  IInv'
  <1>1. Ready /\ Straight /\ Running /\ jit.kind # "Boolean" /\ vm.acc \in Values
    BY SoundIs DEF Comparing, Ready
  <1>2. Program.comparisons \subseteq {"EQ", "GT", "LT"}
    BY <1>1, SoundIs, TranslatorConstants
  <1>3. PICK cond \in Program.comparisons :
       \/ \E k \in Slots : CompareWith(cond, Fetched(k), jit.value,
                             Reg(FetchedReg(k)), FALSE, Slot(k), FALSE)
       \/ \E k \in Values, wide \in BOOLEAN :
            CompareWith(cond, jit, jit.value, Imm(k), wide, k, FALSE)
       \/ /\ Depth > Bottom
          /\ CompareWith(cond, jit, jit.value, Reg(PhysReg(Top)), FALSE,
                         Slot(Top), TRUE)
    BY DEF Comparing
  <1>4. cond \in {"EQ", "GT", "LT"}
    BY <1>2
  <1>5. WindowSize \in Nat \ {0} /\ vm.stack \in Seq(Values)
        /\ InStep(jit, vm.stack, vm.acc)
    BY <1>1, SoundIs
  <1>6. ASSUME NEW k \in Slots,
               CompareWith(cond, Fetched(k), jit.value, Reg(FetchedReg(k)), FALSE,
                           Slot(k), FALSE)
        PROVE  IInv'
    <2> DEFINE f == FetchedBy(jit, k)
               operand == Reg(FetchedIn(jit, k))
    <2>1. k \in 0 .. Len(vm.stack) - 1 /\ Slot(k) = vm.stack[k + 1]
      BY <1>1, SoundIs DEF Slot
    <2>2. /\ InStep(f, vm.stack, vm.acc) /\ f.proc = jit.proc
          /\ f.kind = jit.kind /\ f.value = jit.value
          /\ IsOperand(operand) /\ ValueOf(f, operand) = Slot(k) /\ Slot(k) \in Values
      BY <1>5, <2>1, FetchedDoes
    <2>3. CompareWith(cond, f, jit.value, operand, FALSE, Slot(k), FALSE)
      BY <1>6, FetchedIs
    <2> HIDE DEF f, operand
    <2> QED
      BY <1>1, <1>4, <2>2, <2>3, ComparedGives
  <1>7. ASSUME NEW k \in Values, NEW wide \in BOOLEAN,
               CompareWith(cond, jit, jit.value, Imm(k), wide, k, FALSE)
        PROVE  IInv'
    <2>1. IsOperand(Imm(k)) /\ ValueOf(jit, Imm(k)) = k
      BY DEF IsOperand, ValueOf, Imm
    <2> QED
      BY <1>1, <1>4, <1>5, <1>7, <2>1, ComparedGives
  <1>8. CASE /\ Depth > Bottom
             /\ CompareWith(cond, jit, jit.value, Reg(PhysReg(Top)), FALSE,
                            Slot(Top), TRUE)
    BY <1>1, <1>4, <1>8, PopComparedGives
  <1> QED
    BY <1>3, <1>6, <1>7, <1>8


LEMMA EmptyCallGives ==
  ASSUME IInv, WindowSize' = WindowSize, Ready, jit.proc.savesLR,
         UNCHANGED frames, NotBranching, NEW v \in Values, NEW s,
         s = SpillForCall(Poison(jit), 0),
         jit' = Pending(ReloadAfterCall(Apply(Returned(s, 0, v), FlagsUnknown),
                                        jit.tos - 0), Reg(ACC)),
         vm' = [stack |-> SubSeq(vm.stack, 1, Depth - 0), acc |-> v],
         entered' = [found |-> FoundBy(0, s), expected |-> << >>]
  PROVE  IInv'
  <1> DEFINE rest == SubSeq(vm.stack, 1, Len(vm.stack) - 0)
  <1>1. Running /\ WindowSize \in Nat \ {0} /\ vm.stack \in Seq(Values)
        /\ InStep(jit, vm.stack, vm.acc)
    BY SoundIs DEF Ready
  <1>2. /\ Keeps(jit, jit', rest, v) /\ Len(rest) = Len(vm.stack)
        /\ FoundBy(0, s) = << >>
    BY <1>1, EmptyCallKeeps
  <1>3. vm' = [stack |-> rest, acc |-> v]
    BY DEF Depth
  <1> HIDE DEF rest
  <1>4. StepKeeps /\ Bottom <= Len(vm'.stack)
    <2>1. Bottom <= Len(vm.stack)
      BY <1>1, BottomIs
    <2> QED
      BY ONLY <1>2, <1>3, <2>1 DEF StepKeeps, Keeps
  <1>5. BranchesAgree' /\ ArgumentsArrive'
    BY <1>2 DEF NotBranching, NoBranch, BranchesAgree, ArgumentsArrive
  <1> QED
    BY <1>1, <1>4, <1>5, StraightGives

LEMMA FullCallGives ==
  ASSUME IInv, WindowSize' = WindowSize, Ready, jit.proc.savesLR, vm.acc \in Values,
         UNCHANGED frames, NotBranching, NEW a \in Nat, NEW v \in Values, NEW s,
         Depth - a >= Bottom, s = CallOf(a + 1, Flush(jit, ACC)),
         jit' = Pending(ReloadAfterCall(Apply(Returned(s, a + 1, v), FlagsUnknown),
                                        jit.tos - a), Reg(ACC)),
         vm' = [stack |-> SubSeq(vm.stack, 1, Depth - a), acc |-> v],
         entered' = [found |-> FoundBy(a + 1, s),
                     expected |-> Append(SubSeq(vm.stack, Depth - a + 1, Depth),
                                         vm.acc)]
  PROVE  IInv'
  <1> DEFINE rest == SubSeq(vm.stack, 1, Len(vm.stack) - a)
  <1>1. Running /\ WindowSize \in Nat \ {0} /\ vm.stack \in Seq(Values)
        /\ InStep(jit, vm.stack, vm.acc) /\ jit.tos = Len(vm.stack)
    BY SoundIs DEF Ready
  <1>2. jit.proc.args + a <= Len(vm.stack) /\ Bottom <= Len(vm.stack) - a
    <2>1. /\ Bottom \in Nat /\ jit.proc.args <= Bottom /\ jit.proc.args \in Nat
          /\ Len(vm.stack) \in Nat /\ Len(vm.stack) - a >= Bottom
      BY <1>1, BottomIs, SoundIs DEF Depth, InStep, IsState
    <2> QED
      BY <2>1
  <1>3. /\ Keeps(jit, jit', rest, v) /\ Len(rest) = Len(vm.stack) - a
        /\ FoundBy(a + 1, s)
             = Append(SubSeq(vm.stack, (Len(vm.stack) - a) + 1, Len(vm.stack)), vm.acc)
    <2>1. CallLeaves(jit, vm.stack, vm.acc, a, v)
      BY <1>1, <1>2, CallKeeps
    <2> QED
      BY <2>1 DEF CallLeaves
  <1>4. vm' = [stack |-> rest, acc |-> v]
    BY DEF Depth
  <1> HIDE DEF rest
  <1>5. StepKeeps /\ Bottom <= Len(vm'.stack)
    BY ONLY <1>2, <1>3, <1>4 DEF StepKeeps, Keeps
  <1>6. BranchesAgree' /\ ArgumentsArrive'
    BY <1>3 DEF NotBranching, NoBranch, BranchesAgree, ArgumentsArrive, Depth
  <1> QED
    BY <1>1, <1>5, <1>6, StraightGives

LEMMA CallGives ==
  ASSUME IInv, WindowSize' = WindowSize, Call
  PROVE  IInv'
  <1>1. Ready /\ Running /\ jit.proc.savesLR /\ UNCHANGED frames /\ NotBranching
    BY DEF Call, Ready
  <1>2. Program.callees \subseteq Nat
    BY <1>1, SoundIs, TranslatorConstants
  <1>3. PICK n \in Program.callees, v \in Values :
       LET taken == IF n = 0 THEN 0 ELSE n - 1
           s == IF n = 0 THEN SpillForCall(Poison(jit), 0)
                ELSE CallOf(n, Flush(jit, ACC))
       IN  /\ n > 0 => Live(vm.acc)
           /\ Depth - taken >= Bottom
           /\ jit' = Pending(ReloadAfterCall(
                               Apply(Returned(s, n, v), FlagsUnknown),
                               jit.tos - taken), Reg(ACC))
           /\ vm' = [stack |-> SubSeq(vm.stack, 1, Depth - taken), acc |-> v]
           /\ entered' = [found |-> FoundBy(n, s),
                          expected |-> IF n = 0 THEN << >>
                            ELSE Append(SubSeq(vm.stack, Depth - taken + 1, Depth),
                                        vm.acc)]
    BY DEF Call
  <1>4. n \in Nat
    BY <1>2
  <1>5. CASE n = 0
    <2> DEFINE s == SpillForCall(Poison(jit), 0)
    <2>1. /\ jit' = Pending(ReloadAfterCall(Apply(Returned(s, 0, v), FlagsUnknown),
                                            jit.tos - 0), Reg(ACC))
          /\ vm' = [stack |-> SubSeq(vm.stack, 1, Depth - 0), acc |-> v]
          /\ entered' = [found |-> FoundBy(0, s), expected |-> << >>]
      BY <1>3, <1>5
    <2>2. s = SpillForCall(Poison(jit), 0)
      OBVIOUS
    <2> HIDE DEF s
    <2> QED
      BY <1>1, <2>1, <2>2, EmptyCallGives
  <1>6. CASE n # 0
    <2> DEFINE a == n - 1
               s == CallOf(a + 1, Flush(jit, ACC))
    <2>1. a \in Nat /\ n = a + 1 /\ n > 0
      BY <1>4, <1>6
    <2>2. vm.acc \in Values
      BY <1>1, <1>3, <2>1, SoundIs
    <2>3. s = CallOf(n, Flush(jit, ACC)) /\ s = CallOf(a + 1, Flush(jit, ACC))
      BY <2>1
    <2> HIDE DEF s
    <2>4. /\ Depth - a >= Bottom
          /\ jit' = Pending(ReloadAfterCall(Apply(Returned(s, n, v), FlagsUnknown),
                                            jit.tos - a), Reg(ACC))
          /\ vm' = [stack |-> SubSeq(vm.stack, 1, Depth - a), acc |-> v]
          /\ entered' = [found |-> FoundBy(n, s),
                         expected |-> Append(SubSeq(vm.stack, Depth - a + 1, Depth),
                                             vm.acc)]
      BY <1>3, <1>6, <2>3
    <2> HIDE DEF a
    <2> QED
      BY <1>1, <2>1, <2>2, <2>3, <2>4, FullCallGives
  <1> QED
    BY <1>5, <1>6

(* Extension instructions. *)
LEMMA ExtGives ==
  ASSUME IInv, WindowSize' = WindowSize, Ext
  PROVE  IInv'
  <1>1. Ready /\ Straight /\ Running /\ jit.kind # "Boolean"
    BY DEF Ext, Ready
  <1>2. /\ WindowSize \in Nat \ {0} /\ vm.stack \in Seq(Values) /\ vm.acc \in Accs
        /\ InStep(jit, vm.stack, vm.acc) /\ vm = [stack |-> vm.stack, acc |-> vm.acc]
        /\ Len(vm.stack) \in Nat
    BY <1>1, SoundIs
  <1>3. Bottom <= Len(vm.stack) /\ Bottom \in Nat
    BY <1>1, BottomIs
  <1>4. ASSUME NEW k \in Slots, NEW j \in Slots,
               LET t == IF InWindow(jit.tos, k) THEN jit ELSE LdrSp(jit, JUMP, k)
                   r == IF InWindow(jit.tos, k) THEN PhysReg(k) ELSE JUMP
               IN  /\ jit' = Opaque(ExtStore(t, j, r))
                   /\ vm' = [vm EXCEPT !.stack = SetSlot(@, j, Slot(k))]
        PROVE  IInv'
    <2> DEFINE rest == SetSlot(vm.stack, j, vm.stack[k + 1])
    <2>1. k \in 0 .. Len(vm.stack) - 1 /\ j \in 0 .. Len(vm.stack) - 1
          /\ Slot(k) = vm.stack[k + 1]
      BY <1>1, SoundIs DEF Slot
    <2>2. Keeps(jit, jit', rest, vm.acc) /\ Len(rest) = Len(vm.stack)
      BY <1>1, <1>2, <1>4, <2>1, ExtCopyKeeps
    <2>3. vm' = [stack |-> rest, acc |-> vm.acc]
      BY <1>2, <1>4, <2>1
    <2> HIDE DEF rest
    <2> QED
      BY <1>1, <1>3, <2>2, <2>3, StraightDoes
  <1>5. ASSUME NEW v \in Values,
               jit' = Opaque(ExtPush(LoadInto(jit, JUMP, v), JUMP)),
               vm' = [vm EXCEPT !.stack = Append(@, v)]
        PROVE  IInv'
    <2> DEFINE rest == Append(vm.stack, v)
    <2>1. Keeps(jit, jit', rest, vm.acc) /\ Len(rest) = Len(vm.stack) + 1
      BY <1>1, <1>2, <1>5, ExtConstPushKeeps
    <2>2. vm' = [stack |-> rest, acc |-> vm.acc]
      BY <1>2, <1>5
    <2> HIDE DEF rest
    <2>3. Bottom <= Len(rest)
      BY <1>2, <1>3, <2>1
    <2> QED
      BY <1>1, <2>1, <2>2, <2>3, StraightDoes
  <1>6. ASSUME NEW k \in 0 .. Top - 1, Depth > Bottom,
               jit' = Opaque(ExtStore(ExtPop(jit, JUMP), k, JUMP)),
               vm' = [vm EXCEPT !.stack = SetSlot(Front(@), k, Slot(Top))]
        PROVE  IInv'
    <2> DEFINE top == Top
               t == ExtPop(jit, JUMP)
               under == Front(vm.stack)
               v == vm.stack[top + 1]
               rest == SetSlot(under, k, v)
    <2>1. /\ top \in Nat /\ Len(vm.stack) = top + 1 /\ jit.proc.args <= top
          /\ Bottom <= top /\ Slot(top) = v /\ v \in Values
      BY <1>1, <1>6, TopIs
    <2>2. jit' = Opaque(ExtStore(t, k, JUMP)) /\ vm' = [stack |-> rest, acc |-> vm.acc]
      BY <1>2, <1>6, <2>1
    <2>3. k \in 0 .. top - 1
      OBVIOUS
    <2> HIDE DEF top
    <2>4. /\ Keeps(jit, t, under, vm.acc) /\ t.kind # "Boolean"
          /\ t.reg[JUMP] = v /\ Len(under) = top
      BY <1>1, <1>2, <2>1, ExtPopDoes
    <2> HIDE DEF t, under, v
    <2>5. InStep(t, under, vm.acc) /\ under \in Seq(Values) /\ t.proc = jit.proc
          /\ k \in 0 .. Len(under) - 1
      BY <2>3, <2>4 DEF Keeps
    <2>6. Keeps(t, jit', rest, vm.acc) /\ Len(rest) = Len(under)
      BY <1>2, <2>1, <2>2, <2>4, <2>5, ExtStoreFromJump
    <2> HIDE DEF rest
    <2>7. Keeps(jit, jit', rest, vm.acc) /\ Bottom <= Len(rest)
      BY <2>1, <2>4, <2>5, <2>6 DEF Keeps
    <2> QED
      BY <1>1, <2>2, <2>7, StraightDoes
  <1>7. ASSUME NEW k \in Slots, Live(vm.acc),
               jit' = Opaque(ExtStore(AccInto(jit, JUMP), k, JUMP)),
               vm' = [vm EXCEPT !.stack = SetSlot(@, k, vm.acc)]
        PROVE  IInv'
    <2> DEFINE rest == SetSlot(vm.stack, k, vm.acc)
    <2>1. k \in 0 .. Len(vm.stack) - 1 /\ vm.acc \in Values
      BY <1>1, <1>7, SoundIs
    <2>2. Keeps(jit, jit', rest, vm.acc) /\ Len(rest) = Len(vm.stack)
      BY <1>2, <1>7, <2>1, ExtTakeKeeps
    <2>3. vm' = [stack |-> rest, acc |-> vm.acc]
      BY <1>2, <1>7
    <2> HIDE DEF rest
    <2> QED
      BY <1>1, <1>3, <2>2, <2>3, StraightDoes
  <1>8. ASSUME NEW v \in Values,
               jit' = Opaque(Pending(LoadInto(jit, ACC, v), Reg(ACC))),
               vm' = [vm EXCEPT !.acc = v]
        PROVE  IInv'
    <2>1. Keeps(jit, jit', vm.stack, v)
      BY <1>2, <1>8, ExtResultKeeps
    <2>2. vm' = [stack |-> vm.stack, acc |-> v]
      BY <1>2, <1>8
    <2> QED
      BY <1>1, <1>3, <2>1, <2>2, StraightDoes
  <1>9. ASSUME jit.proc.savesLR, jit' = Opaque(Called(Poison(jit), Junk)),
               vm' = [vm EXCEPT !.acc = Junk]
        PROVE  IInv'
    <2>1. Keeps(jit, jit', vm.stack, Junk)
      BY <1>2, <1>9, ExtHelperKeeps
    <2>2. vm' = [stack |-> vm.stack, acc |-> Junk]
      BY <1>2, <1>9
    <2> QED
      BY <1>1, <1>3, <2>1, <2>2, StraightDoes
  <1> QED
    BY <1>4, <1>5, <1>6, <1>7, <1>8, <1>9 DEF Ext


(* Constructs opened, and closed. *)
LEMMA FramesPushed ==
  ASSUME NEW fs \in Seq(Frames), NEW args \in Nat, NEW depth \in Nat, NEW f \in Frames,
         FramesOk(fs, args, depth), args <= f.tos, f.tos <= depth,
         \A i \in 1 .. Len(fs) : fs[i].tos <= f.tos
  PROVE  Append(fs, f) \in Seq(Frames) /\ FramesOk(Append(fs, f), args, depth)
  <1> DEFINE gs == Append(fs, f)
  <1>1. /\ gs \in Seq(Frames) /\ Len(gs) = Len(fs) + 1 /\ gs[Len(fs) + 1] = f
        /\ \A i \in 1 .. Len(fs) : gs[i] = fs[i]
        /\ Len(fs) \in Nat
    BY AppendProperties, LenProperties
  <1>2. f.tos \in Nat
    BY DEF Frames
  <1> HIDE DEF gs
  <1>3. ASSUME NEW i \in 1 .. Len(gs)
        PROVE  /\ args <= gs[i].tos /\ gs[i].tos <= depth
               /\ \A j \in i .. Len(gs) : gs[i].tos <= gs[j].tos
    <2>1. CASE i = Len(fs) + 1
      BY <1>1, <1>2, <2>1
    <2>2. CASE i \in 1 .. Len(fs)
      <3>1. gs[i].tos = fs[i].tos /\ args <= fs[i].tos /\ fs[i].tos <= depth
            /\ fs[i].tos <= f.tos /\ \A j \in i .. Len(fs) : fs[i].tos <= fs[j].tos
        BY <1>1, <2>2 DEF FramesOk
      <3>2. ASSUME NEW j \in i .. Len(gs)
            PROVE  gs[i].tos <= gs[j].tos
        <4>1. j = Len(fs) + 1 \/ (j \in i .. Len(fs) /\ j \in 1 .. Len(fs))
          BY <1>1, <2>2
        <4> QED
          BY <1>1, <3>1, <4>1
      <3> QED
        BY <3>1, <3>2
    <2> QED
      BY <1>1, <2>1, <2>2
  <1> QED
    BY <1>1, <1>3 DEF FramesOk, gs

LEMMA FramesPopped ==
  ASSUME NEW fs \in Seq(Frames), fs # << >>, NEW args \in Nat, NEW depth \in Nat,
         FramesOk(fs, args, depth)
  PROVE  LET gs == Front(fs)
             f  == Last(fs)
         IN  /\ gs \in Seq(Frames) /\ f \in Frames /\ f.tos \in Nat
             /\ args <= f.tos /\ f.tos <= depth
             /\ FramesOk(gs, args, f.tos)
             /\ \A i \in 1 .. Len(gs) : gs[i].tos <= f.tos
  <1> DEFINE n == Len(fs)
             gs == Front(fs)
  <1>1. n \in Nat /\ n > 0 /\ Last(fs) = fs[n]
    BY EmptySeq, LenProperties DEF Last
  <1>2. gs \in Seq(Frames) /\ Len(gs) = n - 1 /\ \A i \in 1 .. n - 1 : gs[i] = fs[i]
    <2> DEFINE m == n - 1
    <2>1. 1 \in 1 .. Len(fs) + 1 /\ m \in 0 .. Len(fs) /\ gs = SubSeq(fs, 1, m)
      BY <1>1 DEF Front
    <2> HIDE DEF m, gs
    <2>2. SubSeq(fs, 1, m) \in Seq(Frames) /\ Len(SubSeq(fs, 1, m)) = m
          /\ \A i \in 1 .. m : SubSeq(fs, 1, m)[i] = fs[i]
      <3>1. 1 \in Int /\ m \in Int /\ \A i \in 1 .. m : fs[i] \in Frames
        BY <2>1, ElementOfSeq
      <3>2. \A i \in 1 .. m : 1 + i - 1 = i
        OBVIOUS
      <3> QED
        BY <2>1, <3>1, <3>2, SubSeqProperties
    <2> QED
      BY <2>1, <2>2 DEF m
  <1>3. fs[n] \in Frames
    BY <1>1, ElementOfSeq
  <1>4. fs[n].tos \in Nat
    BY <1>3 DEF Frames
  <1> HIDE DEF gs
  <1>5. /\ \A i \in 1 .. n : args <= fs[i].tos /\ fs[i].tos <= depth
        /\ \A i \in 1 .. n : \A j \in i .. n : fs[i].tos <= fs[j].tos
    BY DEF FramesOk
  <1>6. \A i \in 1 .. n : fs[i].tos <= fs[n].tos
    BY <1>1, <1>5
  <1> HIDE DEF n
  <1>7. FramesOk(gs, args, fs[n].tos)
    <2> DEFINE top == fs[n].tos
               m == Len(gs)
    <2>1. m = n - 1 /\ m \in Nat
      BY <1>1, <1>2
    <2> HIDE DEF m, top
    <2>2. ASSUME NEW i \in 1 .. m
          PROVE  gs[i] = fs[i] /\ args <= gs[i].tos /\ gs[i].tos <= top
      <3>1. i \in 1 .. n - 1 /\ i \in 1 .. n
        BY <1>1, <2>1
      <3> QED
        BY <1>2, <1>5, <1>6, <3>1 DEF top
    <2>3. ASSUME NEW i \in 1 .. m, NEW j \in i .. m
          PROVE  gs[i].tos <= gs[j].tos
      <3>1. i \in 1 .. n /\ j \in i .. n /\ j \in 1 .. m
        BY <1>1, <2>1
      <3>2. gs[i] = fs[i] /\ gs[j] = fs[j]
        BY <2>2, <3>1
      <3> QED
        BY <1>5, <3>1, <3>2
    <2> QED
      BY ONLY <2>2, <2>3 DEF FramesOk, m, top
  <1> QED
    BY <1>1, <1>2, <1>3, <1>4, <1>5, <1>6, <1>7 DEF gs, n

LEMMA ConstructGives ==
  ASSUME IInv, Running, WindowSize' = WindowSize, NEW stack, NEW acc,
         Keeps(jit, jit', stack, acc), vm' = [stack |-> stack, acc |-> acc],
         frames' \in Seq(Frames), FramesOk(frames', jit.proc.args, Len(stack)),
         BranchesAgree', ArgumentsArrive'
  PROVE  IInv'
  <1>1. StepKeeps /\ vm'.stack = stack
    BY DEF StepKeeps, Keeps
  <1> QED
    BY <1>1, StepGives DEF Args

(* One opened where the stack is. *)
LEMMA OpenedGives ==
  ASSUME IInv, Running, WindowSize' = WindowSize, NEW acc,
         Keeps(jit, jit', vm.stack, acc), vm' = [stack |-> vm.stack, acc |-> acc],
         NEW kind \in {"then", "arm", "cond", "body"}, Push1(kind, Depth),
         BranchesAgree', ArgumentsArrive'
  PROVE  IInv'
  <1> DEFINE f == [kind |-> kind, tos |-> Len(vm.stack)]
  <1>1. /\ frames \in Seq(Frames) /\ Len(vm.stack) \in Nat /\ jit.proc.args \in Nat
        /\ FramesOk(frames, jit.proc.args, Len(vm.stack))
    BY SoundIs DEF IInv, InStep, IsState
  <1>2. f \in Frames /\ f.tos = Len(vm.stack)
    BY <1>1 DEF Frames
  <1>3. frames' = Append(frames, f)
    BY DEF Push1, Depth
  <1> HIDE DEF f
  <1>4. jit.proc.args <= f.tos /\ \A i \in 1 .. Len(frames) : frames[i].tos <= f.tos
    <2>1. jit.proc.args <= Len(vm.stack)
      BY <1>1, BottomIs
    <2> QED
      BY <1>1, <1>2, <2>1 DEF FramesOk
  <1>5. Append(frames, f) \in Seq(Frames)
        /\ FramesOk(Append(frames, f), jit.proc.args, Len(vm.stack))
    BY <1>1, <1>2, <1>4, FramesPushed
  <1> QED
    BY <1>3, <1>5, ConstructGives

LEMMA OpenIfGives ==
  ASSUME IInv, WindowSize' = WindowSize, OpenIf
  PROVE  IInv'
  <1>1. Running /\ vm.acc \in Values
    BY SoundIs DEF OpenIf
  <1>2. /\ WindowSize \in Nat \ {0} /\ vm.stack \in Seq(Values)
        /\ InStep(jit, vm.stack, vm.acc) /\ vm = [stack |-> vm.stack, acc |-> vm.acc]
    BY <1>1, SoundIs
  <1>3. /\ jit' = Edge(TestNonzero(jit)) /\ vm' = [stack |-> vm.stack, acc |-> Junk]
    BY <1>2 DEF OpenIf, Dead
  <1>4. Keeps(jit, jit', vm.stack, Junk)
        /\ Outcome(TestNonzero(jit)) = IF vm.acc = 0 THEN 0 ELSE 1
    BY <1>1, <1>2, <1>3, BranchKeeps
  <1>5. BranchesAgree' /\ ArgumentsArrive'
    <2>1. branch' = [did |-> Outcome(TestNonzero(jit)), should |-> Taken]
          /\ entered' = NoEntry
      BY DEF OpenIf, Tests, NotEntering
    <2> QED
      BY <1>4, <2>1 DEF Taken, NoEntry, BranchesAgree, ArgumentsArrive
  <1>6. CASE Push1("then", Depth)
    BY <1>1, <1>3, <1>4, <1>5, <1>6, OpenedGives
  <1>7. CASE UNCHANGED frames
    <2>1. Bottom <= Len(vm'.stack) /\ StepKeeps
      BY <1>1, <1>3, <1>4, BottomIs DEF StepKeeps, Keeps
    <2> QED
      BY <1>1, <1>5, <1>7, <2>1, StraightGives
  <1>8. CASE Push1("arm", Depth)
    BY <1>1, <1>3, <1>4, <1>5, <1>8, OpenedGives
  <1> QED
    BY <1>6, <1>7, <1>8 DEF OpenIf

LEMMA SkipIfGives ==
  ASSUME IInv, WindowSize' = WindowSize, SkipIf
  PROVE  IInv'
  <1>1. Running
    BY DEF SkipIf
  <1>2. /\ WindowSize \in Nat \ {0} /\ vm.stack \in Seq(Values)
        /\ InStep(jit, vm.stack, vm.acc) /\ vm = [stack |-> vm.stack, acc |-> vm.acc]
    BY <1>1, SoundIs
  <1>3. jit' = Edge(jit) /\ vm' = [stack |-> vm.stack, acc |-> Junk]
    BY <1>2 DEF SkipIf, Dead
  <1>4. IsState(jit) /\ Layout(jit, vm.stack)
    BY <1>2 DEF InStep
  <1>5. Keeps(jit, jit', vm.stack, Junk)
    BY <1>2, <1>3, <1>4, EdgeKeeps
  <1>6. BranchesAgree' /\ ArgumentsArrive' /\ UNCHANGED frames
    BY DEF SkipIf, NotBranching, NotEntering, NoBranch, NoEntry, BranchesAgree,
           ArgumentsArrive
  <1>7. Bottom <= Len(vm'.stack) /\ StepKeeps
    BY <1>1, <1>3, <1>5, BottomIs DEF StepKeeps, Keeps
  <1> QED
    BY <1>1, <1>6, <1>7, StraightGives

LEMMA OpenSwitchGives ==
  ASSUME IInv, WindowSize' = WindowSize, OpenSwitch
  PROVE  IInv'
  <1>1. Running /\ vm.acc \in Values /\ jit.proc.savesLR
    BY SoundIs DEF OpenSwitch, Ready
  <1>2. /\ WindowSize \in Nat \ {0} /\ vm.stack \in Seq(Values)
        /\ InStep(jit, vm.stack, vm.acc) /\ vm = [stack |-> vm.stack, acc |-> vm.acc]
    BY <1>1, SoundIs
  <1> DEFINE s == Flush(jit, ACC)
             t == Apply(Alu(s, SCRATCH, 1), Into(SCRATCH, TRUE))
  <1>3. /\ jit' = Edge(Called(t, Junk)) /\ vm' = [stack |-> vm.stack, acc |-> Junk]
        /\ branch' = [did |-> t.reg[ACC], should |-> vm.acc] /\ entered' = NoEntry
        /\ Push1("arm", Depth)
    BY <1>2 DEF OpenSwitch, Dead, Tests, NotEntering
  <1>4. Keeps(jit, Edge(Called(t, Junk)), vm.stack, Junk) /\ t.reg[ACC] = vm.acc
    BY <1>1, <1>2, SwitchKeeps
  <1> HIDE DEF t
  <1>5. BranchesAgree' /\ ArgumentsArrive'
    BY <1>3, <1>4 DEF NoEntry, BranchesAgree, ArgumentsArrive
  <1> QED
    BY <1>1, <1>3, <1>4, <1>5, OpenedGives

(* What the last construct says of where its blocks may end. *)
LEMMA LastIs ==
  ASSUME IInv, Running, frames # << >>
  PROVE  /\ Last(frames) \in Frames /\ Last(frames).tos \in Nat
         /\ jit.proc.args <= Last(frames).tos /\ Last(frames).tos <= Len(vm.stack)
         /\ Front(frames) \in Seq(Frames)
         /\ FramesOk(Front(frames), jit.proc.args, Last(frames).tos)
         /\ \A i \in 1 .. Len(Front(frames)) : Front(frames)[i].tos <= Last(frames).tos
         /\ WindowSize \in Nat \ {0} /\ vm.stack \in Seq(Values) /\ vm.acc \in Accs
         /\ InStep(jit, vm.stack, vm.acc) /\ vm = [stack |-> vm.stack, acc |-> vm.acc]
         /\ jit.proc.args \in Nat
  <1>1. /\ frames \in Seq(Frames) /\ Len(vm.stack) \in Nat /\ jit.proc.args \in Nat
        /\ FramesOk(frames, jit.proc.args, Len(vm.stack))
    BY SoundIs DEF IInv, InStep, IsState
  <1> QED
    BY <1>1, FramesPopped, SoundIs

LEMMA CloseArmGives ==
  ASSUME IInv, WindowSize' = WindowSize, CloseArm
  PROVE  IInv'
  <1> DEFINE m == Last(frames).tos
             s == Restore(FlushLive(jit, ACC), m)
             rest == SubSeq(vm.stack, 1, m)
             dead == Last(frames).kind = "then"
             acc == IF dead THEN Junk ELSE vm.acc
  <1>1. Running /\ jit.kind # "Boolean" /\ frames # << >>
    BY DEF CloseArm, Ready
  <1>2. /\ jit' = Joined(IF dead THEN Edge(s) ELSE Merge(s))
        /\ vm' = [stack |-> rest, acc |-> acc] /\ frames' = Front(frames)
        /\ BranchesAgree' /\ ArgumentsArrive'
    BY DEF CloseArm, NotBranching, NotEntering, NoBranch, NoEntry, BranchesAgree,
           ArgumentsArrive
  <1>3. /\ m \in Nat /\ jit.proc.args <= m /\ m <= Len(vm.stack)
        /\ WindowSize \in Nat \ {0} /\ vm.stack \in Seq(Values) /\ vm.acc \in Accs
        /\ InStep(jit, vm.stack, vm.acc) /\ Front(frames) \in Seq(Frames)
        /\ FramesOk(Front(frames), jit.proc.args, m)
    BY <1>1, LastIs
  <1> HIDE DEF m
  <1>4. /\ Keeps(jit, Joined(Edge(s)), rest, Junk)
        /\ Keeps(jit, Joined(Merge(s)), rest, vm.acc)
        /\ Len(rest) = m
    BY <1>1, <1>3, EndKeeps
  <1> HIDE DEF s, rest
  <1>5. Keeps(jit, jit', rest, acc)
    BY <1>2, <1>4
  <1> HIDE DEF acc, dead
  <1> QED
    BY <1>1, <1>2, <1>3, <1>4, <1>5, ConstructGives

LEMMA OpenLoopGives ==
  ASSUME IInv, WindowSize' = WindowSize, OpenLoop
  PROVE  IInv'
  <1> DEFINE s == Apply(FlushLive(jit, ACC), FlagsUnknown)
  <1>1. Running /\ jit.kind # "Boolean"
    BY DEF OpenLoop, Ready
  <1>2. /\ WindowSize \in Nat \ {0} /\ vm.stack \in Seq(Values) /\ vm.acc \in Accs
        /\ InStep(jit, vm.stack, vm.acc) /\ vm = [stack |-> vm.stack, acc |-> vm.acc]
    BY <1>1, SoundIs
  <1>3. BranchesAgree' /\ ArgumentsArrive'
    BY DEF OpenLoop, NotBranching, NotEntering, NoBranch, NoEntry, BranchesAgree,
           ArgumentsArrive
  <1>4. \/ jit' = Joined(Merge(s)) /\ vm' = vm /\ Push1("cond", Depth)
        \/ jit' = Joined(Edge(s)) /\ vm' = [stack |-> vm.stack, acc |-> Junk]
           /\ Push1("body", Depth)
    BY <1>2 DEF OpenLoop, Dead
  <1>5. Keeps(jit, Joined(Edge(s)), vm.stack, Junk)
        /\ Keeps(jit, Joined(Merge(s)), vm.stack, vm.acc)
    BY <1>1, <1>2, LoopKeeps
  <1> HIDE DEF s
  <1>6. CASE jit' = Joined(Merge(s)) /\ vm' = vm /\ Push1("cond", Depth)
    <2>1. Keeps(jit, jit', vm.stack, vm.acc) /\ vm' = [stack |-> vm.stack, acc |-> vm.acc]
      BY <1>2, <1>5, <1>6
    <2> QED
      BY <1>1, <1>3, <1>6, <2>1, OpenedGives
  <1>7. CASE jit' = Joined(Edge(s)) /\ vm' = [stack |-> vm.stack, acc |-> Junk]
             /\ Push1("body", Depth)
    <2>1. Keeps(jit, jit', vm.stack, Junk)
      BY <1>5, <1>7
    <2> QED
      BY <1>1, <1>3, <1>7, <2>1, OpenedGives
  <1> QED
    BY <1>4, <1>6, <1>7


(* A loop's condition after its body, and its body after its condition. *)
LEMMA ReopenedGives ==
  ASSUME IInv, Running, frames # << >>, WindowSize' = WindowSize, NEW stack, NEW acc,
         Keeps(jit, jit', stack, acc), vm' = [stack |-> stack, acc |-> acc],
         Len(stack) = Last(frames).tos, NEW kind \in {"cond", "body"},
         frames' = Append(Front(frames), [Last(frames) EXCEPT !.kind = kind]),
         BranchesAgree', ArgumentsArrive'
  PROVE  IInv'
  <1> DEFINE g == [Last(frames) EXCEPT !.kind = kind]
             gs == Front(frames)
  <1>1. /\ Last(frames) \in Frames /\ Last(frames).tos \in Nat
        /\ jit.proc.args <= Last(frames).tos /\ jit.proc.args \in Nat
        /\ gs \in Seq(Frames) /\ FramesOk(gs, jit.proc.args, Last(frames).tos)
        /\ \A i \in 1 .. Len(gs) : gs[i].tos <= Last(frames).tos
    BY LastIs
  <1>2. g \in Frames /\ g.tos = Last(frames).tos
    BY <1>1 DEF Frames
  <1> HIDE DEF g, gs
  <1>3. Append(gs, g) \in Seq(Frames) /\ FramesOk(Append(gs, g), jit.proc.args, Len(stack))
    BY <1>1, <1>2, FramesPushed
  <1>4. frames' = Append(gs, g)
    BY DEF g, gs
  <1> QED
    BY <1>3, <1>4, ConstructGives

LEMMA CloseBodyGives ==
  ASSUME IInv, WindowSize' = WindowSize, CloseBody
  PROVE  IInv'
  <1> DEFINE m == Last(frames).tos
             s == Restore(FlushLive(jit, ACC), m)
             rest == SubSeq(vm.stack, 1, m)
  <1>1. Running /\ jit.kind # "Boolean" /\ frames # << >>
    BY DEF CloseBody, Ready
  <1>2. /\ m \in Nat /\ jit.proc.args <= m /\ m <= Len(vm.stack)
        /\ WindowSize \in Nat \ {0} /\ vm.stack \in Seq(Values) /\ vm.acc \in Accs
        /\ InStep(jit, vm.stack, vm.acc) /\ vm = [stack |-> vm.stack, acc |-> vm.acc]
    BY <1>1, LastIs
  <1>3. /\ jit' = Joined(Merge(s)) /\ vm' = [stack |-> rest, acc |-> vm.acc]
        /\ frames' = Append(Front(frames), [Last(frames) EXCEPT !.kind = "cond"])
    BY <1>2 DEF CloseBody
  <1>4. BranchesAgree' /\ ArgumentsArrive'
    BY DEF CloseBody, NotBranching, NotEntering, NoBranch, NoEntry, BranchesAgree,
           ArgumentsArrive
  <1>5. Last(frames).tos = m
    OBVIOUS
  <1> HIDE DEF m
  <1>6. Keeps(jit, Joined(Merge(s)), rest, vm.acc) /\ Len(rest) = m
    BY <1>1, <1>2, EndKeeps
  <1> HIDE DEF s, rest
  <1>7. Keeps(jit, jit', rest, vm.acc) /\ Len(rest) = Last(frames).tos
    BY <1>3, <1>5, <1>6
  <1> QED
    BY <1>1, <1>3, <1>4, <1>7, ReopenedGives

LEMMA CloseCondGives ==
  ASSUME IInv, WindowSize' = WindowSize, CloseCond
  PROVE  IInv'
  <1> DEFINE m == Last(frames).tos
             s == IF jit.tos = m THEN jit ELSE Restore(FlushLive(jit, ACC), m)
             rest == SubSeq(vm.stack, 1, m)
  <1>1. Running /\ frames # << >> /\ vm.acc \in Values
    BY SoundIs DEF CloseCond
  <1>2. /\ m \in Nat /\ jit.proc.args <= m /\ m <= Len(vm.stack)
        /\ WindowSize \in Nat \ {0} /\ vm.stack \in Seq(Values)
        /\ InStep(jit, vm.stack, vm.acc) /\ Front(frames) \in Seq(Frames)
        /\ FramesOk(Front(frames), jit.proc.args, m)
    BY <1>1, LastIs
  <1>3. /\ jit' = Edge(TestNonzero(s)) /\ vm' = [stack |-> rest, acc |-> Junk]
        /\ branch' = [did |-> Outcome(TestNonzero(s)), should |-> Taken]
        /\ entered' = NoEntry
        /\ frames' = IF vm.acc # 0
                     THEN Append(Front(frames), [Last(frames) EXCEPT !.kind = "body"])
                     ELSE Front(frames)
    BY DEF CloseCond, Tests, NotEntering
  <1>4. Last(frames).tos = m
    OBVIOUS
  <1> HIDE DEF m
  <1>5. /\ Keeps(jit, Edge(TestNonzero(s)), rest, Junk)
        /\ Outcome(TestNonzero(s)) = IF vm.acc = 0 THEN 0 ELSE 1
        /\ Len(rest) = m
    <2>1. CondLeaves(jit, vm.stack, vm.acc, m)
      BY <1>1, <1>2, CondKeeps
    <2> QED
      BY <2>1 DEF CondLeaves
  <1> HIDE DEF s, rest
  <1>6. Keeps(jit, jit', rest, Junk) /\ Len(rest) = Last(frames).tos
    BY <1>3, <1>4, <1>5
  <1>7. BranchesAgree' /\ ArgumentsArrive'
    BY <1>3, <1>5 DEF Taken, NoEntry, BranchesAgree, ArgumentsArrive
  <1>8. CASE vm.acc # 0
    BY <1>1, <1>3, <1>6, <1>7, <1>8, ReopenedGives
  <1>9. CASE vm.acc = 0
    BY <1>1, <1>2, <1>3, <1>5, <1>6, <1>7, <1>9, ConstructGives
  <1> QED
    BY <1>8, <1>9

(* Nothing is asked of the state once the body has returned. *)
LEMMA ReturnGives ==
  ASSUME IInv, WindowSize' = WindowSize, Return
  PROVE  IInv'
  <1> DEFINE s == Discard(FlushLive(jit, ACC))
             n == Len(s.mem)
             record == IF s.proc.savesLR THEN MemAt(s, n) ELSE s.lr
             left == IF s.proc.savesLR
                     THEN SubSeq(s.mem, 1, n - 1 - InitialSpilled(s.proc))
                     ELSE s.mem
             value == IF Live(vm.acc) THEN s.reg[ACC] ELSE Junk
             f == [kind |-> "returned", tos |-> 0]
  <1>1. Running /\ jit.kind # "Boolean"
    BY DEF Return, Ready
  <1>2. /\ entered' = [found |-> << value, record, left >>,
                       expected |-> << vm.acc, Record, << >> >>]
        /\ frames' = Append(frames, f) /\ branch' = NoBranch
    BY DEF Return, NotBranching
  <1>3. /\ WindowSize \in Nat \ {0} /\ vm.stack \in Seq(Values) /\ vm.acc \in Accs
        /\ InStep(jit, vm.stack, vm.acc) /\ frames \in Seq(Frames)
    BY <1>1, SoundIs DEF IInv
  <1>4. value = vm.acc /\ record = Record /\ left = << >>
    BY <1>1, <1>3, ReturnLeaves
  <1> HIDE DEF value, record, left
  <1>5. BranchesAgree' /\ ArgumentsArrive'
    BY <1>2, <1>4 DEF NoBranch, BranchesAgree, ArgumentsArrive
  <1>6. f \in Frames /\ f.kind = "returned"
    BY DEF Frames
  <1> HIDE DEF f
  <1>7. /\ Append(frames, f) \in Seq(Frames) /\ Append(frames, f) # << >>
        /\ Last(Append(frames, f)) = f
    <2>1. /\ Append(frames, f) \in Seq(Frames)
          /\ Len(Append(frames, f)) = Len(frames) + 1
          /\ Append(frames, f)[Len(frames) + 1] = f /\ Len(frames) \in Nat
      BY <1>3, <1>6, AppendProperties, LenProperties
    <2> QED
      BY <2>1, EmptySeq DEF Last
  <1>8. ~ Running'
    BY <1>2, <1>6, <1>7 DEF Running, Last
  <1> QED
    BY <1>2, <1>3, <1>5, <1>7, <1>8 DEF IInv


-----------------------------------------------------------------------------
(* The state a body starts in. *)

LEMMA WindowLaidOut ==
  ASSUME WindowSize \in Nat \ {0}, NEW args \in Seq(Values), NEW k \in Nat,
         k >= SpilledCount(Len(args)), k <= Len(args) - 2
  PROVE  BuildEntryArgs(args).window[PhysReg(k) - WINDOW_BASE] = args[k + 1]
  <1> DEFINE n == Len(args)
             floor == SpilledCount(n)
             placed == floor .. n - 2
             At(i) == { j \in placed : PhysReg(j) - WINDOW_BASE = i }
             window == [i \in 0 .. WindowSize - 1 |->
                          IF At(i) = {} THEN Junk
                          ELSE args[(CHOOSE j \in At(i) : TRUE) + 1]]
             d == PhysReg(k) - WINDOW_BASE
  <1>1. BuildEntryArgs(args).window = window
    BY DEF BuildEntryArgs, SpilledCount
  <1>2. n \in Nat /\ floor \in Nat /\ n <= floor + WindowSize
    <2>1. n \in Nat
      BY LenProperties
    <2> QED
      BY <2>1, SpilledCountIs
  <1>3. d \in 0 .. WindowSize - 1
    BY PhysRegIs
  <1>4. k \in placed /\ k \in At(d)
    BY <1>2
  <1>5. ASSUME NEW j \in At(d) PROVE j = k
    <2>1. SUFFICES ASSUME j # k PROVE FALSE
      OBVIOUS
    <2>2. /\ j \in floor .. floor + WindowSize - 1 /\ k \in floor .. floor + WindowSize - 1
          /\ j \in Nat
      BY <1>2, <1>4
    <2>3. PhysReg(j) \in Nat /\ PhysReg(k) \in Nat
          /\ PhysReg(j) - WINDOW_BASE = PhysReg(k) - WINDOW_BASE
      BY <1>5, <2>2, PhysRegIs
    <2>4. PhysReg(j) # PhysReg(k)
      BY <1>2, <2>1, <2>2, PhysRegsApart
    <2> QED
      BY <2>3, <2>4 DEF WINDOW_BASE
  <1> HIDE DEF d
  <1>6. window[d] = IF At(d) = {} THEN Junk ELSE args[(CHOOSE j \in At(d) : TRUE) + 1]
    BY <1>3
  <1> HIDE DEF At, window
  <1>7. (CHOOSE j \in At(d) : TRUE) \in At(d)
    BY <1>4
  <1>8. window[d] = args[k + 1]
    BY <1>4, <1>5, <1>6, <1>7
  <1> QED
    BY <1>1, <1>8 DEF d

LEMMA EntryDoes ==
  ASSUME WindowSize \in Nat \ {0}, NEW args \in Seq(Values)
  PROVE  LET m == EnterDispatch(BuildEntryArgs(args))
             n == Len(args)
         IN  /\ m.mem = SubSeq(args, 1, SpilledCount(n)) /\ m.lr = Record
             /\ m.reg \in [Registers -> Words]
             /\ m.reg[ACC] = IF n = 0 THEN Junk ELSE args[n]
             /\ \A k \in SpilledCount(n) .. n - 2 : m.reg[PhysReg(k)] = args[k + 1]
  <1> DEFINE ea == BuildEntryArgs(args)
             m == EnterDispatch(ea)
             n == Len(args)
             floor == SpilledCount(n)
             placed == floor .. n - 2
             At(i) == { k \in placed : PhysReg(k) - WINDOW_BASE = i }
             window == [i \in 0 .. WindowSize - 1 |->
                          IF At(i) = {} THEN Junk
                          ELSE args[(CHOOSE k \in At(i) : TRUE) + 1]]
             acc == IF n = 0 THEN Junk ELSE args[n]
  <1>1. ea.spilled = SubSeq(args, 1, floor) /\ ea.acc = acc /\ ea.window = window
    BY DEF BuildEntryArgs, SpilledCount
  <1>2. n \in Nat /\ floor \in Nat /\ \A i \in 1 .. n : args[i] \in Words
    <2>1. n \in Nat
      BY LenProperties
    <2>2. \A i \in 1 .. n : args[i] \in Values
      BY ElementOfSeq
    <2> QED
      BY <2>1, <2>2, SpilledCountIs DEF Words
  <1>3. acc \in Words
    BY <1>2 DEF Words
  <1>4. ASSUME NEW i \in 0 .. WindowSize - 1 PROVE window[i] \in Words
    <2>1. window[i] = IF At(i) = {} THEN Junk ELSE args[(CHOOSE k \in At(i) : TRUE) + 1]
      OBVIOUS
    <2>2. At(i) \subseteq placed
      OBVIOUS
    <2> HIDE DEF At, window
    <2>3. CASE At(i) = {}
      BY <2>1, <2>3 DEF Words
    <2>4. CASE At(i) # {}
      <3>1. (CHOOSE k \in At(i) : TRUE) \in placed
        BY <2>2, <2>4
      <3>2. (CHOOSE k \in At(i) : TRUE) + 1 \in 1 .. n
        BY <1>2, <3>1
      <3> QED
        BY <1>2, <2>1, <2>4, <3>2
    <2> QED
      BY <2>3, <2>4
  <1> HIDE DEF window
  <1>5. /\ m.mem = ea.spilled /\ m.lr = Record
        /\ m.reg = [r \in Registers |->
                      IF r = ACC THEN ea.acc
                      ELSE IF r >= WINDOW_BASE THEN ea.window[r - WINDOW_BASE]
                      ELSE Junk]
    BY DEF EnterDispatch
  <1>6. ASSUME NEW r \in Registers
        PROVE  (IF r = ACC THEN ea.acc
                ELSE IF r >= WINDOW_BASE THEN ea.window[r - WINDOW_BASE]
                ELSE Junk) \in Words
    <2>1. r \notin {ACC, 1, SCRATCH, JUMP} => r - WINDOW_BASE \in 0 .. WindowSize - 1
      BY DEF Registers, WINDOW_BASE
    <2>2. r \in {1, SCRATCH, JUMP} => ~ r >= WINDOW_BASE
      BY DEF SCRATCH, JUMP, WINDOW_BASE
    <2>3. Junk \in Words
      BY DEF Words
    <2> HIDE DEF ea
    <2> QED
      BY <1>1, <1>3, <1>4, <2>1, <2>2, <2>3
  <1>7. ACC \in Registers /\ PhysRegs \subseteq Registers
    BY RegsAreRegisters
  <1> HIDE DEF m, ea
  <1>8. m.reg \in [Registers -> Words] /\ m.reg[ACC] = acc
    BY <1>1, <1>5, <1>6, <1>7
  <1>9. ASSUME NEW k \in placed PROVE m.reg[PhysReg(k)] = args[k + 1]
    <2>1. k \in Nat /\ k >= floor /\ k <= n - 2
      BY <1>2
    <2>2. /\ PhysReg(k) \in Registers /\ PhysReg(k) # ACC /\ PhysReg(k) >= WINDOW_BASE
      <3>1. PhysReg(k) \in PhysRegs
        BY <2>1, PhysRegIs
      <3> QED
        BY <1>7, <3>1 DEF PhysRegs, WINDOW_BASE, ACC
    <2>3. ea.window[PhysReg(k) - WINDOW_BASE] = args[k + 1]
      BY <2>1, WindowLaidOut DEF ea
    <2> QED
      BY <1>5, <2>2, <2>3
  <1> QED
    BY <1>1, <1>5, <1>8, <1>9 DEF m, ea


LEMMA PrologueDoes ==
  ASSUME WindowSize \in Nat \ {0}, NEW program, NEW args \in Seq(Values),
         NEW savesLR \in BOOLEAN
  PROVE  LET n == Len(args)
             t == Prologue(program, n, EnterDispatch(BuildEntryArgs(args)), savesLR)
             acc == IF n > 0 THEN args[n] ELSE Junk
         IN  InStep(t, args, acc) /\ t.proc.program = program /\ acc \in Accs
  <1> DEFINE n == Len(args)
             floor == SpilledCount(n)
             m == EnterDispatch(BuildEntryArgs(args))
             acc == IF n > 0 THEN args[n] ELSE Junk
             mem == IF savesLR THEN Append(m.mem, m.lr) ELSE m.mem
             proc == [args |-> n, savesLR |-> savesLR, program |-> program]
             s == [tos |-> n, proc |-> proc,
                   kind |-> "Pending", value |-> Reg(ACC), flags |-> Unknown,
                   reg |-> m.reg, lr |-> m.lr, nz |-> m.nz, mem |-> mem]
             t == IF n > 0 THEN Flush(s, PhysReg(n - 1)) ELSE s
  <1>1. t = Prologue(program, n, m, savesLR)
    BY DEF Prologue
  <1>2. /\ m.mem = SubSeq(args, 1, floor) /\ m.lr = Record
        /\ m.reg \in [Registers -> Words]
        /\ m.reg[ACC] = IF n = 0 THEN Junk ELSE args[n]
        /\ \A k \in floor .. n - 2 : m.reg[PhysReg(k)] = args[k + 1]
    BY EntryDoes
  <1> HIDE DEF m
  <1>3. /\ n \in Nat /\ floor \in Nat /\ floor <= n /\ n <= floor + WindowSize
        /\ n = 0 => floor = 0
    <2>1. n \in Nat
      BY LenProperties
    <2> QED
      BY <2>1, SpilledCountIs
  <1>4. n > 0 => args[n] \in Values
    <2>1. n > 0 => n \in 1 .. Len(args)
      BY <1>3
    <2> QED
      BY <2>1, ElementOfSeq
  <1>5. acc \in Accs
    BY <1>4 DEF Accs
  <1>6. /\ m.mem \in Seq(Words) /\ Len(m.mem) = floor
        /\ \A i \in 1 .. floor : m.mem[i] = args[i]
    <2>1. 1 \in Int /\ floor \in Int /\ \A i \in 1 .. floor : args[i] \in Words
      <3>1. \A i \in 1 .. n : args[i] \in Values
        BY ElementOfSeq
      <3> QED
        BY <1>3, <3>1 DEF Words
    <2>2. \A i \in 1 .. floor : i \in 1 .. floor - 1 + 1 /\ 1 + i - 1 = i
      BY <1>3
    <2>3. floor - 1 + 1 = floor /\ (IF 1 <= floor THEN floor - 1 + 1 ELSE 0) = floor
      BY <1>3
    <2> HIDE DEF floor
    <2>4. /\ SubSeq(args, 1, floor) \in Seq(Words)
          /\ Len(SubSeq(args, 1, floor)) = IF 1 <= floor THEN floor - 1 + 1 ELSE 0
          /\ \A i \in 1 .. floor - 1 + 1 : SubSeq(args, 1, floor)[i] = args[1 + i - 1]
      BY <2>1, SubSeqProperties
    <2> QED
      BY <1>2, <2>2, <2>3, <2>4
  <1>7. /\ mem \in Seq(Words) /\ Len(mem) = floor + (IF savesLR THEN 1 ELSE 0)
        /\ \A i \in 1 .. floor : mem[i] = args[i]
        /\ savesLR => mem[floor + 1] = Record
    <2>1. CASE savesLR
      <3>1. Record \in Words /\ mem = Append(m.mem, Record)
        BY <1>2, <2>1 DEF Words
      <3> HIDE DEF mem
      <3>2. /\ mem \in Seq(Words) /\ Len(mem) = Len(m.mem) + 1
            /\ \A i \in 1 .. Len(m.mem) : mem[i] = m.mem[i]
            /\ mem[Len(m.mem) + 1] = Record
        BY <1>6, <3>1, AppendProperties
      <3> QED
        BY <1>6, <2>1, <3>2
    <2>2. CASE ~ savesLR
      BY <1>3, <1>6, <2>2
    <2> QED
      BY <2>1, <2>2
  <1> HIDE DEF mem
  <1>8. /\ s.tos = n /\ s.proc = proc /\ s.kind = "Pending" /\ s.value = Reg(ACC)
        /\ s.flags = Unknown /\ s.reg = m.reg /\ s.lr = Record /\ s.mem = mem
        /\ s = [tos |-> s.tos, proc |-> s.proc, kind |-> s.kind, value |-> s.value,
                flags |-> s.flags, reg |-> s.reg, lr |-> s.lr, nz |-> s.nz,
                mem |-> s.mem]
    BY <1>2
  <1>9. proc.args = n /\ proc.savesLR = savesLR /\ proc.program = program
    OBVIOUS
  <1> HIDE DEF s, proc
  <1>10. IsState(s) /\ FlagsOk(s)
    <2>1. Reg(ACC) \in Shapes /\ Unknown \in FlagStates
      BY RegsAreRegisters DEF Shapes, FlagStates
    <2>2. FlagsOk(s)
      BY <1>8 DEF FlagsOk, Unknown
    <2> QED
      BY <1>2, <1>3, <1>7, <1>8, <1>9, <2>1, <2>2 DEF IsState
  <1>11. AccOk(s, acc)
    <2>1. n > 0 => ValueOf(s, s.value) = acc
      BY <1>2, <1>8 DEF ValueOf, Reg
    <2>2. ~ n > 0 => acc \notin Values
      BY EmittersConstants
    <2> QED
      BY <1>8, <2>1, <2>2 DEF AccOk
  <1>12. InMem(s, args, floor) /\ InitialSpilled(s.proc) = floor
    <2>1. InitialSpilled(s.proc) = floor
      BY <1>8, <1>9 DEF InitialSpilled
    <2>2. Saved(s) = IF savesLR THEN 1 ELSE 0
      BY <1>8, <1>9 DEF Saved
    <2>3. \A k \in 0 .. floor - 1 : MemIndex(s, k) = k + 1 /\ k + 1 \in 1 .. floor
      BY <1>3, <2>1 DEF MemIndex
    <2> HIDE DEF floor
    <2> QED
      BY <1>3, <1>7, <1>8, <1>9, <2>1, <2>2, <2>3 DEF InMem
  <1>13. ASSUME n = 0 PROVE InStep(t, args, acc) /\ t.proc.program = program
    <2>1. InRegs(s, args, floor, n)
      BY <1>3, <1>13 DEF InRegs
    <2>2. Layout(s, args)
      BY <1>3, <1>8, <1>9, <1>12, <2>1 DEF Layout
    <2> QED
      BY <1>3, <1>8, <1>9, <1>10, <1>11, <1>13, <2>2 DEF InStep
  <1>14. ASSUME n > 0 PROVE InStep(t, args, acc) /\ t.proc.program = program
    <2> DEFINE dst == PhysReg(n - 1)
    <2>1. n - 1 \in Nat /\ n - 1 >= floor
      <3>1. floor < n
        BY <1>3, <1>14 DEF SpilledCount
      <3> QED
        BY <1>3, <1>14, <3>1
    <2>2. dst \in Homes /\ dst \in PhysRegs
      BY <2>1, PhysRegIs DEF Homes
    <2>3. Flushed(s, t, dst, acc)
      BY <1>10, <1>11, <1>14, <2>2, FlushDoes
    <2> HIDE DEF t
    <2>4. /\ IsState(t) /\ FlagsOk(t) /\ t.tos = s.tos /\ t.proc = s.proc
          /\ t.lr = s.lr /\ t.mem = s.mem /\ t.kind = "Pending" /\ t.value = Reg(dst)
          /\ t.reg[dst] = acc /\ \A q \in PhysRegs : q # dst => t.reg[q] = s.reg[q]
      BY <1>4, <1>14, <2>3, RegsAreRegisters DEF Flushed, SameFrame
    <2>5. AccOk(t, acc)
      BY <2>4 DEF AccOk, ValueOf, Reg
    <2>6. InMem(t, args, floor)
      BY <1>12, <2>4 DEF InMem, MemIndex, Saved
    <2>7. ASSUME NEW k \in floor .. n - 1 PROVE t.reg[PhysReg(k)] = args[k + 1]
      <3>1. CASE k = n - 1
        BY <1>3, <1>14, <2>4, <3>1
      <3>2. CASE k # n - 1
        <4>1. k \in Nat /\ k < n - 1 /\ n - 1 < k + WindowSize /\ k \in floor .. n - 2
          BY <1>3, <3>2
        <4>2. PhysReg(k) # dst /\ PhysReg(k) \in PhysRegs
          BY <2>1, <4>1, PhysRegDistinct, PhysRegIs
        <4> QED
          BY <1>2, <1>8, <2>4, <4>1, <4>2
      <3> QED
        BY <3>1, <3>2
    <2>8. Layout(t, args)
      <3>1. InRegs(t, args, floor, n)
        BY <2>7 DEF InRegs
      <3> QED
        BY <1>3, <1>8, <1>9, <2>4, <2>6, <3>1 DEF Layout
    <2> QED
      BY <1>8, <1>9, <2>4, <2>5, <2>8 DEF InStep
  <1>15. n = 0 \/ n > 0
    BY <1>3
  <1> HIDE DEF t, acc, n
  <1>16. InStep(Prologue(program, n, m, savesLR), args, acc)
         /\ Prologue(program, n, m, savesLR).proc.program = program /\ acc \in Accs
    BY <1>1, <1>5, <1>13, <1>14, <1>15
  <1> QED
    BY <1>16 DEF m, n, acc


LEMMA InitGives ==
  ASSUME Init
  PROVE  IInv
  <1>1. PICK program \in Programs : \E args \in program.args :
          \E values \in [1 .. args -> Values],
             savesLR \in (IF program.leaf THEN BOOLEAN ELSE {TRUE}) :
            /\ WindowSize = program.window
            /\ jit = Prologue(program, args, EnterDispatch(BuildEntryArgs(values)),
                              savesLR)
            /\ vm = [stack |-> values, acc |-> IF args > 0 THEN values[args] ELSE Junk]
            /\ frames = << >> /\ branch = NoBranch /\ entered = NoEntry
    BY DEF Init
  <1>2. PICK args \in program.args : \E values \in [1 .. args -> Values],
             savesLR \in (IF program.leaf THEN BOOLEAN ELSE {TRUE}) :
            /\ WindowSize = program.window
            /\ jit = Prologue(program, args, EnterDispatch(BuildEntryArgs(values)),
                              savesLR)
            /\ vm = [stack |-> values, acc |-> IF args > 0 THEN values[args] ELSE Junk]
            /\ frames = << >> /\ branch = NoBranch /\ entered = NoEntry
    BY <1>1
  <1>3. PICK values \in [1 .. args -> Values],
             savesLR \in (IF program.leaf THEN BOOLEAN ELSE {TRUE}) :
            /\ WindowSize = program.window
            /\ jit = Prologue(program, args, EnterDispatch(BuildEntryArgs(values)),
                              savesLR)
            /\ vm = [stack |-> values, acc |-> IF args > 0 THEN values[args] ELSE Junk]
            /\ frames = << >> /\ branch = NoBranch /\ entered = NoEntry
    BY <1>2
  <1>4. WindowSize \in Nat \ {0} /\ args \in Nat /\ savesLR \in BOOLEAN
    <2>1. /\ program.window \in Nat \ {0} /\ program.maxTos \in Nat
          /\ program.args \subseteq 0 .. program.maxTos /\ program.leaf \in BOOLEAN
      BY TranslatorConstants
    <2>2. args \in 0 .. program.maxTos
      BY <2>1
    <2>3. savesLR \in BOOLEAN
      BY <2>1
    <2> QED
      BY <1>3, <2>1, <2>2, <2>3
  <1>5. values \in Seq(Values) /\ Len(values) = args
    BY <1>4, SeqDef, LenProperties
  <1>6. InStep(jit, values, vm.acc) /\ jit.proc.program = program /\ vm.acc \in Accs
    BY <1>3, <1>4, <1>5, PrologueDoes
  <1>7. FramesOk(frames, Args, Depth) /\ frames \in Seq(Frames)
    <2>1. Len(frames) = 0 /\ frames \in Seq(Frames)
      BY <1>3
    <2> QED
      BY <2>1 DEF FramesOk
  <1>8. Sound
    BY <1>3, <1>5, <1>6, <1>7 DEF Sound
  <1>9. BranchesAgree /\ ArgumentsArrive
    BY <1>3 DEF NoBranch, NoEntry, BranchesAgree, ArgumentsArrive
  <1> QED
    BY <1>4, <1>7, <1>8, <1>9 DEF IInv

(* The invariant implies what the runs check. *)
LEMMA OperandsHeld ==
  ASSUME IInv
  PROVE  WindowHoldsOperands
  <1>1. SUFFICES ASSUME Running
                 PROVE  /\ jit.tos = Depth
                        /\ \A k \in Slots :
                             IF InWindow(jit.tos, k) THEN jit.reg[PhysReg(k)] = Slot(k)
                             ELSE MemAt(jit, SpillIndex(jit, k)) = Slot(k)
    BY DEF WindowHoldsOperands
  <1>2. /\ WindowSize \in Nat \ {0} /\ vm.stack \in Seq(Values)
        /\ IsState(jit) /\ Layout(jit, vm.stack) /\ jit.tos = Len(vm.stack)
    BY <1>1, SoundIs DEF InStep
  <1>3. ASSUME NEW k \in Slots
        PROVE  IF InWindow(jit.tos, k) THEN jit.reg[PhysReg(k)] = Slot(k)
               ELSE MemAt(jit, SpillIndex(jit, k)) = Slot(k)
    <2>1. k \in 0 .. jit.tos - 1 /\ Slot(k) = vm.stack[k + 1]
      BY <1>1, <1>2, SoundIs DEF Slot
    <2>2. k \in Nat /\ SpilledCount(jit.tos) \in Nat
          /\ (InWindow(jit.tos, k) <=> k >= SpilledCount(jit.tos))
      BY <1>2, <2>1, LayoutIs
    <2>3. CASE InWindow(jit.tos, k)
      <3>1. k \in SpilledCount(jit.tos) .. jit.tos - 1
        BY <2>1, <2>2, <2>3
      <3>2. InRegs(jit, vm.stack, SpilledCount(jit.tos), jit.tos)
        BY <1>2 DEF Layout
      <3> QED
        BY <2>1, <2>3, <3>1, <3>2 DEF InRegs
    <2>4. CASE ~ InWindow(jit.tos, k)
      BY <1>2, <2>1, <2>4, SpillIndexIs
    <2> QED
      BY <2>3, <2>4
  <1> QED
    BY <1>2, <1>3 DEF Depth

LEMMA AccRead ==
  ASSUME IInv
  PROVE  AccIsReadable
  <1>1. SUFFICES ASSUME Running, Live(vm.acc)
                 PROVE  CASE jit.kind = "Pending" -> ValueOf(jit, jit.value) = vm.acc
                          [] jit.kind = "Boolean" -> Holds(jit) = vm.acc
                          [] OTHER -> FALSE
    BY DEF AccIsReadable
  <1>2. vm.acc \in Values /\ AccOk(jit, vm.acc)
    BY <1>1, SoundIs DEF InStep
  <1> QED
    BY <1>2 DEF AccOk


-----------------------------------------------------------------------------
(* Each action keeps the invariant, and so does a step that changes nothing. *)

LEMMA StepsKeep ==
  ASSUME IInv, [Next]_vars
  PROVE  IInv'
  <1>1. ASSUME Step, WindowSize' = WindowSize PROVE IInv'
    <2>1. CASE Const
      BY <1>1, <2>1, ConstGives
    <2>2. CASE Load
      BY <1>1, <2>2, LoadGives
    <2>3. CASE Store
      BY <1>1, <2>3, StoreGives
    <2>4. CASE Push_
      BY <1>1, <2>4, PushGives
    <2>5. CASE Drop
      BY <1>1, <2>5, DropGives
    <2>6. CASE Unary
      BY <1>1, <2>6, UnaryGives
    <2>7. CASE HelperOp
      BY <1>1, <2>7, HelperOpGives
    <2>8. CASE Binary
      BY <1>1, <2>8, BinaryGives
    <2>9. CASE Comparing
      BY <1>1, <2>9, ComparingGives
    <2>10. CASE Call
      BY <1>1, <2>10, CallGives
    <2>11. CASE Ext
      BY <1>1, <2>11, ExtGives
    <2>12. CASE OpenIf
      BY <1>1, <2>12, OpenIfGives
    <2>13. CASE OpenSwitch
      BY <1>1, <2>13, OpenSwitchGives
    <2>14. CASE CloseArm
      BY <1>1, <2>14, CloseArmGives
    <2>15. CASE OpenLoop
      BY <1>1, <2>15, OpenLoopGives
    <2>16. CASE CloseBody
      BY <1>1, <2>16, CloseBodyGives
    <2>17. CASE CloseCond
      BY <1>1, <2>17, CloseCondGives
    <2>18. CASE Return
      BY <1>1, <2>18, ReturnGives
    <2>19. CASE SkipIf
      BY <1>1, <2>19, SkipIfGives
    <2> QED
      BY <1>1, <2>1, <2>2, <2>3, <2>4, <2>5, <2>6, <2>7, <2>8, <2>9, <2>10, <2>11,
         <2>12, <2>13, <2>14, <2>15, <2>16, <2>17, <2>18, <2>19 DEF Step
  <1>2. ASSUME UNCHANGED vars PROVE IInv'
    <2>1. UNCHANGED << WindowSize, jit, vm, frames, branch, entered >>
      BY <1>2 DEF vars
    <2>2. CASE Running
      <3>1. Keeps(jit, jit', vm.stack, vm.acc) /\ vm' = [stack |-> vm.stack, acc |-> vm.acc]
        BY <2>1, <2>2, SoundIs DEF Keeps
      <3>2. StepKeeps /\ Bottom <= Len(vm'.stack)
        BY <2>1, <2>2, <3>1, BottomIs DEF StepKeeps, Keeps
      <3>3. BranchesAgree' /\ ArgumentsArrive'
        BY <2>1 DEF IInv, BranchesAgree, ArgumentsArrive
      <3> QED
        BY <2>1, <2>2, <3>2, <3>3, StraightGives
    <2>3. CASE ~ Running
      BY <2>1, <2>3 DEF IInv, Running, BranchesAgree, ArgumentsArrive
    <2> QED
      BY <2>2, <2>3
  <1> QED
    BY <1>1, <1>2 DEF Next

(* The translator, the machine it emits code for and the bytecode machine are
   in step in every state of every translation: each is typed, the operands are
   where Window says they are, the flags hold what FlagState says they do, and
   the accumulator is where AccState says it is. *)
THEOREM InductiveInvariant == Spec => []IInv
  <1>1. Init => IInv
    BY InitGives
  <1>2. IInv /\ [Next]_vars => IInv'
    BY StepsKeep
  <1> QED
    BY <1>1, <1>2, PTL DEF Spec

(* Whatever was evicted, reloaded, restored or pushed for a call, every operand
   is in the register Window names for it, or in memory at the offset the code
   would use. *)
THEOREM OperandsAreHeld == Spec => []WindowHoldsOperands
  <1>1. IInv => WindowHoldsOperands
    BY OperandsHeld
  <1> QED
    BY <1>1, InductiveInvariant, PTL

(* A live accumulator can always be read where AccState says it is: in a
   register that may be a local's or a slot's, in a literal nothing has moved
   yet, or in the flags of a comparison. *)
THEOREM AccCanBeRead == Spec => []AccIsReadable
  <1>1. IInv => AccIsReadable
    BY AccRead
  <1> QED
    BY <1>1, InductiveInvariant, PTL

(* A branch of the code goes where the branch of the bytecode does, also where
   the translator leaves out the CMP because earlier flags serve. *)
THEOREM BranchesGoWhereTheyShould == Spec => []BranchesAgree
  <1>1. IInv => BranchesAgree
    BY DEF IInv
  <1> QED
    BY <1>1, InductiveInvariant, PTL

(* A callee finds each of its arguments where its own window looks for it,
   however many there are; and RETURN leaves the caller its value, its return
   record and its stack. *)
THEOREM ArgumentsAreFound == Spec => []ArgumentsArrive
  <1>1. IInv => ArgumentsArrive
    BY DEF IInv
  <1> QED
    BY <1>1, InductiveInvariant, PTL
=============================================================================
