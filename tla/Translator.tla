----------------------------- MODULE Translator -----------------------------
(***************************************************************************)
(* Translation of one procedure's body, instruction by instruction, run in *)
(* step with the bytecode machine it is a translation of.  The bytecode    *)
(* machine has an operand stack, its locals at the bottom, and an          *)
(* accumulator; jit (see Emitters) has what the translator tracks and what *)
(* the emitted code has done.  One action per case of                      *)
(* processUntilTerminator; of the arms of a construct the path through one *)
(* is followed, the others leaving the translator as they found it.        *)
(*                                                                         *)
(* What the validator promises (isa-core) is a guard here: the accumulator *)
(* is read only where it is live, the stack never drops below the          *)
(* arguments, and a callee finds its operands above them.                  *)
(***************************************************************************)
EXTENDS EntryArgs

CONSTANT
  Programs  (* the kinds of program translated, each a record of:
                 window       the size of the window it is translated for
                 args         how many arguments a procedure may have
                 leaf         whether one that makes no call is among them
                 arithmetic   the operations it uses, of BinaryOps
                 comparisons  the conditions it compares with
                 callees      the argument counts of what it calls
                 ext          whether it has extension instructions
                 constructs   the constructs it has
                 maxTos       bound: operand stack depth
                 maxFrames    bound: nesting of constructs                 *)

ASSUME TranslatorConstants == \A p \in Programs :
  /\ p.window \in Nat \ {0} /\ p.maxTos \in Nat /\ p.maxFrames \in Nat
  /\ p.args \subseteq 0 .. p.maxTos /\ p.callees \subseteq Nat
  /\ p.leaf \in BOOLEAN /\ p.ext \in BOOLEAN
  /\ p.arithmetic \subseteq BinaryOps /\ p.comparisons \subseteq {"EQ", "GT", "LT"}
  /\ p.constructs \subseteq {"if", "ifElse", "switch", "pre", "post"}

VARIABLES
  jit,      (* the translator and the machine, a record of Emitters        *)
  vm,       (* [stack, acc], acc being Junk when it is dead                *)
  frames,   (* the open constructs: [kind, tos on entry]                   *)
  branch,   (* history: what this step's branch tested, and what it should *)
  entered   (* history: the arguments this step's callee found, and should;
               and, after a return, what was left for the caller           *)

vars == << WindowSize, jit, vm, frames, branch, entered >>

Program == jit.proc.program
Constructs == Program.constructs
MayNest == Len(frames) < Program.maxFrames
MayPush == Len(vm.stack) < Program.maxTos

NoBranch == [did |-> 0, should |-> 0]
NoEntry == [found |-> << >>, expected |-> << >>]

Live(v) == v # Junk
Depth == Len(vm.stack)
Slot(k) == vm.stack[k + 1]
Slots == 0 .. Depth - 1
Args == jit.proc.args

(* The prologue: lr pushed over the arguments that came on the stack, and the
   last argument, which comes in the accumulator, stored to its slot. *)
Prologue(program, args, machine, savesLR) ==
  LET s == [tos |-> args,
            proc |-> [args |-> args, savesLR |-> savesLR, program |-> program],
            kind |-> "Pending", value |-> Reg(ACC), flags |-> Unknown,
            reg |-> machine.reg, lr |-> machine.lr, nz |-> machine.nz,
            mem |-> IF savesLR THEN Append(machine.mem, machine.lr) ELSE machine.mem]
  IN  IF args > 0 THEN Flush(s, PhysReg(args - 1)) ELSE s

Init ==
  \E program \in Programs : \E args \in program.args :
  \E values \in [1 .. args -> Values],
     savesLR \in (IF program.leaf THEN BOOLEAN ELSE {TRUE}) :
    /\ WindowSize = program.window
    /\ jit = Prologue(program, args, EnterDispatch(BuildEntryArgs(values)), savesLR)
    /\ vm = [stack |-> values, acc |-> IF args > 0 THEN values[args] ELSE Junk]
    /\ frames = << >> /\ branch = NoBranch /\ entered = NoEntry

Running == frames # << >> => Last(frames).kind # "returned"

(* A comparison left in the flags is consumed by the branch right after it. *)
Ready == Running /\ jit.kind # "Boolean"

NotBranching == branch' = NoBranch
NotEntering == entered' = NoEntry
Straight == UNCHANGED frames /\ NotBranching /\ NotEntering

-----------------------------------------------------------------------------
(* Moves. *)

Top == Depth - 1

SetSlot(stack, k, v) == [stack EXCEPT ![k + 1] = v]

(* peekStoreFold: a STORE to a slot of the window that follows an instruction
   is taken with it; -1 stands for none.  Limit is the depth it leaves. *)
FoldsOf(s, limit) == {-1} \cup { k \in 0 .. limit - 1 : InWindow(s.tos, k) }
Folds(limit) == FoldsOf(jit, limit)

FoldReg(fold) == IF fold = -1 THEN ACC ELSE PhysReg(fold)
Stored(stack, fold, v) == IF fold = -1 THEN stack ELSE SetSlot(stack, fold, v)

(* A constant a MOVS can hold waits for its consumer; another one is loaded,
   from the pool or with two instructions that set the flags. *)
Const ==
  /\ Ready /\ Straight
  /\ \E v \in Values :
       \/ /\ jit' = Pending(jit, Imm(v))
          /\ vm' = [vm EXCEPT !.acc = v]
       \/ \E fold \in Folds(Depth), pooled \in BOOLEAN :
            LET r == FoldReg(fold)
            IN  /\ jit' = Pending(Apply(IF pooled THEN LoadInto(jit, r, v)
                                        ELSE Alu(jit, r, v),
                                        Into(r, ~ pooled)), Reg(r))
                /\ vm' = [stack |-> Stored(vm.stack, fold, v), acc |-> v]

Load ==
  /\ Ready /\ Straight
  /\ \E k \in Slots :
       \/ /\ ~ InWindow(jit.tos, k)
          /\ jit' = Pending(Apply(LdrSp(jit, ACC, k), Into(ACC, FALSE)), Reg(ACC))
          /\ vm' = [vm EXCEPT !.acc = Slot(k)]
       \/ /\ InWindow(jit.tos, k)
          /\ \E fold \in Folds(Depth) :
               /\ jit' = Flush(Pending(jit, Reg(PhysReg(k))),
                               IF fold = -1 THEN PhysReg(k) ELSE PhysReg(fold))
               /\ vm' = [stack |-> Stored(vm.stack, fold, Slot(k)),
                         acc |-> Slot(k)]

Store ==
  /\ Ready /\ Straight /\ Live(vm.acc)
  /\ \E k \in Slots :
       /\ jit' = IF InWindow(jit.tos, k) THEN Flush(jit, PhysReg(k))
                 ELSE StrSp(AccSource(jit, SCRATCH),
                            SourceReg(jit.value, SCRATCH), k)
       /\ vm' = [vm EXCEPT !.stack = SetSlot(@, k, vm.acc)]

Push_ ==
  /\ Ready /\ Straight /\ Live(vm.acc) /\ MayPush
  /\ jit' = PushValue(jit)
  /\ vm' = [vm EXCEPT !.stack = Append(@, vm.acc)]

(* How far down a block may go: what was there when it was entered. *)
Bottom == IF frames = << >> THEN Args ELSE Last(frames).tos

\* Faulty form: leaves an accumulator that lives in a reclaimed register.
Drop_KeepsHome ==
  /\ Ready /\ Straight
  /\ \E n \in 1 .. Depth - Bottom :
       /\ jit' = Restore(jit, jit.tos - n)
       /\ vm' = [vm EXCEPT !.stack = SubSeq(@, 1, Depth - n)]
Drop ==
  /\ Ready /\ Straight
  /\ \E n \in 1 .. Depth - Bottom :
       /\ jit' = Restore(FlushLive(jit, ACC), jit.tos - n)
       /\ vm' = [vm EXCEPT !.stack = SubSeq(@, 1, Depth - n)]

-----------------------------------------------------------------------------
(* Arithmetic. *)

(* NEG and its kind, which read a register and write one; setting flags or
   not. *)
Unary ==
  /\ Ready /\ Straight /\ Live(vm.acc) /\ Program.arithmetic # {}
  /\ \E fold \in Folds(Depth), sets \in BOOLEAN :
       LET dest == FoldReg(fold)
           t    == AccSource(jit, dest)
           v    == Compute("XOR", t.reg[SourceReg(jit.value, dest)], 1)
           r    == Compute("XOR", vm.acc, 1)
       IN  /\ jit' = Pending(Apply(IF sets THEN Alu(t, dest, v)
                                   ELSE LoadInto(t, dest, v),
                                   Into(dest, sets)), Reg(dest))
           /\ vm' = [stack |-> Stored(vm.stack, fold, r), acc |-> r]

(* CLZ and REVBITS call a helper, which takes and returns r0. *)
HelperOp ==
  /\ Ready /\ Straight /\ Live(vm.acc) /\ Program.arithmetic # {} /\ jit.proc.savesLR
  /\ \E fold \in Folds(Depth) :
       LET t    == Flush(jit, ACC)
           dest == FoldReg(fold)
           v    == Compute("XOR", t.reg[ACC], 1)
           r    == Compute("XOR", vm.acc, 1)
       IN  /\ jit' = Pending(Apply(Mov(Called(t, v), dest, ACC), FlagsUnknown),
                             Reg(dest))
           /\ vm' = [stack |-> Stored(vm.stack, fold, r), acc |-> r]

(* The second operand: a slot, fetched to the scratch register when it is
   spilled, or a constant. *)
Fetched(k) == IF InWindow(jit.tos, k) THEN jit ELSE LdrSp(jit, SCRATCH, k)
FetchedReg(k) == IF InWindow(jit.tos, k) THEN PhysReg(k) ELSE SCRATCH

WithSlot(op, k, writesBack) ==
  LET spilled == ~ InWindow(jit.tos, k)
      v       == Compute(op, vm.acc, Slot(k))
      Do(dest) == BinaryOp(Fetched(k), op, jit.value, Reg(FetchedReg(k)), dest,
                           FALSE)
  IN  IF writesBack
      THEN /\ jit' = IF spilled THEN StrSp(Poison(Do(SCRATCH)), SCRATCH, k)
                     ELSE Poison(Do(PhysReg(k)))
           /\ vm' = [stack |-> SetSlot(vm.stack, k, v), acc |-> Junk]
      ELSE \E fold \in Folds(Depth) :
           /\ jit' = Pending(Do(FoldReg(fold)), Reg(FoldReg(fold)))
           /\ vm' = [stack |-> Stored(vm.stack, fold, v), acc |-> v]

(* REG_ACC and REG_REG, PEEK_PEEK being REG_REG of the top, IMM_ACC, and
   POP_ACC, whose pop may reload the register it has just read. *)
Binary ==
  /\ Ready /\ Straight /\ Live(vm.acc)
  /\ \E op \in Program.arithmetic :
       \/ \E k \in Slots, writesBack \in BOOLEAN : WithSlot(op, k, writesBack)
       \/ \E k \in Values, fold \in Folds(Depth), wide \in BOOLEAN :
            LET v == Compute(op, vm.acc, k)
            IN  /\ jit' = Pending(BinaryOp(jit, op, jit.value, Imm(k),
                                           FoldReg(fold), wide),
                                  Reg(FoldReg(fold)))
                /\ vm' = [stack |-> Stored(vm.stack, fold, v), acc |-> v]
       \/ /\ Depth > Bottom
          /\ \E fold \in Folds(Top) :
               LET v == Compute(op, vm.acc, Slot(Top))
                   r == FoldReg(fold)
                   t == BinaryOp(jit, op, jit.value, Reg(PhysReg(Top)), r, FALSE)
               IN  /\ jit' = FinishPop(Pending(t, Reg(r)))
                   /\ vm' = [stack |-> Stored(Front(vm.stack), fold, v),
                             acc |-> v]

(* A comparison stays in the flags for the branch that follows it, or is made
   a 0 or a 1 at once, in a slot its own pop may just have uncovered. *)
MayFuse ==
  \/ Constructs \cap {"if", "ifElse"} # {} /\ MayNest
  \/ frames # << >> /\ Last(frames).kind = "cond"

CompareWith(cond, s, left, operand, wide, y, pops) ==
  LET t == Compare(s, cond, left, operand, wide)
      p == IF pops THEN FinishPop(t) ELSE t
      v == IF Truth(cond, vm.acc, y) THEN 1 ELSE 0
      rest == IF pops THEN Front(vm.stack) ELSE vm.stack
  IN  \/ /\ MayFuse /\ jit' = p
         /\ vm' = [stack |-> rest, acc |-> v]
      \/ \E fold \in FoldsOf(p, Len(rest)) :
           /\ jit' = Flush(p, FoldReg(fold))
           /\ vm' = [stack |-> Stored(rest, fold, v), acc |-> v]

Comparing ==
  /\ Ready /\ Straight /\ Live(vm.acc)
  /\ \E cond \in Program.comparisons :
       \/ \E k \in Slots : CompareWith(cond, Fetched(k), jit.value,
                             Reg(FetchedReg(k)), FALSE, Slot(k), FALSE)
       \/ \E k \in Values, wide \in BOOLEAN :
            CompareWith(cond, jit, jit.value, Imm(k), wide, k, FALSE)
       \/ /\ Depth > Bottom
          /\ CompareWith(cond, jit, jit.value, Reg(PhysReg(Top)), FALSE,
                         Slot(Top), TRUE)

-----------------------------------------------------------------------------
(* Calls. *)

(* What a callee with n arguments finds where its own Window looks for them. *)
FoundBy(n, s) ==
  [k \in 1 .. n |->
     IF k = n THEN s.reg[ACC]
     ELSE IF InWindow(n, k - 1) THEN s.reg[PhysReg(k - 1)]
     ELSE MemAt(s, Len(s.mem) - (SpilledCount(n) - k))]

(* It takes its spilled arguments with it and uses every register. *)
Returned(s, n, v) ==
  [Called(s, v) EXCEPT !.mem = SubSeq(@, 1, Len(@) - SpilledCount(n)),
                       !.reg = [r \in DOMAIN @ |-> IF r = ACC THEN v ELSE Junk]]

CallOf(n, s) == FillCalleeArgs(SpillForCall(s, n - 1), n - 1)

Call ==
  /\ Ready /\ jit.proc.savesLR
  /\ \E n \in Program.callees, v \in Values :
       LET taken == IF n = 0 THEN 0 ELSE n - 1
           s == IF n = 0 THEN SpillForCall(Poison(jit), 0)
                ELSE CallOf(n, Flush(jit, ACC))
       IN  /\ n > 0 => Live(vm.acc)
           /\ Depth - taken >= Bottom
           /\ jit' = Pending(ReloadAfterCall(
                               Apply(Returned(s, n, v), FlagsUnknown),
                               jit.tos - taken), Reg(ACC))
           /\ vm' = [stack |-> SubSeq(vm.stack, 1, Depth - taken), acc |-> v]
           /\ entered' = [found |-> FoundBy(n, s),
                          expected |-> IF n = 0 THEN << >>
                            ELSE Append(SubSeq(vm.stack, Depth - taken + 1, Depth),
                                        vm.acc)]
  /\ UNCHANGED frames /\ NotBranching

-----------------------------------------------------------------------------
(* Extension instructions, by the calls their emitters may make.  The emitter
   has free use of r1 to r3 between them. *)

ResolveIfLiveIn(s, r) == IF r # ACC /\ LivesIn(s, r) THEN Flush(s, ACC) ELSE s

MoveIfNeeded(s, dst, src) == IF dst = src THEN s ELSE Mov(s, dst, src)

ExtStore(s, k, src) ==
  IF InWindow(s.tos, k)
  THEN MoveIfNeeded(ResolveIfLiveIn(s, PhysReg(k)), PhysReg(k), src)
  ELSE StrSp(s, src, k)

ExtPush(s, src) ==
  LET dst == PhysReg(s.tos)
      t   == ResolveIfLiveIn(Evict(s), dst)
  IN  [MoveIfNeeded(t, dst, src) EXCEPT !.tos = @ + 1]

ExtPop(s, dst) ==
  LET top == PhysReg(s.tos - 1)
      t   == ResolveIfLiveIn(s, dst)
      u   == IF s.tos - 1 >= WindowSize THEN ResolveIfLiveIn(t, top) ELSE t
  IN  FinishPop(MoveIfNeeded(u, dst, top))

(* accInto leaves acc in r0; the copy is the emitter's. *)
AccInto(s, dst) == MoveIfNeeded(Flush(s, ACC), dst, ACC)

(* handleExt forgets the flags after any of it. *)
Opaque(s) == Apply(s, FlagsUnknown)

(* An emitter loads a value to a scratch register, or reads one where it is,
   and stores or pushes it; pops to a scratch register; takes acc; leaves its
   own result in r0; or reaches a helper, acc being lost. *)
Ext ==
  /\ Program.ext /\ Ready /\ Straight
  /\ \/ \E k, j \in Slots :
          LET t == IF InWindow(jit.tos, k) THEN jit ELSE LdrSp(jit, JUMP, k)
              r == IF InWindow(jit.tos, k) THEN PhysReg(k) ELSE JUMP
          IN  /\ jit' = Opaque(ExtStore(t, j, r))
              /\ vm' = [vm EXCEPT !.stack = SetSlot(@, j, Slot(k))]
     \/ \E v \in Values :
          /\ MayPush
          /\ jit' = Opaque(ExtPush(LoadInto(jit, JUMP, v), JUMP))
          /\ vm' = [vm EXCEPT !.stack = Append(@, v)]
     \/ \E k \in 0 .. Top - 1 :
          /\ Depth > Bottom
          /\ jit' = Opaque(ExtStore(ExtPop(jit, JUMP), k, JUMP))
          /\ vm' = [vm EXCEPT !.stack = SetSlot(Front(@), k, Slot(Top))]
     \/ \E k \in Slots :
          /\ Live(vm.acc)
          /\ jit' = Opaque(ExtStore(AccInto(jit, JUMP), k, JUMP))
          /\ vm' = [vm EXCEPT !.stack = SetSlot(@, k, vm.acc)]
     \/ \E v \in Values :
          /\ jit' = Opaque(Pending(LoadInto(jit, ACC, v), Reg(ACC)))
          /\ vm' = [vm EXCEPT !.acc = v]
     \/ /\ jit.proc.savesLR
        /\ jit' = Opaque(Called(Poison(jit), Junk))
        /\ vm' = [vm EXCEPT !.acc = Junk]

-----------------------------------------------------------------------------
(* Constructs. *)

Push1(kind, tos) == frames' = Append(frames, [kind |-> kind, tos |-> tos])
Dead == vm' = [vm EXCEPT !.acc = Junk]
Tests(did, should) == branch' = [did |-> did, should |-> should]
Taken == IF vm.acc = 0 THEN 0 ELSE 1

(* Where paths meet, the one the machine took need not be the one the
   translator saw last: its flags and scratch registers are its own. *)
Joined(s) == [s EXCEPT !.nz = NoFlags, !.reg[SCRATCH] = Junk, !.reg[JUMP] = Junk]

(* What the predecessors of a merge agree on: acc in r0, and no flags. *)
\* Faulty form: keeps what the last arm knew of the flags.
Merge_KeepsFlags(s) == Pending(Poison(s), Reg(ACC))
Merge(s) == Pending(Edge(s), Reg(ACC))

(* translateIfThen and translateIfThenElse: a branch on acc.  The arm not
   entered leads straight to the merge of the first form. *)
OpenIf ==
  /\ Running /\ Live(vm.acc) /\ MayNest
  /\ jit' = Edge(TestNonzero(jit)) /\ Dead
  /\ Tests(Outcome(TestNonzero(jit)), Taken)
  /\ \/ "if" \in Constructs /\ vm.acc # 0 /\ Push1("then", Depth)
     \/ "if" \in Constructs /\ vm.acc = 0 /\ UNCHANGED frames
     \/ "ifElse" \in Constructs /\ Push1("arm", Depth)
  /\ NotEntering

(* With both arms empty nothing is emitted, a comparison's outcome included. *)
SkipIf ==
  /\ Running /\ Live(vm.acc) /\ "if" \in Constructs
  /\ jit' = Edge(jit) /\ Dead
  /\ UNCHANGED frames /\ NotBranching /\ NotEntering

(* translateSwitch: acc itself is the index, in r0 for the helper. *)
OpenSwitch ==
  /\ Ready /\ Live(vm.acc) /\ MayNest
  /\ "switch" \in Constructs /\ jit.proc.savesLR
  /\ LET s == Flush(jit, ACC)
         t == Apply(Alu(s, SCRATCH, 1), Into(SCRATCH, TRUE))
     IN  /\ jit' = Edge(Called(t, Junk))
         /\ Tests(t.reg[ACC], vm.acc)
  /\ Dead /\ Push1("arm", Depth) /\ NotEntering

(* localJumpCleanup at the end of an arm, and the merge.  Past an if with no
   else acc is dead, as it is on the way around. *)
CloseArm ==
  /\ Ready /\ frames # << >> /\ Last(frames).kind \in {"then", "arm"}
  /\ LET f == Last(frames)
         s == Restore(FlushLive(jit, ACC), f.tos)
         dead == f.kind = "then"
     IN  /\ jit' = Joined(IF dead THEN Edge(s) ELSE Merge(s))
         /\ vm' = [stack |-> SubSeq(vm.stack, 1, f.tos),
                   acc |-> IF dead THEN Junk ELSE vm.acc]
  /\ frames' = Front(frames) /\ NotBranching /\ NotEntering

(* LOOP_PRE goes to the condition, LOOP_POST to the body. *)
OpenLoop ==
  /\ Ready /\ MayNest
  /\ LET s == Apply(FlushLive(jit, ACC), FlagsUnknown)
     IN  \/ /\ "pre" \in Constructs
            /\ jit' = Joined(Merge(s)) /\ UNCHANGED vm
            /\ Push1("cond", Depth)
         \/ /\ "post" \in Constructs
            /\ jit' = Joined(Edge(s)) /\ Dead
            /\ Push1("body", Depth)
  /\ NotBranching /\ NotEntering

CloseBody ==
  /\ Ready /\ frames # << >> /\ Last(frames).kind = "body"
  /\ LET f == Last(frames)
     IN  /\ jit' = Joined(Merge(Restore(FlushLive(jit, ACC), f.tos)))
         /\ vm' = [vm EXCEPT !.stack = SubSeq(@, 1, f.tos)]
         /\ frames' = Append(Front(frames), [f EXCEPT !.kind = "cond"])
  /\ NotBranching /\ NotEntering

(* The end of the condition block: back to the body, or out. *)
CloseCond ==
  /\ Running /\ frames # << >> /\ Last(frames).kind = "cond" /\ Live(vm.acc)
  /\ LET f == Last(frames)
         s == IF jit.tos = f.tos THEN jit
              ELSE Restore(FlushLive(jit, ACC), f.tos)
     IN  /\ jit' = Edge(TestNonzero(s))
         /\ Tests(Outcome(TestNonzero(s)), Taken)
         /\ vm' = [stack |-> SubSeq(vm.stack, 1, f.tos), acc |-> Junk]
         /\ frames' = IF vm.acc # 0
                      THEN Append(Front(frames), [f EXCEPT !.kind = "body"])
                      ELSE Front(frames)
  /\ NotEntering

(* RETURN, from however deep: the window is reclaimed, and the record the
   helper goes back to is the one that came in lr. *)
Return ==
  /\ Ready
  /\ LET s == Discard(FlushLive(jit, ACC))
         n == Len(s.mem)
         record == IF s.proc.savesLR THEN MemAt(s, n) ELSE s.lr
         left == IF s.proc.savesLR
                 THEN SubSeq(s.mem, 1, n - 1 - InitialSpilled(s.proc))
                 ELSE s.mem
         value == IF Live(vm.acc) THEN s.reg[ACC] ELSE Junk
     IN  /\ jit' = s
         /\ entered' = [found |-> << value, record, left >>,
                        expected |-> << vm.acc, Record, << >> >>]
  /\ frames' = Append(frames, [kind |-> "returned", tos |-> 0])
  /\ UNCHANGED vm /\ NotBranching

Step ==
  \/ Const \/ Load \/ Store \/ Push_ \/ Drop
  \/ Unary \/ HelperOp \/ Binary \/ Comparing
  \/ Call \/ Ext
  \/ OpenIf \/ SkipIf \/ OpenSwitch \/ CloseArm \/ OpenLoop \/ CloseBody \/ CloseCond
  \/ Return

Next == Step /\ UNCHANGED WindowSize

Spec == Init /\ [][Next]_vars

-----------------------------------------------------------------------------
(* Properties *)

(* Every operand is where the window says: the top ones each in its own
   register, the others in memory at the offset the code would use, whatever
   was evicted, reloaded or pushed for a call since. *)
WindowHoldsOperands ==
  Running =>
    /\ jit.tos = Depth
    /\ \A k \in Slots :
         IF InWindow(jit.tos, k) THEN jit.reg[PhysReg(k)] = Slot(k)
         ELSE MemAt(jit, SpillIndex(jit, k)) = Slot(k)

(* An accumulator the program may still read can be read where AccState says:
   in its register, though that may belong to a local or to a slot since gone,
   in the literal it was never moved from, or in the flags. *)
AccIsReadable ==
  (Running /\ Live(vm.acc)) =>
    CASE jit.kind = "Pending" -> ValueOf(jit, jit.value) = vm.acc
      [] jit.kind = "Boolean" -> Holds(jit) = vm.acc
      [] OTHER -> FALSE

(* A branch goes where the bytecode's does, with the comparison it was given,
   with the flags of an earlier instruction, or with a CMP of its own; and the
   helper of a jump table gets the index. *)
BranchesAgree == branch.did = branch.should

(* A callee finds its arguments where its own window looks for them, and a
   return leaves the caller its value, its record and its stack. *)
ArgumentsArrive == entered.found = entered.expected
=============================================================================
