--------------------------- MODULE Assembler_proofs ---------------------------
(***************************************************************************)
(* What holds of every body under construction, for every instance, limit  *)
(* and order of emissions.  First that the literal pool never holds more   *)
(* than its arrays do, for which nothing of what the code says matters, so *)
(* that only the pool is typed (IInv).  Then that loads, branches, tables  *)
(* and calls lead where they should: an emission extends the code or sets  *)
(* the operands of halfwords whose target has just become known, and both  *)
(* leave a body whose loads reach, whose data nothing falls into and whose *)
(* chains hold the branches that still wait (StateInv).                    *)
(***************************************************************************)
EXTENDS Assembler, SequenceTheorems, FiniteSetTheorems, NaturalsInduction,
        WellFoundedInduction, TLAPS

IsSeq(p) == p \in Seq({ p[i] : i \in 1 .. Len(p) })

IsAsm(a) ==
  /\ a = [code |-> a.code, pending |-> a.pending, atomic |-> a.atomic]
  /\ IsSeq(a.pending)

Fits(a) == IsAsm(a) /\ Len(a.pending) <= MaxPending

LEMMA IsSeqLen ==
  ASSUME NEW p, IsSeq(p)
  PROVE  Len(p) \in Nat
  BY LenProperties DEF IsSeq

LEMMA IsSeqOf ==
  ASSUME NEW S, NEW p \in Seq(S)
  PROVE  IsSeq(p)
  <1>1. Len(p) \in Nat /\ p \in [1 .. Len(p) -> S]
    BY LenProperties
  <1>2. p \in [1 .. Len(p) -> { p[i] : i \in 1 .. Len(p) }]
    BY <1>1
  <1> QED
    BY <1>1, <1>2, SeqDef DEF IsSeq

LEMMA IsSeqAppend ==
  ASSUME NEW p, IsSeq(p), NEW x
  PROVE  IsSeq(Append(p, x)) /\ Len(Append(p, x)) = Len(p) + 1
  <1> DEFINE S == { p[i] : i \in 1 .. Len(p) } \cup {x}
  <1>1. Len(p) \in Nat /\ p \in [1 .. Len(p) -> { p[i] : i \in 1 .. Len(p) }]
    BY LenProperties DEF IsSeq
  <1>2. p \in [1 .. Len(p) -> S]
    BY <1>1
  <1>3. p \in Seq(S) /\ x \in S
    BY <1>1, <1>2, SeqDef
  <1> HIDE DEF S
  <1>4. Append(p, x) \in Seq(S) /\ Len(Append(p, x)) = Len(p) + 1
    BY <1>3
  <1> QED
    BY <1>4, IsSeqOf

LEMMA IsSeqEmpty == IsSeq(<< >>) /\ Len(<< >>) = 0
  BY IsSeqOf, << >> \in Seq({})

-----------------------------------------------------------------------------
(* Each operation on the assembler, by what it leaves pending. *)

LEMMA SetCode ==
  ASSUME NEW a, IsAsm(a), NEW c
  PROVE  /\ IsAsm([a EXCEPT !.code = c])
         /\ [a EXCEPT !.code = c].pending = a.pending
         /\ [a EXCEPT !.code = c].code = c
  <1>1. [a EXCEPT !.code = c] = [code |-> c, pending |-> a.pending, atomic |-> a.atomic]
    BY DEF IsAsm
  <1> QED
    BY <1>1 DEF IsAsm

LEMMA SetAtomic ==
  ASSUME NEW a, IsAsm(a), NEW b
  PROVE  /\ IsAsm([a EXCEPT !.atomic = b])
         /\ [a EXCEPT !.atomic = b].pending = a.pending
  <1>1. [a EXCEPT !.atomic = b] = [code |-> a.code, pending |-> a.pending, atomic |-> b]
    BY DEF IsAsm
  <1> QED
    BY <1>1 DEF IsAsm

LEMMA FlushEmpties ==
  ASSUME NEW a, IsAsm(a), NEW guard
  PROVE  IsAsm(FlushPool(a, guard)) /\ FlushPool(a, guard).pending = << >>
  <1>1. CASE a.pending = << >>
    BY <1>1 DEF FlushPool
  <1>2. CASE a.pending # << >>
    <2>1. PICK c : FlushPool(a, guard) = [a EXCEPT !.code = c, !.pending = << >>]
      BY <1>2 DEF FlushPool
    <2>2. FlushPool(a, guard) = [code |-> c, pending |-> << >>, atomic |-> a.atomic]
      BY <2>1 DEF IsAsm
    <2> QED
      BY <2>2, IsSeqEmpty DEF IsAsm
  <1> QED
    BY <1>1, <1>2

(* The reservation: room for as many as were asked for, if the arrays could
   hold them at all. *)
LEMMA RoomIsMade ==
  ASSUME NEW a, IsAsm(a), NEW n \in Nat, n <= MaxPending, MaxPending \in Nat, NEW extra
  PROVE  /\ IsAsm(EnsurePoolRoom(a, n, extra))
         /\ Len(EnsurePoolRoom(a, n, extra).pending) + n <= MaxPending
  <1> DEFINE e == EnsurePoolRoom(a, n, extra)
  <1>1. CASE e = FlushPool(a, TRUE)
    <2>1. IsAsm(e) /\ e.pending = << >>
      BY <1>1, FlushEmpties, Zenon
    <2>2. Len(e.pending) = 0
      BY <2>1, IsSeqEmpty
    <2> HIDE DEF e
    <2>3. Len(e.pending) + n <= MaxPending
      BY <2>2
    <2> QED
      BY <2>1, <2>3 DEF e
  <1>2. CASE e # FlushPool(a, TRUE)
    <2>1. e = a /\ (a.pending = << >> \/ ~ CountAtRisk(a, n))
      BY <1>2 DEF EnsurePoolRoom
    <2>2. Len(a.pending) \in Nat
      BY IsSeqLen DEF IsAsm
    <2>3. Len(a.pending) + n <= MaxPending
      BY <2>1, <2>2, IsSeqEmpty DEF CountAtRisk
    <2> QED
      BY <2>1, <2>3
  <1> QED
    BY <1>1, <1>2

LEMMA EmitFits ==
  ASSUME MaxPending \in Nat, NEW a, NEW isn, Fits(a)
  PROVE  Fits(Emit(a, isn))
  <1> DEFINE d == DoEmit(a, isn)
  <1>1. IsAsm(d) /\ d.pending = a.pending
    BY SetCode DEF DoEmit, Fits
  <1>2. CASE a.atomic
    BY <1>1, <1>2 DEF Emit, Fits
  <1>3. CASE ~ a.atomic
    <2>1. Emit(a, isn) = EnsurePoolRoom(d, 0, 0)
      BY <1>3 DEF Emit
    <2> HIDE DEF d
    <2> DEFINE e == EnsurePoolRoom(d, 0, 0)
    <2>2. IsAsm(e) /\ Len(e.pending) + 0 <= MaxPending
      BY <1>1, RoomIsMade
    <2>3. Len(e.pending) \in Nat
      BY <2>2, IsSeqLen DEF IsAsm
    <2> HIDE DEF e
    <2>4. Fits(e)
      BY <2>2, <2>3 DEF Fits
    <2> QED
      BY <2>1, <2>4 DEF e
  <1> QED
    BY <1>2, <1>3

(* Emitting never adds to what is pending. *)
LEMMA EmitAddsNone ==
  ASSUME MaxPending \in Nat, NEW a, NEW isn, IsAsm(a), NEW n \in Nat, n <= MaxPending,
         Len(a.pending) <= n
  PROVE  IsAsm(Emit(a, isn)) /\ Len(Emit(a, isn).pending) <= n
  <1> DEFINE d == DoEmit(a, isn)
  <1>1. IsAsm(d) /\ d.pending = a.pending
    BY SetCode DEF DoEmit
  <1>2. Emit(a, isn) = d \/ Emit(a, isn) = FlushPool(d, TRUE)
    BY DEF Emit, EnsurePoolRoom
  <1>3. IsAsm(FlushPool(d, TRUE)) /\ Len(FlushPool(d, TRUE).pending) = 0
    BY <1>1, FlushEmpties, IsSeqEmpty, Zenon
  <1>4. CASE Emit(a, isn) = d
    BY <1>1, <1>4, Zenon
  <1>5. CASE Emit(a, isn) = FlushPool(d, TRUE)
    <2>1. 0 <= n
      OBVIOUS
    <2> HIDE DEF d
    <2> QED
      BY <1>3, <1>5, <2>1, Zenon
  <1> QED
    BY <1>2, <1>4, <1>5, Zenon

LEMMA MaterializeFits ==
  ASSUME MaxPending \in Nat \ {0}, NEW a, NEW value, NEW how, Fits(a)
  PROVE  Fits(Materialize(a, value, how))
  <1>1. CASE how = "imm8"
    BY <1>1, EmitFits DEF Materialize
  <1>2. CASE how # "imm8"
    <2> DEFINE b == EnsurePoolRoom(a, 1, 0)
               n == MaxPending - 1
               c == Emit(b, Halfword("ldr", 0, value))
               site == [site |-> Pc(b), value |-> value]
    <2>1. Materialize(a, value, how) = [c EXCEPT !.pending = Append(@, site)]
      BY <1>2 DEF Materialize, ParkPoolSite
    <2>2. IsAsm(b) /\ Len(b.pending) + 1 <= MaxPending
      BY RoomIsMade DEF Fits
    <2>3. Len(b.pending) \in Nat
      BY <2>2, IsSeqLen DEF IsAsm
    <2> HIDE DEF b, site
    <2>4. IsAsm(c) /\ Len(c.pending) <= n
      BY <2>2, <2>3, EmitAddsNone
    <2> HIDE DEF c
    <2>5. IsSeq(c.pending) /\ Len(c.pending) \in Nat
      BY <2>4, IsSeqLen DEF IsAsm
    <2> DEFINE q == Append(c.pending, site)
    <2>6. IsSeq(q) /\ Len(q) = Len(c.pending) + 1
      BY <2>5, IsSeqAppend
    <2> HIDE DEF q
    <2>7. Materialize(a, value, how) = [code |-> c.code, pending |-> q, atomic |-> c.atomic]
      BY <2>1, <2>4 DEF IsAsm, q
    <2>8. Len(q) <= MaxPending
      BY <2>4, <2>5, <2>6
    <2> QED
      BY <2>6, <2>7, <2>8 DEF Fits, IsAsm
  <1> QED
    BY <1>1, <1>2

LEMMA FlushFits ==
  ASSUME MaxPending \in Nat, NEW a, NEW guard, IsAsm(a)
  PROVE  Fits(FlushPool(a, guard))
  <1>1. IsAsm(FlushPool(a, guard)) /\ Len(FlushPool(a, guard).pending) = 0
    BY FlushEmpties, IsSeqEmpty, Zenon
  <1> QED
    BY <1>1 DEF Fits

LEMMA SetCodeFits ==
  ASSUME NEW a, NEW c, Fits(a)
  PROVE  Fits([a EXCEPT !.code = c])
  BY SetCode DEF Fits

LEMMA OpenFits ==
  ASSUME MaxPending \in Nat, NEW a, NEW n, NEW extra, Fits(a)
  PROVE  Fits(OpenAtomic(a, n, extra))
  <1> DEFINE e == EnsurePoolRoom(a, n, extra)
  <1>1. e = a \/ e = FlushPool(a, TRUE)
    BY DEF EnsurePoolRoom
  <1>2. Fits(FlushPool(a, TRUE))
    BY FlushFits DEF Fits
  <1>3. OpenAtomic(a, n, extra) = [e EXCEPT !.atomic = TRUE]
    BY DEF OpenAtomic
  <1> HIDE DEF e
  <1>4. Fits(e)
    BY <1>1, <1>2
  <1> QED
    BY <1>3, <1>4, SetAtomic DEF Fits

LEMMA CloseFits ==
  ASSUME NEW a, Fits(a)
  PROVE  Fits(CloseAtomic(a))
  BY SetAtomic DEF CloseAtomic, Fits

-----------------------------------------------------------------------------
(* The sequences. *)

LEMMA HelperFits ==
  ASSUME MaxPending \in Nat, NEW a, NEW jump, Fits(a)
  PROVE  Fits(JumpToHelper(a, jump))
  <1>1. Fits(Emit(a, Isn("mov")))
    BY EmitFits
  <1>2. Fits(Emit(Emit(a, Isn("mov")), Isn("mov")))
    BY <1>1, EmitFits
  <1> QED
    BY <1>2, EmitFits DEF JumpToHelper

LEMMA CallFits ==
  ASSUME MaxPending \in Nat \ {0}, NEW a, NEW record, NEW calleeHow, NEW callee, Fits(a)
  PROVE  Fits(EmitCall(a, record, calleeHow, callee))
  <1> DEFINE b == OpenAtomic(a, 2, 0)
             c == Materialize(b, Resume(Pc(b) + CallSequenceBytes), record)
             d == Materialize(c, Literal(callee), calleeHow)
             j == JumpToHelper(d, "bx")
  <1>1. Fits(b)
    BY OpenFits
  <1>2. Fits(c)
    BY <1>1, MaterializeFits
  <1>3. Fits(d)
    BY <1>2, MaterializeFits
  <1>4. Fits(j)
    BY <1>3, HelperFits
  <1>5. EmitCall(a, record, calleeHow, callee) = CloseAtomic(j)
    BY DEF EmitCall
  <1> HIDE DEF j
  <1> QED
    BY <1>4, <1>5, CloseFits

LEMMA ReturnFits ==
  ASSUME MaxPending \in Nat \ {0}, NEW a, NEW reclaim, Fits(a)
  PROVE  Fits(EmitReturn(a, reclaim)) /\ Fits(EmitTrap(a))
  <1> DEFINE b == OpenAtomic(a, 1, 0)
             m == Materialize(b, Literal(CHOOSE v \in reclaim : TRUE), "pool")
             r == IF reclaim = {} THEN b ELSE m
             t == OpenAtomic(a, 0, 0)
  <1>1. Fits(b) /\ Fits(t)
    BY OpenFits
  <1>2. Fits(m)
    BY <1>1, MaterializeFits
  <1>3. Fits(r)
    BY <1>1, <1>2
  <1>4. EmitReturn(a, reclaim) = CloseAtomic(JumpToHelper(r, "bx"))
    BY DEF EmitReturn
  <1>5. EmitTrap(a) = CloseAtomic(JumpToHelper(t, "bx"))
    BY DEF EmitTrap
  <1> HIDE DEF r, t
  <1> QED
    BY <1>1, <1>3, <1>4, <1>5, HelperFits, CloseFits

LEMMA LinkedFits ==
  ASSUME MaxPending \in Nat, NEW a, NEW op, NEW head, Fits(a)
  PROVE  Fits(Linked(a, op, head)) /\ Fits(BranchTo(a, op, head))
  <1> DEFINE e == Emit(a, Isn(op))
             l == Linked(a, op, head)
  <1>1. Fits(e)
    BY EmitFits
  <1>2. PICK c : l = [e EXCEPT !.code = c]
    BY DEF Linked
  <1> HIDE DEF e
  <1>3. Fits(l)
    BY <1>1, <1>2, SetCodeFits
  <1>4. BranchTo(a, op, head) = l \/ BranchTo(a, op, head) = FlushPool(l, FALSE)
    BY DEF BranchTo
  <1> HIDE DEF l
  <1>5. Fits(FlushPool(l, FALSE))
    BY <1>3, FlushFits DEF Fits
  <1> QED
    BY <1>3, <1>4, <1>5 DEF l

LEMMA SwitchFits ==
  ASSUME MaxPending \in Nat, NEW a, NEW n, Fits(a)
  PROVE  Fits(EmitTable(EmitDispatch(a, n), n))
  <1> DEFINE d == EmitDispatch(a, n)
             o == OpenAtomic(Emit(a, Isn("mov")), 0, TableBytes(n))
  <1>1. Fits(o)
    BY EmitFits, OpenFits
  <1>2. Fits(d)
    BY <1>1, HelperFits DEF EmitDispatch
  <1> HIDE DEF d
  <1>3. PICK c : EmitTable(d, n) = FlushPool(CloseAtomic([d EXCEPT !.code = c]), FALSE)
    BY DEF EmitTable
  <1>4. Fits(CloseAtomic([d EXCEPT !.code = c]))
    BY <1>2, SetCodeFits, CloseFits
  <1>5. Fits(EmitTable(d, n))
    BY <1>3, <1>4, FlushFits DEF Fits
  <1> QED
    BY <1>5 DEF d

-----------------------------------------------------------------------------
(* The invariant, and each action. *)

IInv == inst \in Instances /\ Fits(asm)

LEMMA Bounds ==
  ASSUME IInv
  PROVE  MaxPending \in Nat \ {0}
  BY AssemblerConstants DEF IInv, MaxPending

LEMMA BlankFits == MaxPending \in Nat => Fits(Blank)
  BY IsSeqEmpty DEF Fits, IsAsm, Blank

LEMMA InitIInv == Init => IInv
  BY BlankFits, Bounds, AssemblerConstants DEF Init, IInv, MaxPending

LEMMA Keeps ==
  ASSUME IInv, inst' = inst, Fits(asm')
  PROVE  IInv'
  BY DEF IInv, Fits, MaxPending

LEMMA AbandonIInv == IInv /\ Abandon => IInv'
  <1> SUFFICES ASSUME IInv, Abandon PROVE IInv'
    OBVIOUS
  <1>1. inst' = inst /\ (asm' = Blank \/ asm' = asm)
    BY DEF Abandon
  <1> QED
    BY <1>1, Bounds, BlankFits, Keeps DEF IInv

LEMMA EmissionsIInv ==
  IInv /\ (Plain \/ Load \/ Call \/ Leave) => IInv'
  <1> SUFFICES ASSUME IInv, Plain \/ Load \/ Call \/ Leave PROVE IInv'
    OBVIOUS
  <1>0. MaxPending \in Nat \ {0} /\ Fits(asm)
    BY Bounds DEF IInv
  <1>1. CASE Plain
    BY <1>0, <1>1, EmitFits, Keeps DEF Plain, Straight
  <1>2. CASE Load
    BY <1>0, <1>2, MaterializeFits, Keeps DEF Load, Straight
  <1>3. CASE Call
    BY <1>0, <1>3, CallFits, Keeps DEF Call, Straight
  <1>4. CASE Leave
    <2>1. PICK out \in {EmitTrap(asm)} \cup
                { EmitReturn(asm, r) : r \in {{}} \cup {{v} : v \in Literals} } :
            asm' = out \/ asm' = FlushPool(out, FALSE)
      BY <1>4 DEF Leave
    <2>2. Fits(out)
      BY <1>0, ReturnFits
    <2>3. Fits(asm')
      BY <1>0, <2>1, <2>2, FlushFits DEF Fits
    <2> QED
      BY <1>4, <2>3, Keeps DEF Leave
  <1> QED
    BY <1>1, <1>2, <1>3, <1>4

LEMMA BranchesIInv ==
  ASSUME IInv, NEW l, NEW op, Branch(l, op) \/ BranchWide(l) \/ Bind(l)
  PROVE  IInv'
  <1>0. MaxPending \in Nat \ {0} /\ Fits(asm)
    BY Bounds DEF IInv
  <1>1. CASE Abandon
    BY <1>1, AbandonIInv
  <1>2. CASE Branch(l, op) /\ ~ Abandon
    BY <1>0, <1>2, LinkedFits, Keeps DEF Branch
  <1>3. CASE BranchWide(l) /\ ~ Abandon
    <2> DEFINE skip == Linked(asm, "bcc", -1)
               taken == BranchTo(skip, "b", chain[l])
    <2>1. Fits(skip)
      BY <1>0, LinkedFits
    <2>2. Fits(taken)
      BY <1>0, <2>1, LinkedFits
    <2>3. PICK c : asm' = [taken EXCEPT !.code = c]
      BY <1>3 DEF BranchWide
    <2>4. inst' = inst
      BY <1>3 DEF BranchWide
    <2> HIDE DEF taken
    <2>5. Fits(asm')
      BY <2>2, <2>3, SetCodeFits
    <2> QED
      BY <2>4, <2>5, Keeps
  <1>4. CASE Bind(l) /\ ~ Abandon
    <2>1. inst' = inst /\ \E c : asm' = [asm EXCEPT !.code = c]
      BY <1>4 DEF Bind
    <2>2. PICK c : asm' = [asm EXCEPT !.code = c]
      BY <2>1
    <2> QED
      BY <1>0, <2>1, <2>2, SetCodeFits, Keeps
  <1> QED
    BY <1>1, <1>2, <1>3, <1>4

LEMMA LoopsIInv == IInv /\ (LoopBody \/ BackBranch) => IInv'
  <1> SUFFICES ASSUME IInv, LoopBody \/ BackBranch PROVE IInv'
    OBVIOUS
  <1>0. MaxPending \in Nat \ {0} /\ Fits(asm)
    BY Bounds DEF IInv
  <1>1. CASE Abandon
    BY <1>1, AbandonIInv
  <1>2. CASE LoopBody
    BY <1>0, <1>2, Keeps DEF LoopBody
  <1>3. CASE BackBranch /\ ~ Abandon
    <2> DEFINE wide == status = "Wide"
               skip == IF wide THEN Linked(asm, "bcc", -1) ELSE asm
               op   == IF wide THEN "b" ELSE "bcc"
               back == Emit(skip, Halfword(op, loop - (Pc(skip) + 4), Nothing))
    <2>1. Fits(skip)
      BY <1>0, LinkedFits
    <2>2. Fits(back)
      BY <1>0, <2>1, EmitFits
    <2>3. inst' = inst /\ \E c : asm' = back \/ asm' = [back EXCEPT !.code = c]
      BY <1>3 DEF BackBranch
    <2> HIDE DEF back
    <2>4. PICK c : asm' = back \/ asm' = [back EXCEPT !.code = c]
      BY <2>3
    <2>5. Fits(asm')
      BY <2>2, <2>4, SetCodeFits
    <2> QED
      BY <2>3, <2>5, Keeps
  <1> QED
    BY <1>1, <1>2, <1>3

LEMMA SwitchesIInv == IInv /\ (Switch \/ GapCase \/ StartCase) => IInv'
  <1> SUFFICES ASSUME IInv, Switch \/ GapCase \/ StartCase PROVE IInv'
    OBVIOUS
  <1>0. MaxPending \in Nat \ {0} /\ Fits(asm)
    BY Bounds DEF IInv
  <1>1. CASE Switch
    <2>1. inst' = inst /\ \E n : asm' = EmitTable(EmitDispatch(asm, n), n)
      BY <1>1 DEF Switch
    <2>2. PICK n : asm' = EmitTable(EmitDispatch(asm, n), n)
      BY <2>1
    <2> QED
      BY <1>0, <2>1, <2>2, SwitchFits, Keeps
  <1>2. CASE GapCase \/ StartCase
    <2>1. inst' = inst /\ \E c : asm' = [asm EXCEPT !.code = c]
      BY <1>2 DEF GapCase, StartCase, PatchSlots
    <2>2. PICK c : asm' = [asm EXCEPT !.code = c]
      BY <2>1
    <2> QED
      BY <1>0, <2>1, <2>2, SetCodeFits, Keeps
  <1> QED
    BY <1>1, <1>2

LEMMA NextIInv == IInv /\ [Next]_vars => IInv'
  <1> SUFFICES ASSUME IInv, [Next]_vars PROVE IInv'
    OBVIOUS
  <1>1. CASE UNCHANGED vars
    BY <1>1 DEF IInv, Fits, MaxPending, vars
  <1>2. CASE Next
    BY <1>2, EmissionsIInv, BranchesIInv, LoopsIInv, SwitchesIInv DEF Next
  <1> QED
    BY <1>1, <1>2

(* parkPoolSite never writes past pendingSites and pendingValues: whatever has
   been emitted, every path to it has made room by materializeImm32's own
   ensurePoolRoom, in an atomic block or out of one. *)
THEOREM PoolFits == Spec => []PendingFits
  <1>1. IInv => PendingFits
    BY DEF IInv, Fits, PendingFits
  <1> QED
    BY <1>1, InitIInv, NextIInv, PTL DEF Spec

-----------------------------------------------------------------------------
(* What the proofs about the code need of sequences and numbers. *)

LEMMA Least ==
  ASSUME NEW S, S \subseteq Nat, S # {}
  PROVE  \E m \in S : \A k \in S : m <= k
  <1> DEFINE R == OpToRel(<, Nat)
  <1>1. IsWellFoundedOn(R, Nat)
    BY NatLessThanWellFounded
  <1> HIDE DEF R
  <1>2. PICK m \in S : \A k \in S : ~ (<< k, m >> \in R)
    BY <1>1, WFMin
  <1>3. ASSUME NEW k \in S PROVE m <= k
    <2>1. ~ (<< k, m >> \in R) /\ k \in Nat /\ m \in Nat
      BY <1>2
    <2>2. ~ k < m
      BY <2>1 DEF R, OpToRel
    <2> QED
      BY <2>1, <2>2
  <1> QED
    BY <1>3

LEMMA IsSeqFun ==
  ASSUME NEW n \in Nat, NEW f, DOMAIN f = 1 .. n, f = [i \in 1 .. n |-> f[i]]
  PROVE  IsSeq(f) /\ Len(f) = n
  <1> DEFINE S == { f[i] : i \in 1 .. n }
  <1>1. f \in [1 .. n -> S]
    OBVIOUS
  <1>2. f \in Seq(S)
    BY <1>1, SeqDef
  <1>3. Len(f) = n
    BY <1>1, <1>2, LenProperties
  <1> QED
    BY <1>2, <1>3, IsSeqOf

LEMMA IsSeqShape ==
  ASSUME NEW p, IsSeq(p)
  PROVE  Len(p) \in Nat /\ DOMAIN p = 1 .. Len(p) /\ p = [i \in 1 .. Len(p) |-> p[i]]
  <1>1. Len(p) \in Nat /\ p \in [1 .. Len(p) -> { p[i] : i \in 1 .. Len(p) }]
    BY LenProperties DEF IsSeq
  <1> QED
    BY <1>1

LEMMA AppendAt ==
  ASSUME NEW p, IsSeq(p), NEW x
  PROVE  /\ IsSeq(Append(p, x)) /\ Len(Append(p, x)) = Len(p) + 1 /\ Len(p) \in Nat
         /\ \A i \in 1 .. Len(p) : Append(p, x)[i] = p[i]
         /\ Append(p, x)[Len(p) + 1] = x
  <1> DEFINE S == { p[i] : i \in 1 .. Len(p) } \cup {x}
  <1>1. Len(p) \in Nat /\ p \in [1 .. Len(p) -> { p[i] : i \in 1 .. Len(p) }]
    BY LenProperties DEF IsSeq
  <1>2. p \in [1 .. Len(p) -> S]
    BY <1>1
  <1>3. p \in Seq(S) /\ x \in S
    BY <1>1, <1>2, SeqDef
  <1> HIDE DEF S
  <1>4. /\ \A i \in 1 .. Len(p) : Append(p, x)[i] = p[i]
        /\ Append(p, x)[Len(p) + 1] = x
    BY <1>3, AppendProperties
  <1> QED
    BY <1>1, <1>4, IsSeqAppend

LEMMA ConcatAt ==
  ASSUME NEW p, IsSeq(p), NEW q, IsSeq(q)
  PROVE  /\ IsSeq(p \o q) /\ Len(p \o q) = Len(p) + Len(q)
         /\ Len(p) \in Nat /\ Len(q) \in Nat
         /\ \A i \in 1 .. Len(p) : (p \o q)[i] = p[i]
         /\ \A i \in 1 .. Len(q) : (p \o q)[Len(p) + i] = q[i]
  <1> DEFINE S == { p[i] : i \in 1 .. Len(p) } \cup { q[i] : i \in 1 .. Len(q) }
  <1>1. /\ Len(p) \in Nat /\ p \in [1 .. Len(p) -> { p[i] : i \in 1 .. Len(p) }]
        /\ Len(q) \in Nat /\ q \in [1 .. Len(q) -> { q[i] : i \in 1 .. Len(q) }]
    BY LenProperties DEF IsSeq
  <1>2. p \in [1 .. Len(p) -> S] /\ q \in [1 .. Len(q) -> S]
    BY <1>1
  <1>3. p \in Seq(S) /\ q \in Seq(S)
    BY <1>1, <1>2, SeqDef
  <1> HIDE DEF S
  <1>4. /\ p \o q \in Seq(S) /\ Len(p \o q) = Len(p) + Len(q)
        /\ \A i \in 1 .. Len(p) + Len(q) :
             (p \o q)[i] = IF i <= Len(p) THEN p[i] ELSE q[i - Len(p)]
    BY <1>3, ConcatProperties
  <1>5. \A i \in 1 .. Len(p) : (p \o q)[i] = p[i]
    BY <1>1, <1>4
  <1>6. ASSUME NEW i \in 1 .. Len(q) PROVE (p \o q)[Len(p) + i] = q[i]
    <2>1. Len(p) + i \in 1 .. Len(p) + Len(q) /\ ~ (Len(p) + i <= Len(p))
          /\ (Len(p) + i) - Len(p) = i
      BY <1>1
    <2> QED
      BY <1>4, <2>1
  <1> QED
    BY <1>1, <1>4, <1>5, <1>6, IsSeqOf

-----------------------------------------------------------------------------
(* The pool: one word for each different value that is pending. *)

Rank(pending, i) == Cardinality({ j \in FirstOccurrences(pending) : j < i })

LEMMA FirstOf ==
  ASSUME NEW p, Len(p) \in Nat, NEW k \in 1 .. Len(p)
  PROVE  \E i \in FirstOccurrences(p) : p[i].value = p[k].value /\ i \in 1 .. Len(p)
  <1> DEFINE S == { j \in 1 .. Len(p) : p[j].value = p[k].value }
  <1>1. PICK i \in S : \A j \in S : i <= j
    <2>1. k \in S /\ S \subseteq Nat
      OBVIOUS
    <2> QED
      BY <2>1, Least
  <1>2. ASSUME NEW j \in 1 .. i - 1 PROVE p[j].value # p[i].value
    <2>1. j \in 1 .. Len(p) /\ ~ i <= j
      BY <1>1
    <2>2. j \notin S
      BY <1>1, <2>1
    <2> QED
      BY <1>1, <2>1, <2>2
  <1> QED
    BY <1>1, <1>2 DEF FirstOccurrences

LEMMA OneFirst ==
  ASSUME NEW p, Len(p) \in Nat,
         NEW i \in FirstOccurrences(p), NEW j \in FirstOccurrences(p),
         p[i].value = p[j].value
  PROVE  i = j
  <1>1. i \in 1 .. Len(p) /\ j \in 1 .. Len(p)
    BY DEF FirstOccurrences
  <1>2. ~ i < j
    <2>1. i < j => i \in 1 .. j - 1
      BY <1>1
    <2> QED
      BY <2>1 DEF FirstOccurrences
  <1>3. ~ j < i
    <2>1. j < i => j \in 1 .. i - 1
      BY <1>1
    <2> QED
      BY <2>1 DEF FirstOccurrences
  <1> QED
    BY <1>1, <1>2, <1>3

LEMMA FirstsAreFinite ==
  ASSUME NEW p, Len(p) \in Nat
  PROVE  /\ IsFiniteSet(FirstOccurrences(p))
         /\ Cardinality(FirstOccurrences(p)) \in Nat
         /\ Cardinality(FirstOccurrences(p)) <= Len(p)
         /\ FirstOccurrences(p) \subseteq 1 .. Len(p)
  <1>1. IsFiniteSet(1 .. Len(p)) /\ Cardinality(1 .. Len(p)) = Len(p)
    <2>1. /\ IsFiniteSet(1 .. Len(p))
          /\ Cardinality(1 .. Len(p)) = IF 1 > Len(p) THEN 0 ELSE Len(p) - 1 + 1
      BY FS_Interval, 1 \in Int, Len(p) \in Int
    <2> QED
      BY <2>1
  <1>2. FirstOccurrences(p) \in SUBSET (1 .. Len(p))
    BY DEF FirstOccurrences
  <1> QED
    BY <1>1, <1>2, FS_Subset, FS_CardinalityType

LEMMA RanksDiffer ==
  ASSUME NEW p, Len(p) \in Nat,
         NEW i \in FirstOccurrences(p), NEW j \in FirstOccurrences(p), i < j
  PROVE  Rank(p, i) \in Nat /\ Rank(p, j) \in Nat /\ Rank(p, i) < Rank(p, j)
  <1> DEFINE F == FirstOccurrences(p)
             A == { k \in F : k < i }
             B == { k \in F : k < j }
  <1>1. IsFiniteSet(F) /\ F \subseteq Nat
    BY FirstsAreFinite
  <1>2. A \in SUBSET B /\ B \in SUBSET F /\ i \in B /\ i \notin A
    BY <1>1
  <1>3. IsFiniteSet(B) /\ Cardinality(B) \in Nat
    BY <1>1, <1>2, FS_Subset, FS_CardinalityType
  <1> HIDE DEF A, B
  <1>4. /\ IsFiniteSet(A) /\ Cardinality(A) <= Cardinality(B)
        /\ Cardinality(B) = Cardinality(A) => B = A
    BY <1>2, <1>3, FS_Subset
  <1>5. Cardinality(A) \in Nat /\ Cardinality(A) # Cardinality(B)
    BY <1>2, <1>4, FS_CardinalityType
  <1> QED
    BY <1>3, <1>4, <1>5 DEF Rank, A, B

LEMMA RankBelow ==
  ASSUME NEW p, Len(p) \in Nat, NEW i \in FirstOccurrences(p)
  PROVE  Rank(p, i) \in Nat /\ Rank(p, i) < Cardinality(FirstOccurrences(p))
  <1> DEFINE F == FirstOccurrences(p)
             A == { k \in F : k < i }
  <1>1. IsFiniteSet(F) /\ F \subseteq Nat /\ Cardinality(F) \in Nat
    BY FirstsAreFinite
  <1>2. A \in SUBSET F /\ i \notin A /\ i \in F
    BY <1>1
  <1> HIDE DEF A
  <1>3. /\ IsFiniteSet(A) /\ Cardinality(A) <= Cardinality(F)
        /\ Cardinality(F) = Cardinality(A) => F = A
    BY <1>1, <1>2, FS_Subset
  <1>4. Cardinality(A) \in Nat /\ Cardinality(A) # Cardinality(F)
    BY <1>2, <1>3, FS_CardinalityType
  <1> QED
    BY <1>1, <1>3, <1>4 DEF Rank, A

LEMMA WordIsRank ==
  ASSUME NEW p, Len(p) \in Nat, NEW i \in FirstOccurrences(p)
  PROVE  WordOf(p, p[i].value) = Rank(p, i)
  <1> DEFINE first == CHOOSE j \in FirstOccurrences(p) : p[j].value = p[i].value
  <1>1. first \in FirstOccurrences(p) /\ p[first].value = p[i].value
    OBVIOUS
  <1> HIDE DEF first
  <1>2. first = i
    BY <1>1, OneFirst
  <1> QED
    BY <1>2 DEF WordOf, Rank, first

(* The word a pending load is patched to holds what the load wants. *)
LEMMA WordsHoldValues ==
  ASSUME NEW p, Len(p) \in Nat, NEW k \in 1 .. Len(p)
  PROVE  LET w == WordOf(p, p[k].value)
         IN  /\ w \in Nat /\ w < Cardinality(FirstOccurrences(p))
             /\ \A half \in 0 .. 1 : PoolHalfwords(p)[2 * w + half + 1]
                                       = Halfword("word", half, p[k].value)
  <1>1. PICK i \in FirstOccurrences(p) : p[i].value = p[k].value
    BY FirstOf
  <1> DEFINE w == Rank(p, i)
             N == Cardinality(FirstOccurrences(p))
  <1>2. w \in Nat /\ w < N /\ N \in Nat
    BY RankBelow, FirstsAreFinite
  <1>3. WordOf(p, p[k].value) = w
    BY <1>1, WordIsRank
  <1>4. ASSUME NEW j \in FirstOccurrences(p), WordOf(p, p[j].value) = w PROVE j = i
    <2>1. Rank(p, j) = Rank(p, i) /\ Rank(p, i) \in Nat
      BY <1>2, <1>4, WordIsRank
    <2>2. i \in Nat /\ j \in Nat
      BY DEF FirstOccurrences
    <2>3. ~ i < j /\ ~ j < i
      BY <2>1, RanksDiffer
    <2> QED
      BY <2>2, <2>3
  <1>5. ASSUME NEW half \in 0 .. 1
        PROVE  PoolHalfwords(p)[2 * w + half + 1] = Halfword("word", half, p[k].value)
    <2> DEFINE h == 2 * w + half + 1
               c == CHOOSE j \in FirstOccurrences(p) :
                      WordOf(p, p[j].value) = (h - 1) \div 2
    <2> HIDE DEF w, N
    <2>1. h \in 1 .. 2 * N
      BY <1>2
    <2>2. (h - 1) \div 2 = w
      BY <1>2
    <2>3. (h - 1) % 2 = half
      BY <1>2
    <2>4. WordOf(p, p[i].value) = w
      BY WordIsRank DEF w
    <2>5. c \in FirstOccurrences(p) /\ WordOf(p, p[c].value) = (h - 1) \div 2
      BY <2>2, <2>4
    <2>6. c = i
      BY <1>4, <2>2, <2>5
    <2>7. PoolHalfwords(p)[h] = Halfword("word", (h - 1) % 2, p[c].value)
      <3> HIDE DEF h
      <3> QED
        BY <2>1 DEF PoolHalfwords, c, N
    <2> QED
      BY <1>1, <2>3, <2>6, <2>7
  <1> QED
    BY <1>2, <1>3, <1>5

-----------------------------------------------------------------------------
(* A body under construction, but for the branches of X, whose labels have
   not been bound. *)

BranchOps == {"b", "bcc"}
DataOps == {"word", "slot", "nop"}

IsHalf(h) == h = Halfword(h.op, h.arg, h.value) /\ h.arg \in Int
IsCode(c) == IsSeq(c) /\ \A i \in 1 .. Len(c) : IsHalf(c[i])
Typed(a) == IsAsm(a) /\ IsCode(a.code)

(* Each pending load is where it was parked, none before the oldest. *)
Parked(a) ==
  \A p \in 1 .. Len(a.pending) :
    /\ a.pending[p].site >= a.pending[1].site
    /\ \E i \in 1 .. Len(a.code) :
         /\ a.pending[p].site = 2 * (i - 1)
         /\ a.code[i].op = "ldr" /\ a.code[i].value = a.pending[p].value

Waits(a, i) == \E p \in 1 .. Len(a.pending) : a.pending[p].site = 2 * (i - 1)

LoadedAt(c, i) ==
  LET word == 4 * ((2 * i + 2) \div 4) + c[i].arg
  IN  /\ word % 4 = 0 /\ word >= 0 /\ word + 2 < 2 * Len(c)
      /\ \A half \in 0 .. 1 : At(c, word + 2 * half) = Halfword("word", half, c[i].value)

Loaded(a) ==
  \A i \in 1 .. Len(a.code) :
    (a.code[i].op = "ldr" /\ ~ Waits(a, i)) => LoadedAt(a.code, i)

Wall(c, i) ==
  /\ i > 1
  /\ \/ c[i - 1].op \in {"word", "slot"}
     \/ c[i - 1].op \in {"b", "bx", "blx"}
     \/ c[i - 1].op = "nop" /\ i > 2
          /\ (c[i - 2].op \in {"word", "slot"} \/ c[i - 2].op \in {"b", "bx"})

Walled(c) == \A i \in 1 .. Len(c) : c[i].op \in {"word", "slot"} => Wall(c, i)

(* An address a branch may land on: an instruction, or where the next goes. *)
Lands(c, t) ==
  /\ t \in Nat /\ t % 2 = 0 /\ t <= 2 * Len(c)
  /\ t < 2 * Len(c) => At(c, t).op \notin DataOps

Resolved(c, X) ==
  \A i \in 1 .. Len(c) :
    (c[i].op \in BranchOps /\ 2 * (i - 1) \notin X) => Lands(c, Target(c, 2 * (i - 1)))

Below(c, X) ==
  \A i \in 1 .. Len(c) :
    (c[i].op \in BranchOps /\ 2 * (i - 1) \notin X) => Target(c, 2 * (i - 1)) < 2 * Len(c)

Body(a, X) ==
  /\ Typed(a) /\ Parked(a) /\ Loaded(a)
  /\ Walled(a.code) /\ Resolved(a.code, X)

(* How much longer the body may grow before the pool is out of reach of its
   oldest load. *)
Within(a, k) ==
  a.pending = << >> \/
    Pc(a) + 4 * Len(a.pending) - a.pending[1].site + k <= MaxReach + 4

(* What an emission leaves of the code there was, and what it puts next. *)
Extends(c, d) ==
  /\ Len(c) <= Len(d)
  /\ \A i \in 1 .. Len(c) :
       /\ d[i].op = c[i].op /\ d[i].value = c[i].value
       /\ c[i].op # "ldr" => d[i] = c[i]

Starts(c, d) == Len(c) < Len(d) => d[Len(c) + 1].op \notin DataOps

(* It adds no slot of a jump table; no address for a call to resume at. *)
NoSlots(c, d) == \A i \in 1 .. Len(d) : i > Len(c) => d[i].op # "slot"
NoResume(c, d) ==
  \A i \in 1 .. Len(d) :
    (i > Len(c) /\ d[i].op \in {"ldr", "movs"}) => d[i].value.kind # "resume"

Grows(c, d) == Extends(c, d) /\ Starts(c, d) /\ NoSlots(c, d)

(* The same code but for where branches and slots lead. *)
Repatched(c, d) ==
  /\ IsCode(d) /\ Len(d) = Len(c)
  /\ \A i \in 1 .. Len(c) :
       /\ d[i].op = c[i].op /\ d[i].value = c[i].value
       /\ c[i].op \notin {"b", "bcc", "slot"} => d[i] = c[i]

LEMMA CodeLen ==
  ASSUME NEW c, IsCode(c)
  PROVE  Len(c) \in Nat /\ IsSeq(c) /\ \A i \in 1 .. Len(c) : c[i].arg \in Int
  BY IsSeqShape DEF IsCode, IsHalf

LEMMA AtIndex ==
  ASSUME NEW c, NEW i \in Int
  PROVE  At(c, 2 * (i - 1)) = c[i] /\ Target(c, 2 * (i - 1)) = 2 * i + 2 + c[i].arg
  <1>1. (2 * (i - 1)) \div 2 + 1 = i
    OBVIOUS
  <1>2. At(c, 2 * (i - 1)) = c[i]
    BY <1>1 DEF At
  <1>3. 2 * (i - 1) + 4 = 2 * i + 2
    OBVIOUS
  <1> QED
    BY <1>2, <1>3 DEF Target

LEMMA PatchHalf ==
  ASSUME NEW h, IsHalf(h), NEW x \in Int
  PROVE  /\ IsHalf([h EXCEPT !.arg = x])
         /\ [h EXCEPT !.arg = x] = Halfword(h.op, x, h.value)
  BY DEF IsHalf, Halfword

LEMMA HalfIs ==
  ASSUME NEW op, NEW arg \in Int, NEW value
  PROVE  /\ IsHalf(Halfword(op, arg, value)) /\ Halfword(op, arg, value).op = op
         /\ Halfword(op, arg, value).arg = arg /\ Halfword(op, arg, value).value = value
  BY DEF IsHalf, Halfword

LEMMA AppendCode ==
  ASSUME NEW c, IsCode(c), NEW h, IsHalf(h)
  PROVE  IsCode(Append(c, h))
  <1>1. /\ Len(Append(c, h)) = Len(c) + 1 /\ Len(c) \in Nat /\ IsSeq(Append(c, h))
        /\ \A i \in 1 .. Len(c) : Append(c, h)[i] = c[i]
        /\ Append(c, h)[Len(c) + 1] = h
    BY AppendAt DEF IsCode
  <1>2. \A i \in 1 .. Len(c) + 1 : i \in 1 .. Len(c) \/ i = Len(c) + 1
    BY <1>1
  <1> QED
    BY <1>1, <1>2 DEF IsCode

(* What holds of an address to land on, and of a load, as the code grows. *)

LEMMA LandsStill ==
  ASSUME NEW c, NEW d, Len(c) \in Nat, Len(d) \in Nat, Len(c) <= Len(d),
         \A i \in 1 .. Len(c) : d[i].op = c[i].op,
         NEW t, Lands(c, t), t = 2 * Len(c) => Starts(c, d)
  PROVE  Lands(d, t)
  <1> DEFINE i == t \div 2 + 1
  <1>1. t \in Nat /\ t % 2 = 0 /\ t <= 2 * Len(c) /\ t = 2 * (i - 1) /\ i \in Nat
    BY DEF Lands
  <1>2. At(c, t) = c[i] /\ At(d, t) = d[i]
    BY DEF At
  <1>3. CASE t < 2 * Len(c)
    <2>1. i \in 1 .. Len(c)
      BY <1>1, <1>3
    <2>2. c[i].op \notin DataOps
      BY <1>2, <1>3 DEF Lands
    <2> QED
      BY <1>1, <1>2, <2>1, <2>2 DEF Lands
  <1>4. CASE t = 2 * Len(c)
    <2>1. i = Len(c) + 1
      BY <1>1, <1>4
    <2>2. t < 2 * Len(d) => d[i].op \notin DataOps
      BY <1>4, <2>1 DEF Starts
    <2> HIDE DEF i
    <2> QED
      BY <1>1, <1>2, <2>2 DEF Lands
  <1> QED
    BY <1>1, <1>3, <1>4

LEMMA LoadStill ==
  ASSUME NEW c, NEW d, Len(c) \in Nat, Len(d) \in Nat, Len(c) <= Len(d),
         \A j \in 1 .. Len(c) : c[j].op = "word" => d[j] = c[j],
         NEW i \in 1 .. Len(c), LoadedAt(c, i), c[i].arg \in Int, d[i] = c[i]
  PROVE  LoadedAt(d, i)
  <1> DEFINE word == 4 * ((2 * i + 2) \div 4) + c[i].arg
  <1>0. word \in Int
    OBVIOUS
  <1>1. /\ word % 4 = 0 /\ word >= 0 /\ word + 2 < 2 * Len(c)
        /\ \A half \in 0 .. 1 : At(c, word + 2 * half) = Halfword("word", half, c[i].value)
    BY Zenon DEF LoadedAt
  <1> HIDE DEF word
  <1>2. ASSUME NEW half \in 0 .. 1
        PROVE  At(d, word + 2 * half) = Halfword("word", half, c[i].value)
    <2> DEFINE j == (word + 2 * half) \div 2 + 1
    <2>0. word >= 0 /\ word + 2 < 2 * Len(c) /\ (half = 0 \/ half = 1)
      BY <1>1
    <2>1. j \in 1 .. Len(c)
      BY ONLY <1>0, <2>0, Len(c) \in Nat
    <2>2. At(c, word + 2 * half) = c[j] /\ At(d, word + 2 * half) = d[j]
      BY DEF At
    <2>3. c[j] = Halfword("word", half, c[i].value)
      BY <1>1, <2>2
    <2>4. c[j].op = "word"
      BY <2>3 DEF Halfword
    <2> HIDE DEF j
    <2> QED
      BY <2>1, <2>2, <2>3, <2>4
  <1>3. word + 2 < 2 * Len(d)
    BY <1>0, <1>1
  <1> QED
    BY <1>0, <1>1, <1>2, <1>3 DEF LoadedAt, word

-----------------------------------------------------------------------------
(* One more instruction. *)

LEMMA AppendGrows ==
  ASSUME NEW c, IsCode(c), NEW h, IsHalf(h), h.op \notin DataOps
  PROVE  LET d == Append(c, h)
         IN  /\ IsCode(d) /\ Len(d) = Len(c) + 1 /\ Len(c) \in Nat
             /\ \A i \in 1 .. Len(c) : d[i] = c[i]
             /\ d[Len(c) + 1] = h
             /\ Extends(c, d) /\ Starts(c, d)
  <1> DEFINE d == Append(c, h)
  <1>1. /\ Len(d) = Len(c) + 1 /\ Len(c) \in Nat
        /\ \A i \in 1 .. Len(c) : d[i] = c[i]
        /\ d[Len(c) + 1] = h
    BY AppendAt DEF IsCode
  <1>2. IsCode(d)
    BY AppendCode
  <1> HIDE DEF d
  <1>3. Extends(c, d) /\ Starts(c, d)
    BY <1>1 DEF Extends, Starts
  <1>4. Append(c, h) = d
    BY DEF d
  <1> QED
    BY <1>1, <1>2, <1>3, <1>4

LEMMA AppendWalls ==
  ASSUME NEW c, NEW d, NEW h, Len(c) \in Nat, Len(d) = Len(c) + 1,
         \A i \in 1 .. Len(c) : d[i] = c[i], d[Len(c) + 1] = h,
         h.op \notin DataOps, Walled(c)
  PROVE  Walled(d)
  <1> SUFFICES ASSUME NEW i \in 1 .. Len(d), d[i].op \in {"word", "slot"}
               PROVE  Wall(d, i)
    BY DEF Walled
  <1>1. i \in 1 .. Len(c)
    BY DEF DataOps
  <1>2. Wall(c, i) /\ d[i] = c[i]
    BY <1>1 DEF Walled
  <1>3. i > 1 /\ i - 1 \in 1 .. Len(c) /\ (i > 2 => i - 2 \in 1 .. Len(c))
    BY <1>1, <1>2 DEF Wall
  <1>4. d[i - 1] = c[i - 1] /\ (i > 2 => d[i - 2] = c[i - 2])
    BY <1>3
  <1> QED
    BY <1>2, <1>4 DEF Wall

LEMMA AppendResolves ==
  ASSUME NEW c, NEW d, NEW h, IsCode(c), Len(d) = Len(c) + 1,
         \A i \in 1 .. Len(c) : d[i] = c[i], d[Len(c) + 1] = h,
         h.op \notin DataOps, Starts(c, d),
         NEW X, NEW Y, X \subseteq Y, h.op \in BranchOps => 2 * Len(c) \in Y,
         Resolved(c, X)
  PROVE  Resolved(d, Y) /\ Below(d, Y)
  <1>0. Len(c) \in Nat
    BY CodeLen
  <1> SUFFICES ASSUME NEW i \in 1 .. Len(d), d[i].op \in BranchOps, 2 * (i - 1) \notin Y
               PROVE  /\ Lands(d, Target(d, 2 * (i - 1)))
                      /\ Target(d, 2 * (i - 1)) < 2 * Len(d)
    BY DEF Resolved, Below
  <1>1. i \in 1 .. Len(c)
    <2>1. i = Len(c) + 1 => 2 * (i - 1) = 2 * Len(c)
      BY <1>0
    <2> QED
      BY <1>0, <2>1
  <1>2. Target(d, 2 * (i - 1)) = Target(c, 2 * (i - 1))
    <2>1. i \in Int /\ d[i] = c[i]
      BY <1>0, <1>1
    <2> QED
      BY <2>1, AtIndex
  <1> DEFINE t == Target(c, 2 * (i - 1))
  <1>3. Lands(c, t)
    BY <1>1 DEF Resolved
  <1> HIDE DEF t
  <1>4. t < 2 * Len(d)
    BY <1>0, <1>3 DEF Lands
  <1>5. Lands(d, t)
    BY <1>0, <1>3, LandsStill
  <1> QED
    BY <1>2, <1>4, <1>5 DEF t

LEMMA AppendLoads ==
  ASSUME NEW c, NEW d, IsCode(c), Len(d) = Len(c) + 1,
         \A i \in 1 .. Len(c) : d[i] = c[i],
         NEW i \in 1 .. Len(c), LoadedAt(c, i)
  PROVE  LoadedAt(d, i)
  BY CodeLen, LoadStill

LEMMA EmitMakes ==
  ASSUME NEW a, Typed(a), NEW h
  PROVE  LET b == DoEmit(a, h)
         IN  /\ b.code = Append(a.code, h) /\ b.pending = a.pending
             /\ b.atomic = a.atomic /\ IsAsm(b)
  <1>1. DoEmit(a, h) = [code |-> Append(a.code, h), pending |-> a.pending, atomic |-> a.atomic]
    BY DEF DoEmit, Typed, IsAsm
  <1> QED
    BY <1>1 DEF IsAsm, Typed

LEMMA AppendBody ==
  ASSUME NEW a, NEW X, Body(a, X), NEW h, IsHalf(h), h.op \notin DataOps, h.op # "ldr",
         NEW Y, X \subseteq Y, h.op \in BranchOps => Pc(a) \in Y
  PROVE  LET b == DoEmit(a, h)
         IN  /\ Body(b, Y) /\ Below(b.code, Y)
             /\ Extends(a.code, b.code) /\ Starts(a.code, b.code)
             /\ b.pending = a.pending /\ b.atomic = a.atomic
             /\ Len(b.code) = Len(a.code) + 1 /\ b.code[Len(a.code) + 1] = h
             /\ \A i \in 1 .. Len(a.code) : b.code[i] = a.code[i]
  <1> DEFINE b == DoEmit(a, h)
             c == a.code
             d == b.code
  <1>0. IsCode(c) /\ Typed(a)
    BY DEF Body, Typed
  <1>1. d = Append(c, h) /\ b.pending = a.pending /\ b.atomic = a.atomic /\ IsAsm(b)
    BY <1>0, EmitMakes
  <1>2. /\ IsCode(d) /\ Len(d) = Len(c) + 1 /\ Len(c) \in Nat
        /\ \A i \in 1 .. Len(c) : d[i] = c[i]
        /\ d[Len(c) + 1] = h
        /\ Extends(c, d) /\ Starts(c, d)
    BY <1>0, <1>1, AppendGrows
  <1>3. Walled(c) /\ Resolved(c, X) /\ Loaded(a) /\ Parked(a) /\ Pc(a) = 2 * Len(c)
    BY DEF Body, Pc
  <1> HIDE DEF b, c, d
  <1>4. Walled(d)
    BY <1>2, <1>3, AppendWalls
  <1>5. Resolved(d, Y) /\ Below(d, Y)
    BY <1>0, <1>2, <1>3, AppendResolves
  <1>6. Parked(b)
    BY <1>1, <1>2, <1>3 DEF Parked, c, d
  <1>7. Loaded(b)
    <2> SUFFICES ASSUME NEW i \in 1 .. Len(d), d[i].op = "ldr", ~ Waits(b, i)
                 PROVE  LoadedAt(d, i)
      BY DEF Loaded, d
    <2>1. i \in 1 .. Len(c) /\ d[i] = c[i]
      BY <1>2
    <2>2. LoadedAt(c, i)
      BY <1>1, <1>3, <2>1 DEF Loaded, Waits, c
    <2> QED
      BY <1>0, <1>2, <2>1, <2>2, AppendLoads
  <1>8. Body(b, Y)
    BY <1>1, <1>2, <1>4, <1>5, <1>6, <1>7 DEF Body, Typed, d
  <1> QED
    BY <1>1, <1>2, <1>5, <1>8 DEF b, c, d

(* The load that parkPoolSite emits, and the site it notes. *)
LEMMA ParkBody ==
  ASSUME NEW a, NEW X, Body(a, X), NEW value,
         a.pending = << >> \/ a.pending[1].site <= Pc(a)
  PROVE  LET h == Halfword("ldr", 0, value)
             b == [DoEmit(a, h) EXCEPT
                     !.pending = Append(@, [site |-> Pc(a), value |-> value])]
         IN  /\ Body(b, X) /\ Below(b.code, X)
             /\ Extends(a.code, b.code) /\ Starts(a.code, b.code)
             /\ b.atomic = a.atomic /\ Len(b.pending) = Len(a.pending) + 1
             /\ b.pending[1].site = IF a.pending = << >> THEN Pc(a) ELSE a.pending[1].site
             /\ b.pending # << >>
             /\ Len(b.code) = Len(a.code) + 1 /\ b.code[Len(a.code) + 1] = h
  <1> DEFINE h == Halfword("ldr", 0, value)
             q == [site |-> Pc(a), value |-> value]
             e == DoEmit(a, h)
             b == [e EXCEPT !.pending = Append(@, q)]
             c == a.code
             d == b.code
  <1>0. IsCode(c) /\ Typed(a)
    BY DEF Body, Typed
  <1>1. e.code = Append(c, h) /\ e.pending = a.pending /\ e.atomic = a.atomic /\ IsAsm(e)
    BY <1>0, EmitMakes
  <1>2. IsHalf(h) /\ h.op = "ldr" /\ h.value = value /\ h.op \notin DataOps /\ h.op \notin BranchOps
    BY HalfIs DEF DataOps, BranchOps
  <1> HIDE DEF h, e, q
  <1>3. b = [code |-> Append(c, h), pending |-> Append(a.pending, q), atomic |-> a.atomic]
    <2> DEFINE r == Append(e.pending, q)
    <2> HIDE DEF r
    <2>1. e = [code |-> e.code, pending |-> e.pending, atomic |-> e.atomic]
      BY <1>1 DEF IsAsm
    <2>2. [e EXCEPT !.pending = r] = [code |-> e.code, pending |-> r, atomic |-> e.atomic]
      BY ONLY <2>1
    <2> QED
      BY <1>1, <2>2 DEF r
  <1>4. /\ IsSeq(Append(a.pending, q)) /\ Len(Append(a.pending, q)) = Len(a.pending) + 1
        /\ Len(a.pending) \in Nat
        /\ \A p \in 1 .. Len(a.pending) : Append(a.pending, q)[p] = a.pending[p]
        /\ Append(a.pending, q)[Len(a.pending) + 1] = q
    BY <1>0, AppendAt DEF Typed, IsAsm
  <1>5. d = Append(c, h) /\ b.pending = Append(a.pending, q) /\ b.atomic = a.atomic /\ IsAsm(b)
    BY <1>3, <1>4 DEF IsAsm
  <1> HIDE DEF b, c, d
  <1>6. /\ IsCode(d) /\ Len(d) = Len(c) + 1 /\ Len(c) \in Nat
        /\ \A i \in 1 .. Len(c) : d[i] = c[i]
        /\ d[Len(c) + 1] = h
        /\ Extends(c, d) /\ Starts(c, d)
    BY <1>0, <1>2, <1>5, AppendGrows
  <1>7. Walled(c) /\ Resolved(c, X) /\ Loaded(a) /\ Parked(a) /\ Pc(a) = 2 * Len(c)
    BY DEF Body, Pc, c
  <1>8. Walled(d)
    BY <1>2, <1>6, <1>7, AppendWalls
  <1>9. Resolved(d, X) /\ Below(d, X)
    BY <1>0, <1>2, <1>6, <1>7, AppendResolves
  <1>10. a.pending = << >> => Len(a.pending) = 0
    BY IsSeqEmpty
  <1>11. Len(a.pending) = 0 => a.pending = << >>
    BY <1>0, EmptySeq DEF Typed, IsAsm, IsSeq
  <1>12. q.site = 2 * Len(c) /\ q.value = value
    BY <1>7 DEF q
  <1> DEFINE n == Len(a.pending)
             first == b.pending[1].site
  <1>13. first = IF a.pending = << >> THEN Pc(a) ELSE a.pending[1].site
    <2>1. CASE n = 0
      BY <1>4, <1>5, <1>11, <1>7, <1>12, <2>1
    <2>2. CASE n # 0
      BY <1>4, <1>5, <1>10, <2>2
    <2> QED
      BY <2>1, <2>2
  <1>14. Parked(b)
    <2> SUFFICES ASSUME NEW p \in 1 .. n + 1
                 PROVE  /\ b.pending[p].site >= first
                        /\ \E i \in 1 .. Len(d) :
                             /\ b.pending[p].site = 2 * (i - 1)
                             /\ d[i].op = "ldr" /\ d[i].value = b.pending[p].value
      BY <1>4, <1>5 DEF Parked, d
    <2>1. CASE p = n + 1
      <3>1. b.pending[p] = q /\ q.site >= first
        BY <1>4, <1>5, <1>6, <1>7, <1>12, <1>13, <2>1
      <3>2. Len(c) + 1 \in 1 .. Len(d) /\ q.site = 2 * (Len(c) + 1 - 1)
        BY <1>6, <1>12
      <3> QED
        BY <1>2, <1>6, <1>12, <3>1, <3>2
    <2>2. CASE p \in 1 .. n
      <3>1. b.pending[p] = a.pending[p] /\ n # 0 /\ a.pending # << >>
        BY <1>4, <1>5, <1>10, <2>2
      <3>2. a.pending[p].site >= a.pending[1].site
        BY <1>7, <2>2 DEF Parked
      <3>3. PICK i \in 1 .. Len(c) : /\ a.pending[p].site = 2 * (i - 1)
                                     /\ c[i].op = "ldr" /\ c[i].value = a.pending[p].value
        BY <1>7, <2>2 DEF Parked, c
      <3>4. i \in 1 .. Len(d) /\ d[i] = c[i]
        BY <1>6
      <3> HIDE DEF first, n
      <3> QED
        BY <1>13, <3>1, <3>2, <3>3, <3>4
    <2> QED
      BY <1>4, <2>1, <2>2
  <1>15. Loaded(b)
    <2> SUFFICES ASSUME NEW i \in 1 .. Len(d), d[i].op = "ldr", ~ Waits(b, i)
                 PROVE  LoadedAt(d, i)
      BY DEF Loaded, d
    <2>1. i # Len(c) + 1
      <3>1. n + 1 \in 1 .. Len(b.pending) /\ b.pending[n + 1].site = 2 * Len(c)
        BY <1>4, <1>5, <1>12
      <3>2. i = Len(c) + 1 => 2 * (i - 1) = 2 * Len(c)
        BY <1>6
      <3> HIDE DEF n
      <3> QED
        BY <3>1, <3>2 DEF Waits
    <2>2. i \in 1 .. Len(c) /\ d[i] = c[i]
      BY <1>6, <2>1
    <2>3. ~ Waits(a, i)
      BY <1>4, <1>5 DEF Waits
    <2>4. LoadedAt(c, i)
      BY <1>7, <2>2, <2>3 DEF Loaded, c
    <2> QED
      BY <1>0, <1>6, <2>2, <2>4, AppendLoads
  <1>16. Body(b, X)
    BY <1>5, <1>6, <1>8, <1>9, <1>14, <1>15 DEF Body, Typed, d
  <1>17. b.pending # << >>
    BY <1>4, <1>5, IsSeqEmpty
  <1> QED
    BY <1>4, <1>5, <1>6, <1>9, <1>13, <1>16, <1>17 DEF b, c, d, e, h, q

-----------------------------------------------------------------------------
(* Patching branches and slots. *)

LEMMA SetCodeMakes ==
  ASSUME NEW a, IsAsm(a), NEW d
  PROVE  LET b == [a EXCEPT !.code = d]
         IN  /\ IsAsm(b) /\ b.code = d /\ b.pending = a.pending /\ b.atomic = a.atomic
  <1>1. [a EXCEPT !.code = d] = [code |-> d, pending |-> a.pending, atomic |-> a.atomic]
    BY DEF IsAsm
  <1> QED
    BY <1>1 DEF IsAsm

LEMMA RepatchBody ==
  ASSUME NEW a, NEW X, Body(a, X), NEW d, Repatched(a.code, d), NEW Y,
         \A i \in 1 .. Len(d) :
           (d[i].op \in BranchOps /\ 2 * (i - 1) \notin Y) =>
             \/ 2 * (i - 1) \notin X /\ d[i] = a.code[i]
             \/ Lands(a.code, Target(d, 2 * (i - 1)))
  PROVE  Body([a EXCEPT !.code = d], Y)
  <1> DEFINE c == a.code
             b == [a EXCEPT !.code = d]
  <1>1. IsCode(c) /\ IsCode(d) /\ Len(d) = Len(c) /\ IsAsm(a) /\ Len(c) \in Nat
    BY CodeLen DEF Body, Typed, Repatched
  <1>2. \A i \in 1 .. Len(c) :
          /\ d[i].op = c[i].op /\ d[i].value = c[i].value
          /\ c[i].op \notin {"b", "bcc", "slot"} => d[i] = c[i]
    BY DEF Repatched
  <1>3. IsAsm(b) /\ b.code = d /\ b.pending = a.pending
    BY <1>1, SetCodeMakes
  <1>4. Walled(c) /\ Resolved(c, X) /\ Loaded(a) /\ Parked(a)
    BY DEF Body
  <1>5. \A i \in 1 .. Len(d) :
           (d[i].op \in BranchOps /\ 2 * (i - 1) \notin Y) =>
             \/ 2 * (i - 1) \notin X /\ d[i] = c[i]
             \/ Lands(c, Target(d, 2 * (i - 1)))
    OBVIOUS
  <1> HIDE DEF b, c
  <1>6. Walled(d)
    <2> SUFFICES ASSUME NEW i \in 1 .. Len(d), d[i].op \in {"word", "slot"}
                 PROVE  Wall(d, i)
      BY DEF Walled
    <2>1. Wall(c, i)
      BY <1>1, <1>2, <1>4 DEF Walled
    <2>2. i > 1 /\ i - 1 \in 1 .. Len(c) /\ (i > 2 => i - 2 \in 1 .. Len(c))
      BY <1>1, <2>1 DEF Wall
    <2>3. d[i - 1].op = c[i - 1].op /\ (i > 2 => d[i - 2].op = c[i - 2].op)
      BY <1>2, <2>2
    <2> QED
      BY <2>1, <2>3 DEF Wall
  <1>7. Resolved(d, Y)
    <2> SUFFICES ASSUME NEW i \in 1 .. Len(d), d[i].op \in BranchOps, 2 * (i - 1) \notin Y
                 PROVE  Lands(d, Target(d, 2 * (i - 1)))
      BY DEF Resolved
    <2>1. i \in 1 .. Len(c) /\ i \in Int /\ c[i].op \in BranchOps
      BY <1>1, <1>2
    <2> DEFINE t == Target(d, 2 * (i - 1))
    <2>2. Lands(c, t)
      <3>1. d[i] = c[i] => t = Target(c, 2 * (i - 1))
        BY <2>1, AtIndex
      <3> QED
        BY <1>4, <1>5, <2>1, <3>1 DEF Resolved
    <2> HIDE DEF t
    <2>3. Lands(d, t)
      BY <1>1, <1>2, <2>2, LandsStill DEF Starts
    <2> QED
      BY <2>3 DEF t
  <1>8. Parked(b)
    <2> SUFFICES ASSUME NEW p \in 1 .. Len(b.pending)
                 PROVE  /\ b.pending[p].site >= b.pending[1].site
                        /\ \E i \in 1 .. Len(b.code) :
                             /\ b.pending[p].site = 2 * (i - 1)
                             /\ b.code[i].op = "ldr"
                             /\ b.code[i].value = b.pending[p].value
      BY DEF Parked
    <2>0. p \in 1 .. Len(a.pending)
      BY <1>3
    <2>1. a.pending[p].site >= a.pending[1].site
      BY <1>4, <2>0 DEF Parked
    <2>2. PICK i \in 1 .. Len(c) :
            /\ a.pending[p].site = 2 * (i - 1)
            /\ c[i].op = "ldr" /\ c[i].value = a.pending[p].value
      BY <1>4, <2>0 DEF Parked, c
    <2>3. i \in 1 .. Len(d) /\ d[i].op = "ldr" /\ d[i].value = c[i].value
      BY <1>1, <1>2, <2>2
    <2> QED
      BY <1>3, <2>1, <2>2, <2>3
  <1>9. Loaded(b)
    <2> SUFFICES ASSUME NEW i \in 1 .. Len(d), d[i].op = "ldr", ~ Waits(b, i)
                 PROVE  LoadedAt(d, i)
      BY <1>3 DEF Loaded
    <2>1. i \in 1 .. Len(c) /\ d[i] = c[i]
      BY <1>1, <1>2
    <2>2. LoadedAt(c, i)
      BY <1>3, <1>4, <2>1 DEF Loaded, Waits, c
    <2>3. \A j \in 1 .. Len(c) : c[j].op = "word" => d[j] = c[j]
      BY <1>2
    <2>4. c[i].arg \in Int
      BY <1>1, <2>1, CodeLen
    <2> QED
      BY <1>1, <2>1, <2>2, <2>3, <2>4, LoadStill
  <1> QED
    BY <1>1, <1>3, <1>6, <1>7, <1>8, <1>9 DEF Body, Typed, b

LEMMA PatchBranchMakes ==
  ASSUME NEW c, IsCode(c), NEW S, NEW t \in Int,
         \A i \in 1 .. Len(c) : 2 * (i - 1) \in S => c[i].op \in BranchOps
  PROVE  LET d == PatchBranch(c, S, t)
         IN  /\ Repatched(c, d)
             /\ \A i \in 1 .. Len(c) :
                  IF 2 * (i - 1) \in S THEN Target(d, 2 * (i - 1)) = t ELSE d[i] = c[i]
  <1> DEFINE d == PatchBranch(c, S, t)
  <1>1. Len(c) \in Nat
    BY CodeLen
  <1>2. IsSeq(d) /\ Len(d) = Len(c)
    <2>1. DOMAIN d = 1 .. Len(c) /\ d = [i \in 1 .. Len(c) |-> d[i]]
      BY DEF PatchBranch
    <2> HIDE DEF d
    <2> QED
      BY <1>1, <2>1, IsSeqFun
  <1>3. ASSUME NEW i \in 1 .. Len(c)
        PROVE  /\ IsHalf(d[i]) /\ d[i].op = c[i].op /\ d[i].value = c[i].value
               /\ c[i].op \notin {"b", "bcc", "slot"} => d[i] = c[i]
               /\ IF 2 * (i - 1) \in S THEN Target(d, 2 * (i - 1)) = t ELSE d[i] = c[i]
    <2>0. IsHalf(c[i]) /\ i \in Int
      BY <1>1 DEF IsCode
    <2>1. CASE 2 * (i - 1) \in S
      <3> DEFINE x == t - (2 * i + 2)
      <3>1. d[i] = [c[i] EXCEPT !.arg = x]
        BY <2>1 DEF PatchBranch
      <3>2. x \in Int /\ 2 * i + 2 + x = t
        BY <2>0
      <3> HIDE DEF d, x
      <3>3. d[i] = Halfword(c[i].op, x, c[i].value) /\ IsHalf(d[i])
        BY <2>0, <3>1, <3>2, PatchHalf
      <3>4. d[i].op = c[i].op /\ d[i].value = c[i].value /\ d[i].arg = x
        BY <3>3 DEF Halfword
      <3>5. Target(d, 2 * (i - 1)) = t
        BY <2>0, <3>2, <3>4, AtIndex
      <3>6. c[i].op \in {"b", "bcc", "slot"}
        BY <2>1 DEF BranchOps
      <3> QED
        BY <2>1, <3>3, <3>4, <3>5, <3>6
    <2>2. CASE 2 * (i - 1) \notin S
      <3>1. d[i] = c[i]
        BY <2>2 DEF PatchBranch
      <3> HIDE DEF d
      <3> QED
        BY <2>0, <2>2, <3>1
    <2> QED
      BY <2>1, <2>2
  <1> HIDE DEF d
  <1>4. Repatched(c, d)
    BY <1>2, <1>3 DEF Repatched, IsCode
  <1> QED
    BY <1>3, <1>4 DEF d

(* Patching the branches of S to go to t, where code may go, resolves them;
   to go anywhere else leaves them to be bound. *)
Patched(a, b, X, S, t) ==
  /\ b.pending = a.pending /\ b.atomic = a.atomic /\ Repatched(a.code, b.code)
  /\ \A i \in 1 .. Len(a.code) :
       IF 2 * (i - 1) \in S THEN Target(b.code, 2 * (i - 1)) = t ELSE b.code[i] = a.code[i]
  /\ Body(b, X \cup S)
  /\ Lands(a.code, t) => Body(b, X \ S)

LEMMA PatchBody ==
  ASSUME NEW a, NEW X, Body(a, X), NEW S, NEW t \in Int,
         \A i \in 1 .. Len(a.code) : 2 * (i - 1) \in S => a.code[i].op \in BranchOps
  PROVE  Patched(a, [a EXCEPT !.code = PatchBranch(a.code, S, t)], X, S, t)
  <1> DEFINE c == a.code
             d == PatchBranch(c, S, t)
             b == [a EXCEPT !.code = d]
  <1>1. IsCode(c) /\ IsAsm(a)
    BY DEF Body, Typed
  <1>2. /\ Repatched(c, d)
        /\ \A i \in 1 .. Len(c) :
             IF 2 * (i - 1) \in S THEN Target(d, 2 * (i - 1)) = t ELSE d[i] = c[i]
    BY <1>1, PatchBranchMakes
  <1> HIDE DEF d
  <1>3. b.code = d /\ b.pending = a.pending /\ b.atomic = a.atomic
    BY <1>1, SetCodeMakes
  <1>4. Len(d) = Len(c)
    BY <1>2 DEF Repatched
  <1>5. Body(b, X \cup S)
    BY <1>2, <1>4, RepatchBody
  <1>6. ASSUME Lands(c, t) PROVE Body(b, X \ S)
    <2>1. ASSUME NEW i \in 1 .. Len(d), 2 * (i - 1) \notin X \ S
          PROVE  \/ 2 * (i - 1) \notin X /\ d[i] = c[i]
                 \/ Lands(c, Target(d, 2 * (i - 1)))
      BY <1>2, <1>4, <1>6, <2>1
    <2> QED
      BY <1>2, <2>1, RepatchBody
  <1> HIDE DEF b
  <1>7. Patched(a, b, X, S, t)
    BY <1>2, <1>3, <1>5, <1>6 DEF Patched
  <1> QED
    BY <1>7 DEF b, d

-----------------------------------------------------------------------------
(* Spilling the pool. *)

LEMMA RemainderOfSmall ==
  ASSUME NEW w \in Nat \ {0}, NEW x \in 0 .. w - 1
  PROVE  (x % w) = x
  <1> DEFINE p == x \div w
             s == (x % w)
  <1>1. s \in 0 .. w - 1 /\ p \in Nat /\ x = w * p + s
    OBVIOUS
  <1> HIDE DEF p, s
  <1>2. ~ p >= 1
    <2> SUFFICES ASSUME p >= 1 PROVE FALSE
      OBVIOUS
    <2>1. w * p >= w * 1
      BY <1>1
    <2> QED
      BY <1>1, <2>1
  <1>3. p = 0
    BY <1>1, <1>2
  <1>4. w * p = 0
    BY <1>3
  <1> QED
    BY <1>1, <1>4 DEF s

(* The displacement of a load whose oldest companion is within reach: what
   patchPoolSite counts in words fits, and leads to the word. *)
WordInReach(M, len, i, pool, n, K, w, oldest, x) ==
  /\ M \in Nat /\ M % 4 = 0 /\ len \in Nat /\ i \in 1 .. len
  /\ pool \in Nat /\ pool % 4 = 0 /\ pool >= 2 * len /\ pool <= 2 * len + 4
  /\ n \in Nat /\ K \in Nat /\ K <= n /\ w \in Nat /\ w < K
  /\ oldest \in Nat /\ oldest <= 2 * (i - 1) /\ 2 * len + 4 * n - oldest <= M + 4
  /\ x = pool + 4 * w - 4 * ((2 * i + 2) \div 4)

LEMMA Displacement ==
  ASSUME NEW M, NEW len, NEW i, NEW pool, NEW n, NEW K, NEW w, NEW oldest, NEW x,
         WordInReach(M, len, i, pool, n, K, w, oldest, x)
  PROVE  /\ (x % (M + 4)) \in Nat
         /\ 4 * ((2 * i + 2) \div 4) + (x % (M + 4)) = pool + 4 * w
  <1> USE DEF WordInReach
  <1> DEFINE base == 4 * ((2 * i + 2) \div 4)
  <1>0. x = pool + 4 * w - base
    OBVIOUS
  <1>1. base \in Nat /\ base <= 2 * i + 2 /\ base >= 2 * i /\ base % 4 = 0
    OBVIOUS
  <1> HIDE DEF base
  <1>2. 2 * i <= pool
    OBVIOUS
  <1>3. x >= 0 /\ x \in Int
    BY <1>0, <1>1, <1>2
  <1>4. x < M + 4
    BY <1>0, <1>1
  <1>5. x \in 0 .. (M + 4) - 1 /\ M + 4 \in Nat \ {0}
    BY <1>1, <1>3, <1>4
  <1>6. (x % (M + 4)) = x
    BY <1>5, RemainderOfSmall
  <1>7. base + x = pool + 4 * w
    BY <1>0, <1>1
  <1> QED
    BY <1>5, <1>6, <1>7 DEF base

GuardOf(c, guard) == IF guard THEN Append(c, Isn("b")) ELSE c
PadOf(c, guard) ==
  LET g == GuardOf(c, guard) IN IF Len(g) % 2 = 0 THEN g ELSE Append(g, Isn("nop"))

Padded(c, guard, g) ==
  /\ IsCode(g) /\ Len(g) \in Nat /\ Len(g) % 2 = 0 /\ Len(c) \in Nat
  /\ Len(g) >= Len(c) /\ Len(g) <= Len(c) + 2
  /\ \A i \in 1 .. Len(c) : g[i] = c[i]
  /\ guard => Len(g) > Len(c) /\ g[Len(c) + 1] = Isn("b")
  /\ \A i \in 1 .. Len(g) :
       \/ i <= Len(c)
       \/ guard /\ i = Len(c) + 1
       \/ /\ g[i] = Isn("nop") /\ i = Len(g)
          /\ i = Len(c) + (IF guard THEN 2 ELSE 1)

LEMMA Padding ==
  ASSUME NEW c, IsCode(c), NEW guard \in BOOLEAN
  PROVE  Padded(c, guard, PadOf(c, guard))
  <1>0. IsHalf(Isn("b")) /\ IsHalf(Isn("nop"))
    BY HalfIs DEF Isn
  <1> DEFINE f == GuardOf(c, guard)
             k == IF guard THEN 1 ELSE 0
             g == PadOf(c, guard)
  <1>1. /\ IsCode(f) /\ Len(f) = Len(c) + k /\ Len(c) \in Nat
        /\ \A i \in 1 .. Len(c) : f[i] = c[i]
        /\ guard => f[Len(c) + 1] = Isn("b")
    <2>1. CASE guard
      BY <1>0, <2>1, AppendCode, AppendAt DEF GuardOf, IsCode
    <2>2. CASE ~ guard
      BY <2>2, CodeLen DEF GuardOf
    <2> QED
      BY <2>1, <2>2
  <1> HIDE DEF f
  <1>2. CASE Len(f) % 2 = 0
    <2>1. g = f
      BY <1>2 DEF PadOf, f
    <2>2. k \in 0 .. 1 /\ (guard => k = 1) /\ (~ guard => k = 0)
      OBVIOUS
    <2> HIDE DEF g, k
    <2>3. Padded(c, guard, f)
      BY <1>1, <1>2, <2>2 DEF Padded
    <2> QED
      BY <2>1, <2>3 DEF g
  <1>3. CASE Len(f) % 2 # 0
    <2>1. g = Append(f, Isn("nop"))
      BY <1>3 DEF PadOf, f
    <2>2. /\ Len(g) = Len(f) + 1
          /\ \A i \in 1 .. Len(f) : g[i] = f[i]
          /\ g[Len(f) + 1] = Isn("nop")
      BY <1>1, <2>1, AppendAt DEF IsCode
    <2>3. IsCode(g)
      BY <1>0, <1>1, <2>1, AppendCode
    <2> HIDE DEF g
    <2>4. Len(f) \in Nat /\ k \in 0 .. 1 /\ (guard => k = 1) /\ (~ guard => k = 0)
      BY <1>1
    <2> HIDE DEF k
    <2>5. Len(g) % 2 = 0 /\ Len(g) \in Nat
      BY <1>3, <2>2, <2>4
    <2>6. \A i \in 1 .. Len(c) : g[i] = c[i]
      BY <1>1, <2>2, <2>4
    <2>7. guard => Len(g) > Len(c) /\ g[Len(c) + 1] = Isn("b")
      BY <1>1, <2>2, <2>4
    <2>8. ASSUME NEW i \in 1 .. Len(g), ~ i <= Len(c), ~ (guard /\ i = Len(c) + 1)
          PROVE  /\ g[i] = Isn("nop") /\ i = Len(g)
                 /\ i = Len(c) + (IF guard THEN 2 ELSE 1)
      BY <1>1, <2>2, <2>4, <2>8
    <2>9. Padded(c, guard, g)
      BY <1>1, <2>2, <2>3, <2>4, <2>5, <2>6, <2>7, <2>8 DEF Padded
    <2> QED
      BY <2>9 DEF g
  <1> QED
    BY <1>2, <1>3

LEMMA PoolCode ==
  ASSUME NEW p, Len(p) \in Nat
  PROVE  LET q == PoolHalfwords(p)
         IN  /\ IsCode(q) /\ Len(q) = 2 * Cardinality(FirstOccurrences(p)) /\ Len(q) \in Nat
             /\ \A h \in 1 .. Len(q) : q[h].op = "word"
  <1> DEFINE n == 2 * Cardinality(FirstOccurrences(p))
             q == PoolHalfwords(p)
  <1>1. n \in Nat
    BY FirstsAreFinite
  <1>2. IsSeq(q) /\ Len(q) = n
    <2>1. DOMAIN q = 1 .. n /\ q = [h \in 1 .. n |-> q[h]]
      BY DEF PoolHalfwords
    <2> HIDE DEF q, n
    <2> QED
      BY <1>1, <2>1, IsSeqFun
  <1>3. ASSUME NEW h \in 1 .. n PROVE IsHalf(q[h]) /\ q[h].op = "word"
    <2> DEFINE i == CHOOSE i \in FirstOccurrences(p) : WordOf(p, p[i].value) = (h - 1) \div 2
    <2>1. q[h] = Halfword("word", (h - 1) % 2, p[i].value)
      BY DEF PoolHalfwords
    <2> HIDE DEF q, i
    <2>2. (h - 1) % 2 \in Int
      BY <1>1
    <2> QED
      BY <2>1, <2>2, HalfIs
  <1> HIDE DEF q, n
  <1> QED
    BY <1>1, <1>2, <1>3 DEF IsCode, q, n

LEMMA PatchLoadsMakes ==
  ASSUME NEW c, IsCode(c), NEW p, NEW pool \in Int, MaxReach \in Nat,
         \A i \in 1 .. Len(c) : (\E k \in 1 .. Len(p) : p[k].site = 2 * (i - 1)) =>
           WordOf(p, c[i].value) \in Nat
  PROVE  LET d == PatchLoads(c, p, pool)
         IN  /\ IsCode(d) /\ Len(d) = Len(c)
             /\ \A i \in 1 .. Len(c) :
                  IF \E k \in 1 .. Len(p) : p[k].site = 2 * (i - 1)
                  THEN d[i] = Halfword(c[i].op,
                                (pool + 4 * WordOf(p, c[i].value) - 4 * ((2 * i + 2) \div 4))
                                  % (MaxReach + 4), c[i].value)
                  ELSE d[i] = c[i]
  <1> DEFINE d == PatchLoads(c, p, pool)
  <1>1. Len(c) \in Nat
    BY CodeLen
  <1>2. IsSeq(d) /\ Len(d) = Len(c)
    <2>1. DOMAIN d = 1 .. Len(c) /\ d = [i \in 1 .. Len(c) |-> d[i]]
      BY DEF PatchLoads
    <2> HIDE DEF d
    <2> QED
      BY <1>1, <2>1, IsSeqFun
  <1>3. ASSUME NEW i \in 1 .. Len(c)
        PROVE  /\ IsHalf(d[i])
               /\ IF \E k \in 1 .. Len(p) : p[k].site = 2 * (i - 1)
                  THEN d[i] = Halfword(c[i].op,
                                (pool + 4 * WordOf(p, c[i].value) - 4 * ((2 * i + 2) \div 4))
                                  % (MaxReach + 4), c[i].value)
                  ELSE d[i] = c[i]
    <2>0. IsHalf(c[i]) /\ i \in Int
      BY <1>1 DEF IsCode
    <2> DEFINE P == \E k \in 1 .. Len(p) : p[k].site = 2 * (i - 1)
               w == WordOf(p, c[i].value)
               y == pool + 4 * w - 4 * ((2 * i + 2) \div 4)
               x == y % (MaxReach + 4)
    <2>1. CASE P
      <3>1. d[i] = [c[i] EXCEPT !.arg = x]
        BY <2>1 DEF PatchLoads
      <3>2. w \in Nat
        BY <2>1
      <3> HIDE DEF w
      <3>3. y \in Int
        BY <2>0, <3>2
      <3> HIDE DEF y
      <3>4. x \in Int
        BY <3>3
      <3> HIDE DEF d, x
      <3>5. d[i] = Halfword(c[i].op, x, c[i].value) /\ IsHalf(d[i])
        BY <2>0, <3>1, <3>4, PatchHalf
      <3> QED
        BY <2>1, <3>5 DEF x, y, w
    <2>2. CASE ~ P
      <3>1. d[i] = c[i]
        BY <2>2 DEF PatchLoads
      <3> HIDE DEF d
      <3> QED
        BY <2>0, <2>2, <3>1
    <2> QED
      BY <2>1, <2>2
  <1> HIDE DEF d
  <1>4. IsCode(d)
    BY <1>2, <1>3 DEF IsCode
  <1> QED
    BY <1>2, <1>3, <1>4 DEF d

Spill(a, guard) ==
  LET g == PadOf(a.code, guard)
  IN  PatchLoads(g, a.pending, 2 * Len(g)) \o PoolHalfwords(a.pending)

(* The code with its pool spilled: d of the code of a, padded to g. *)
Spilled(a, guard, g, d) ==
  /\ IsCode(d) /\ Len(d) = Len(g) + 2 * Cardinality(FirstOccurrences(a.pending))
  /\ \A i \in 1 .. Len(a.code) :
       /\ d[i].op = a.code[i].op /\ d[i].value = a.code[i].value
       /\ ~ Waits(a, i) => d[i] = a.code[i]
       /\ Waits(a, i) => a.code[i].op = "ldr" /\ LoadedAt(d, i)
  /\ guard => d[Len(a.code) + 1].op = "b"
  /\ \A i \in 1 .. Len(d) :
       \/ i <= Len(a.code)
       \/ guard /\ i = Len(a.code) + 1
       \/ /\ d[i].op = "nop" /\ i = Len(g)
          /\ i = Len(a.code) + (IF guard THEN 2 ELSE 1)
       \/ d[i].op = "word" /\ i > Len(g)

LEMMA WaitsAreLoads ==
  ASSUME NEW a, IsCode(a.code), Parked(a), NEW i \in Nat, NEW p \in 1 .. Len(a.pending),
         a.pending[p].site = 2 * (i - 1)
  PROVE  /\ i \in 1 .. Len(a.code) /\ a.code[i].op = "ldr"
         /\ a.code[i].value = a.pending[p].value
         /\ a.pending[1].site <= 2 * (i - 1)
  <1>1. PICK j \in 1 .. Len(a.code) :
          /\ a.pending[p].site = 2 * (j - 1)
          /\ a.code[j].op = "ldr" /\ a.code[j].value = a.pending[p].value
    BY DEF Parked
  <1>2. a.pending[p].site >= a.pending[1].site
    BY DEF Parked
  <1>3. 1 \in 1 .. Len(a.pending)
    OBVIOUS
  <1>4. a.pending[1].site \in Int
    BY <1>3 DEF Parked
  <1>5. j = i
    BY <1>1
  <1> QED
    BY <1>1, <1>2, <1>4, <1>5

LEMMA SpillMakes ==
  ASSUME NEW a, NEW X, Body(a, X), a.pending # << >>, Within(a, 0), NEW guard \in BOOLEAN,
         MaxReach \in Nat, MaxReach % 4 = 0
  PROVE  Spilled(a, guard, PadOf(a.code, guard), Spill(a, guard))
  <1> DEFINE c == a.code
             p == a.pending
             g == PadOf(c, guard)
             pat == PatchLoads(g, p, 2 * Len(g))
             q == PoolHalfwords(p)
             K == Cardinality(FirstOccurrences(p))
             d == Spill(a, guard)
  <1>1. IsCode(c) /\ Parked(a) /\ IsSeq(p) /\ Len(p) \in Nat /\ Len(p) > 0
    <2>1. IsCode(c) /\ Parked(a) /\ IsSeq(p)
      BY DEF Body, Typed, IsAsm
    <2>2. Len(p) \in Nat /\ Len(p) # 0
      BY <2>1, EmptySeq, LenProperties DEF IsSeq
    <2> QED
      BY <2>1, <2>2
  <1>2. Padded(c, guard, g)
    BY <1>1, Padding
  <1> HIDE DEF g
  <1>a. /\ IsCode(g) /\ Len(g) \in Nat /\ Len(g) % 2 = 0 /\ Len(c) \in Nat
        /\ Len(g) >= Len(c) /\ Len(g) <= Len(c) + 2
        /\ \A i \in 1 .. Len(c) : g[i] = c[i]
    BY <1>2 DEF Padded
  <1>3. ASSUME NEW i \in 1 .. Len(g), NEW k \in 1 .. Len(p), p[k].site = 2 * (i - 1)
        PROVE  /\ i \in 1 .. Len(c) /\ c[i].op = "ldr" /\ c[i].value = p[k].value
               /\ p[1].site <= 2 * (i - 1) /\ g[i] = c[i]
    <2>1. i \in Nat
      BY <1>2 DEF Padded
    <2>2. /\ i \in 1 .. Len(c) /\ c[i].op = "ldr" /\ c[i].value = p[k].value
          /\ p[1].site <= 2 * (i - 1)
      BY <1>1, <1>3, <2>1, WaitsAreLoads
    <2> QED
      BY <1>2, <2>2 DEF Padded
  <1>4. /\ IsCode(pat) /\ Len(pat) = Len(g)
        /\ \A i \in 1 .. Len(g) :
             IF \E k \in 1 .. Len(p) : p[k].site = 2 * (i - 1)
             THEN pat[i] = Halfword(g[i].op,
                             (2 * Len(g) + 4 * WordOf(p, g[i].value)
                                - 4 * ((2 * i + 2) \div 4)) % (MaxReach + 4), g[i].value)
             ELSE pat[i] = g[i]
    <2>1. IsCode(g) /\ 2 * Len(g) \in Int
      BY <1>2 DEF Padded
    <2>2. ASSUME NEW i \in 1 .. Len(g), \E k \in 1 .. Len(p) : p[k].site = 2 * (i - 1)
          PROVE  WordOf(p, g[i].value) \in Nat
      <3>1. PICK k \in 1 .. Len(p) : p[k].site = 2 * (i - 1)
        BY <2>2
      <3>2. g[i].value = p[k].value
        BY <1>3, <3>1
      <3> QED
        BY <1>1, <3>2, WordsHoldValues
    <2> QED
      BY <2>1, <2>2, PatchLoadsMakes
  <1> HIDE DEF pat
  <1>5. /\ IsCode(q) /\ Len(q) = 2 * K /\ Len(q) \in Nat /\ K \in Nat /\ K <= Len(p)
        /\ \A h \in 1 .. Len(q) : q[h].op = "word"
    BY <1>1, PoolCode, FirstsAreFinite
  <1> HIDE DEF q, K
  <1>6. d = pat \o q
    BY DEF Spill, pat, q, g
  <1> HIDE DEF d
  <1>7. /\ IsSeq(d) /\ Len(d) = Len(g) + 2 * K /\ Len(g) \in Nat
        /\ \A i \in 1 .. Len(g) : d[i] = pat[i]
        /\ \A i \in 1 .. 2 * K : d[Len(g) + i] = q[i]
    <2>1. IsSeq(pat) /\ IsSeq(q)
      BY <1>4, <1>5 DEF IsCode
    <2>2. /\ IsSeq(d) /\ Len(d) = Len(pat) + Len(q)
          /\ \A i \in 1 .. Len(pat) : d[i] = pat[i]
          /\ \A i \in 1 .. Len(q) : d[Len(pat) + i] = q[i]
      <3> DEFINE e == pat \o q
      <3>1. /\ IsSeq(e) /\ Len(e) = Len(pat) + Len(q)
            /\ \A i \in 1 .. Len(pat) : e[i] = pat[i]
            /\ \A i \in 1 .. Len(q) : e[Len(pat) + i] = q[i]
        BY <2>1, ConcatAt
      <3> HIDE DEF e
      <3>2. d = e
        BY <1>6 DEF e
      <3> QED
        BY <3>1, <3>2
    <2>3. Len(pat) = Len(g) /\ Len(q) = 2 * K
      BY <1>4, <1>5
    <2> QED
      BY <1>a, <2>2, <2>3
  <1>8. \A i \in 1 .. Len(d) : i \in 1 .. Len(g) \/ (i - Len(g) \in 1 .. 2 * K /\ i = Len(g) + (i - Len(g)))
    BY <1>5, <1>7
  <1>9. IsCode(d)
    <2> SUFFICES ASSUME NEW i \in 1 .. Len(d) PROVE IsHalf(d[i])
      BY <1>7 DEF IsCode
    <2>1. CASE i \in 1 .. Len(g)
      BY <1>4, <1>7, <2>1 DEF IsCode
    <2>2. CASE i - Len(g) \in 1 .. 2 * K /\ i = Len(g) + (i - Len(g))
      BY <1>5, <1>7, <2>2 DEF IsCode
    <2> QED
      BY <1>8, <2>1, <2>2
  <1>10. ASSUME NEW i \in 1 .. Len(c)
         PROVE  /\ d[i].op = c[i].op /\ d[i].value = c[i].value
                /\ ~ Waits(a, i) => d[i] = c[i]
                /\ Waits(a, i) => c[i].op = "ldr" /\ LoadedAt(d, i)
    <2>0. i \in 1 .. Len(g) /\ g[i] = c[i] /\ d[i] = pat[i] /\ i \in Nat
      <3>1. i \in 1 .. Len(g) /\ i \in Nat
        BY <1>a
      <3> QED
        BY <1>a, <1>7, <3>1
    <2>1. CASE ~ Waits(a, i)
      <3>1. ~ \E k \in 1 .. Len(p) : p[k].site = 2 * (i - 1)
        BY <2>1 DEF Waits
      <3> QED
        BY <1>4, <2>0, <2>1, <3>1
    <2>2. CASE Waits(a, i)
      <3>1. PICK k \in 1 .. Len(p) : p[k].site = 2 * (i - 1)
        BY <2>2 DEF Waits
      <3>2. c[i].op = "ldr" /\ c[i].value = p[k].value /\ p[1].site <= 2 * (i - 1)
        BY <1>3, <2>0, <3>1
      <3> DEFINE w == WordOf(p, p[k].value)
                 x == 2 * Len(g) + 4 * w - 4 * ((2 * i + 2) \div 4)
      <3>3. /\ w \in Nat /\ w < K
            /\ \A half \in 0 .. 1 : q[2 * w + half + 1] = Halfword("word", half, p[k].value)
        BY <1>1, WordsHoldValues, Zenon DEF q, K
      <3>4. d[i] = Halfword("ldr", x % (MaxReach + 4), c[i].value)
        BY <1>4, <2>0, <3>1, <3>2
      <3> HIDE DEF w
      <3>5. /\ (x % (MaxReach + 4)) \in Nat
            /\ 4 * ((2 * i + 2) \div 4) + (x % (MaxReach + 4)) = 2 * Len(g) + 4 * w
        <4>1. /\ 2 * Len(g) \in Nat /\ (2 * Len(g)) % 4 = 0 /\ Len(c) \in Nat
              /\ 2 * Len(g) >= 2 * Len(c) /\ 2 * Len(g) <= 2 * Len(c) + 4
          BY <1>2 DEF Padded
        <4>2. p[1].site \in Nat
          <5>1. 1 \in 1 .. Len(p)
            BY <1>1
          <5>2. PICK j \in 1 .. Len(c) : p[1].site = 2 * (j - 1)
            BY <1>1, <5>1 DEF Parked
          <5> QED
            BY <5>2, <4>1
        <4>3. 2 * Len(c) + 4 * Len(p) - p[1].site <= MaxReach + 4
          <5>1. 2 * Len(c) + 4 * Len(p) - p[1].site + 0 <= MaxReach + 4
            BY DEF Within, Pc
          <5>2. Len(p) \in Nat
            BY <1>1
          <5>3. Len(c) \in Nat
            BY <4>1
          <5>4. ASSUME NEW r \in Int, r + 0 <= MaxReach + 4 PROVE r <= MaxReach + 4
            BY ONLY <5>4
          <5>5. 2 * Len(c) + 4 * Len(p) - p[1].site \in Int
            BY ONLY <4>2, <5>2, <5>3
          <5> QED
            BY ONLY <5>1, <5>4, <5>5
        <4>4. Len(p) \in Nat /\ K \in Nat /\ K <= Len(p)
          BY <1>1, <1>5
        <4>5. w \in Nat /\ w < K
          BY <3>3
        <4>6. x = 2 * Len(g) + 4 * w - 4 * ((2 * i + 2) \div 4)
          OBVIOUS
        <4> DEFINE pool == 2 * Len(g)
                   oldest == p[1].site
                   len == Len(c)
                   n == Len(p)
        <4>7. /\ pool \in Nat /\ pool % 4 = 0 /\ len \in Nat /\ oldest \in Nat
              /\ pool >= 2 * len /\ pool <= 2 * len + 4 /\ n \in Nat /\ K \in Nat /\ K <= n
              /\ w \in Nat /\ w < K /\ oldest <= 2 * (i - 1) /\ i \in 1 .. len
              /\ 2 * len + 4 * n - oldest <= MaxReach + 4
              /\ x = pool + 4 * w - 4 * ((2 * i + 2) \div 4)
              /\ MaxReach \in Nat /\ MaxReach % 4 = 0
          BY <3>2, <4>1, <4>2, <4>3, <4>4, <4>5, <4>6
        <4> HIDE DEF x, pool, oldest, len, n
        <4>8. /\ (x % (MaxReach + 4)) \in Nat
              /\ 4 * ((2 * i + 2) \div 4) + (x % (MaxReach + 4)) = pool + 4 * w
          <5>1. WordInReach(MaxReach, len, i, pool, n, K, w, oldest, x)
            BY ONLY <4>7 DEF WordInReach
          <5> QED
            BY ONLY <5>1, Displacement
        <4> QED
          BY <4>8 DEF pool
      <3> HIDE DEF x
      <3>6. d[i].op = "ldr" /\ d[i].value = c[i].value
        BY <3>4 DEF Halfword
      <3>7. LoadedAt(d, i)
        <4> DEFINE word == 4 * ((2 * i + 2) \div 4) + d[i].arg
        <4>1. d[i].arg = (x % (MaxReach + 4))
          BY <3>4 DEF Halfword
        <4>2. word = 2 * Len(g) + 4 * w
          BY <3>5, <4>1
        <4> HIDE DEF word
        <4>3. Len(g) \in Nat /\ Len(g) % 2 = 0
          BY <1>2 DEF Padded
        <4>4. word % 4 = 0 /\ word >= 0 /\ word + 2 < 2 * Len(d)
          BY <1>5, <1>7, <3>3, <4>2, <4>3
        <4>5. ASSUME NEW half \in 0 .. 1
              PROVE  At(d, word + 2 * half) = Halfword("word", half, d[i].value)
          <5>1. (word + 2 * half) \div 2 + 1 = Len(g) + (2 * w + half + 1)
            <6>1. w \in Nat /\ half \in Int
              BY <3>3
            <6> QED
              BY ONLY <4>2, <4>3, <6>1
          <5>2. 2 * w + half + 1 \in 1 .. 2 * K
            BY <1>5, <3>3
          <5>3. At(d, word + 2 * half) = d[Len(g) + (2 * w + half + 1)]
            BY <5>1 DEF At
          <5>4. d[Len(g) + (2 * w + half + 1)] = q[2 * w + half + 1]
            BY <1>7, <5>2
          <5>5. q[2 * w + half + 1] = Halfword("word", half, p[k].value)
            BY <3>3
          <5> QED
            BY <3>2, <3>6, <5>3, <5>4, <5>5
        <4> QED
          BY <4>4, <4>5 DEF LoadedAt, word
      <3> QED
        BY <2>2, <3>2, <3>6, <3>7
    <2> QED
      BY <2>1, <2>2
  <1>11. ASSUME guard PROVE d[Len(c) + 1].op = "b"
    <2>1. Len(c) + 1 \in 1 .. Len(g) /\ g[Len(c) + 1] = Isn("b") /\ Len(c) \in Nat
      BY <1>2, <1>11 DEF Padded
    <2>2. ~ \E k \in 1 .. Len(p) : p[k].site = 2 * (Len(c) + 1 - 1)
      BY <1>3, <2>1
    <2>3. d[Len(c) + 1] = Isn("b")
      <3> DEFINE m == Len(c) + 1
      <3>0. m \in 1 .. Len(g) /\ ~ \E k \in 1 .. Len(p) : p[k].site = 2 * (m - 1)
        BY <2>1, <2>2
      <3> HIDE DEF m
      <3>1. d[m] = pat[m] /\ pat[m] = g[m]
        BY <1>4, <1>7, <3>0
      <3> QED
        BY <2>1, <3>1 DEF m
    <2> QED
      BY <2>3, HalfIs DEF Isn
  <1>12. ASSUME NEW i \in 1 .. Len(d), ~ i <= Len(c), ~ (guard /\ i = Len(c) + 1)
         PROVE  \/ /\ d[i].op = "nop" /\ i = Len(g)
                   /\ i = Len(c) + (IF guard THEN 2 ELSE 1)
                \/ d[i].op = "word" /\ i > Len(g)
    <2>1. CASE i \in 1 .. Len(g)
      <3>1. g[i] = Isn("nop") /\ i = Len(g) /\ i = Len(c) + (IF guard THEN 2 ELSE 1)
        BY <1>2, <1>12, <2>1 DEF Padded
      <3>2. ~ \E k \in 1 .. Len(p) : p[k].site = 2 * (i - 1)
        BY <1>3, <1>12, <2>1
      <3>3. d[i] = Isn("nop")
        BY <1>4, <1>7, <2>1, <3>1, <3>2
      <3>4. d[i].op = "nop"
        BY <3>3, HalfIs DEF Isn
      <3> QED
        BY <3>1, <3>4
    <2>2. CASE i - Len(g) \in 1 .. 2 * K /\ i = Len(g) + (i - Len(g))
      <3>1. d[Len(g) + (i - Len(g))] = q[i - Len(g)] /\ q[i - Len(g)].op = "word"
        BY <1>5, <1>7, <2>2
      <3>2. i > Len(g)
        BY <1>a, <2>2
      <3> QED
        BY <2>2, <3>1, <3>2
    <2> QED
      BY <1>8, <2>1, <2>2
  <1> QED
    BY <1>7, <1>9, <1>10, <1>11, <1>12 DEF Spilled, K, g, d

Flushed(a, guard, g, d) ==
  /\ IsCode(d) /\ Len(d) \in Nat /\ Len(d) >= Len(g)
  /\ \A i \in 1 .. Len(a.code) :
       /\ d[i].op = a.code[i].op /\ d[i].value = a.code[i].value
       /\ ~ Waits(a, i) => d[i] = a.code[i]
       /\ Waits(a, i) => a.code[i].op = "ldr" /\ LoadedAt(d, i)
  /\ guard => d[Len(a.code) + 1].op = "b" /\ Target(d, 2 * Len(a.code)) = 2 * Len(d)
  /\ \A i \in 1 .. Len(d) :
       \/ i <= Len(a.code)
       \/ guard /\ i = Len(a.code) + 1
       \/ /\ d[i].op = "nop" /\ i = Len(g)
          /\ i = Len(a.code) + (IF guard THEN 2 ELSE 1)
       \/ d[i].op = "word" /\ i > Len(g)

LEMMA FlushMakes ==
  ASSUME NEW a, NEW X, Body(a, X), a.pending # << >>, Within(a, 0), NEW guard \in BOOLEAN,
         MaxReach \in Nat, MaxReach % 4 = 0
  PROVE  LET b == FlushPool(a, guard)
         IN  /\ IsAsm(b) /\ b.pending = << >> /\ b.atomic = a.atomic
             /\ Flushed(a, guard, PadOf(a.code, guard), b.code)
  <1> DEFINE c == a.code
             g == PadOf(c, guard)
             s == Spill(a, guard)
             S == {Pc(a)}
             d == IF guard THEN PatchBranch(s, S, 2 * Len(s)) ELSE s
             b == FlushPool(a, guard)
  <1>1. Spilled(a, guard, g, s) /\ IsAsm(a) /\ IsCode(c)
    BY SpillMakes DEF Body, Typed
  <1>2. b = [a EXCEPT !.code = d, !.pending = << >>]
    BY DEF FlushPool, Spill, PadOf, GuardOf
  <1>3. Padded(c, guard, g)
    BY <1>1, Padding
  <1> HIDE DEF g, s, d, b, S
  <1>4. b = [code |-> d, pending |-> << >>, atomic |-> a.atomic]
    BY <1>1, <1>2 DEF IsAsm
  <1>5. IsAsm(b) /\ b.pending = << >> /\ b.atomic = a.atomic /\ b.code = d
    BY <1>4, IsSeqEmpty DEF IsAsm
  <1>6. /\ Len(c) \in Nat /\ Len(g) \in Nat /\ Len(g) >= Len(c)
        /\ guard => Len(g) > Len(c)
    BY <1>3 DEF Padded
  <1>7. Len(s) \in Nat /\ Len(s) >= Len(g) /\ IsCode(s)
    <2>1. /\ IsCode(s) /\ Len(s) = Len(g) + 2 * Cardinality(FirstOccurrences(a.pending))
      BY <1>1 DEF Spilled
    <2>2. Len(a.pending) \in Nat
      BY <1>1, IsSeqLen DEF IsAsm
    <2>3. Cardinality(FirstOccurrences(a.pending)) \in Nat
      BY <2>2, FirstsAreFinite
    <2> QED
      BY <1>6, <2>1, <2>3
  <1>8. CASE ~ guard
    <2>1. d = s
      BY <1>8 DEF d
    <2>2. Flushed(a, guard, g, s)
      BY <1>1, <1>7, <1>8 DEF Spilled, Flushed
    <2> QED
      BY <1>5, <2>1, <2>2 DEF g, b
  <1>9. CASE guard
    <2>1. d = PatchBranch(s, S, 2 * Len(s)) /\ S = {2 * Len(c)}
      BY <1>9 DEF d, S, Pc
    <2>2. s[Len(c) + 1].op = "b"
      BY <1>1, <1>9 DEF Spilled
    <2>3. \A i \in 1 .. Len(s) : 2 * (i - 1) \in S => i = Len(c) + 1
      BY <1>6, <1>7, <2>1
    <2>4. \A i \in 1 .. Len(s) : 2 * (i - 1) \in S => s[i].op \in BranchOps
      BY <2>2, <2>3 DEF BranchOps
    <2>5. 2 * Len(s) \in Int
      BY <1>7
    <2>6. /\ Repatched(s, d)
          /\ \A i \in 1 .. Len(s) :
               IF 2 * (i - 1) \in S THEN Target(d, 2 * (i - 1)) = 2 * Len(s) ELSE d[i] = s[i]
      BY <1>7, <2>1, <2>4, <2>5, PatchBranchMakes
    <2>7. /\ IsCode(d) /\ Len(d) = Len(s)
          /\ \A i \in 1 .. Len(s) :
               /\ d[i].op = s[i].op /\ d[i].value = s[i].value
               /\ s[i].op \notin {"b", "bcc", "slot"} => d[i] = s[i]
      BY <2>6 DEF Repatched
    <2>8. ASSUME NEW i \in 1 .. Len(s), i # Len(c) + 1 PROVE d[i] = s[i]
      BY <2>3, <2>6, <2>8
    <2>9. ASSUME NEW i \in 1 .. Len(c)
          PROVE  /\ d[i].op = c[i].op /\ d[i].value = c[i].value
                 /\ ~ Waits(a, i) => d[i] = c[i]
                 /\ Waits(a, i) => c[i].op = "ldr" /\ LoadedAt(d, i)
      <3>1. i \in 1 .. Len(s) /\ i # Len(c) + 1
        BY <1>6, <1>7
      <3>2. d[i] = s[i]
        BY <2>8, <3>1
      <3>3. /\ s[i].op = c[i].op /\ s[i].value = c[i].value
            /\ ~ Waits(a, i) => s[i] = c[i]
            /\ Waits(a, i) => c[i].op = "ldr" /\ LoadedAt(s, i)
        BY <1>1 DEF Spilled
      <3>4. ASSUME LoadedAt(s, i) PROVE LoadedAt(d, i)
        <4>1. \A j \in 1 .. Len(s) : s[j].op = "word" => d[j] = s[j]
          BY <2>7
        <4>2. s[i].arg \in Int
          BY <1>7, <3>1, CodeLen
        <4> QED
          BY <1>7, <2>7, <3>1, <3>2, <3>4, <4>1, <4>2, LoadStill
      <3> QED
        BY <3>2, <3>3, <3>4
    <2>10. d[Len(c) + 1].op = "b" /\ Target(d, 2 * Len(c)) = 2 * Len(d)
      <3>1. Len(c) + 1 \in 1 .. Len(s) /\ 2 * (Len(c) + 1 - 1) = 2 * Len(c)
        BY <1>6, <1>7, <1>9
      <3>2. 2 * (Len(c) + 1 - 1) \in S
        BY <2>1, <3>1
      <3> QED
        BY <2>2, <2>6, <2>7, <3>1, <3>2
    <2>11. ASSUME NEW i \in 1 .. Len(d), ~ i <= Len(c), i # Len(c) + 1
           PROVE  \/ /\ d[i].op = "nop" /\ i = Len(g)
                     /\ i = Len(c) + (IF guard THEN 2 ELSE 1)
                  \/ d[i].op = "word" /\ i > Len(g)
      <3>1. i \in 1 .. Len(s) /\ d[i] = s[i]
        BY <2>7, <2>8, <2>11
      <3> QED
        BY <1>1, <2>11, <3>1 DEF Spilled
    <2>12. Len(d) \in Nat /\ Len(d) >= Len(g)
      BY <1>7, <2>7
    <2>13. Flushed(a, guard, g, d)
      BY <1>9, <2>7, <2>9, <2>10, <2>11, <2>12 DEF Flushed
    <2> QED
      BY <1>5, <2>13 DEF g, b
  <1> QED
    BY <1>8, <1>9

(* What must stand before a pool that nothing branches over. *)
Closed(a, X) ==
  a.pending # << >> =>
    /\ Below(a.code, X) /\ Len(a.code) > 0
    /\ a.code[Len(a.code)].op \in {"b", "bx", "slot"}

LEMMA FlushBody ==
  ASSUME NEW a, NEW X, Body(a, X), Within(a, 0), NEW guard \in BOOLEAN,
         ~ guard => Closed(a, X), MaxReach \in Nat, MaxReach % 4 = 0
  PROVE  LET b == FlushPool(a, guard)
         IN  /\ Body(b, X) /\ b.pending = << >> /\ b.atomic = a.atomic
             /\ Extends(a.code, b.code) /\ NoSlots(a.code, b.code)
             /\ NoResume(a.code, b.code)
             /\ guard => Starts(a.code, b.code)
  <1>1. CASE a.pending = << >>
    <2>1. FlushPool(a, guard) = a
      BY <1>1 DEF FlushPool
    <2>2. Len(a.code) \in Nat
      BY CodeLen DEF Body, Typed
    <2> QED
      BY <1>1, <2>1, <2>2 DEF Extends, NoSlots, NoResume, Starts
  <1>2. CASE a.pending # << >>
    <2> DEFINE b == FlushPool(a, guard)
               c == a.code
               d == b.code
               g == PadOf(c, guard)
    <2>1. /\ IsAsm(b) /\ b.pending = << >> /\ b.atomic = a.atomic
          /\ Flushed(a, guard, g, d)
      BY <1>2, FlushMakes
    <2>2. IsCode(c) /\ Loaded(a) /\ Walled(c) /\ Resolved(c, X) /\ Len(c) \in Nat
      BY CodeLen DEF Body, Typed
    <2>3. Padded(c, guard, g)
      BY <2>2, Padding
    <2>4. ~ guard => Below(c, X) /\ Len(c) > 0 /\ c[Len(c)].op \in {"b", "bx", "slot"}
      BY <1>2 DEF Closed
    <2> HIDE DEF b, c, d, g
    <2>5. /\ Len(g) \in Nat /\ Len(g) >= Len(c) /\ (guard => Len(g) > Len(c)) /\ Len(g) % 2 = 0
          /\ Len(g) <= Len(c) + 2
      BY <2>3 DEF Padded
    <2>6. /\ IsCode(d) /\ Len(d) \in Nat /\ Len(d) >= Len(g)
          /\ guard => d[Len(c) + 1].op = "b" /\ Target(d, 2 * Len(c)) = 2 * Len(d)
      BY <2>1 DEF Flushed, c
    <2>7. \A i \in 1 .. Len(c) :
            /\ d[i].op = c[i].op /\ d[i].value = c[i].value
            /\ ~ Waits(a, i) => d[i] = c[i]
            /\ Waits(a, i) => c[i].op = "ldr" /\ LoadedAt(d, i)
      BY <2>1 DEF Flushed, c
    <2>8. \A i \in 1 .. Len(d) :
            \/ i \in 1 .. Len(c)
            \/ guard /\ i = Len(c) + 1 /\ d[i].op = "b"
            \/ /\ d[i].op = "nop" /\ i = Len(g)
               /\ i = Len(c) + (IF guard THEN 2 ELSE 1)
            \/ d[i].op = "word" /\ i > Len(g)
      <3> SUFFICES ASSUME NEW i \in 1 .. Len(d)
                   PROVE  \/ i \in 1 .. Len(c)
                          \/ guard /\ i = Len(c) + 1 /\ d[i].op = "b"
                          \/ /\ d[i].op = "nop" /\ i = Len(g)
                             /\ i = Len(c) + (IF guard THEN 2 ELSE 1)
                          \/ d[i].op = "word" /\ i > Len(g)
        OBVIOUS
      <3>1. i <= Len(c) => i \in 1 .. Len(c)
        BY <2>2, <2>6
      <3> QED
        BY <2>1, <2>6, <3>1 DEF Flushed, c
    <2>a. Len(c) <= Len(d)
      BY <2>2, <2>5, <2>6
    <2>9. Extends(c, d)
      BY <2>2, <2>5, <2>6, <2>7 DEF Extends
    <2>10. guard => Starts(c, d)
      BY <2>6 DEF Starts, DataOps
    <2>11. NoSlots(c, d) /\ NoResume(c, d)
      <3> SUFFICES ASSUME NEW i \in 1 .. Len(d), i > Len(c)
                   PROVE  d[i].op \in {"b", "nop", "word"}
        BY DEF NoSlots, NoResume
      <3> QED
        BY <2>2, <2>8
    <2>12. Resolved(d, X)
      <3> SUFFICES ASSUME NEW i \in 1 .. Len(d), d[i].op \in BranchOps, 2 * (i - 1) \notin X
                   PROVE  Lands(d, Target(d, 2 * (i - 1)))
        BY DEF Resolved
      <3>1. CASE i \in 1 .. Len(c)
        <4>1. d[i] = c[i] /\ i \in Int /\ c[i].op \in BranchOps
          BY <2>2, <2>7, <3>1 DEF BranchOps
        <4> DEFINE t == Target(c, 2 * (i - 1))
        <4>2. Target(d, 2 * (i - 1)) = t
          BY <4>1, AtIndex
        <4>3. Lands(c, t)
          BY <2>2, <3>1, <4>1 DEF Resolved
        <4>4. ~ guard => t < 2 * Len(c)
          BY <2>4, <3>1, <4>1 DEF Below
        <4> HIDE DEF t
        <4>5. t = 2 * Len(c) => Starts(c, d)
          BY <2>2, <2>10, <4>4
        <4>6. \A j \in 1 .. Len(c) : d[j].op = c[j].op
          BY <2>7
        <4>7. Lands(d, t)
          BY <2>2, <2>6, <2>a, <4>3, <4>5, <4>6, LandsStill
        <4> QED
          BY <4>2, <4>7
      <3>2. CASE guard /\ i = Len(c) + 1
        <4>1. 2 * (i - 1) = 2 * Len(c) /\ 2 * Len(d) \in Nat /\ (2 * Len(d)) % 2 = 0
          BY <2>2, <2>6, <3>2
        <4>2. Target(d, 2 * (i - 1)) = 2 * Len(d)
          BY <2>6, <3>2, <4>1
        <4> QED
          BY <2>6, <4>1, <4>2 DEF Lands
      <3> QED
        BY <2>8, <3>1, <3>2 DEF BranchOps
    <2>13. Walled(d)
      <3> SUFFICES ASSUME NEW i \in 1 .. Len(d), d[i].op \in {"word", "slot"}
                   PROVE  Wall(d, i)
        BY DEF Walled
      <3>1. CASE i \in 1 .. Len(c)
        <4>1. Wall(c, i)
          BY <2>2, <2>7, <3>1 DEF Walled
        <4>2. i > 1 /\ i - 1 \in 1 .. Len(c) /\ (i > 2 => i - 2 \in 1 .. Len(c))
          BY <2>2, <3>1, <4>1 DEF Wall
        <4>3. d[i - 1].op = c[i - 1].op /\ (i > 2 => d[i - 2].op = c[i - 2].op)
          BY <2>7, <4>2
        <4> QED
          BY <4>1, <4>3 DEF Wall
      <3>2. CASE i > Len(g) + 1
        <4>1. i - 1 \in 1 .. Len(d) /\ i > 1 /\ i - 1 > Len(g)
          BY <2>5, <2>6, <3>2
        <4>2. d[i - 1].op = "word"
          BY <2>2, <2>5, <2>8, <4>1
        <4> QED
          BY <4>1, <4>2 DEF Wall
      <3>3. CASE i = Len(g) + 1 /\ Len(g) = Len(c)
        <4>1. ~ guard /\ Len(c) \in 1 .. Len(c) /\ i - 1 = Len(c) /\ i > 1
          BY <2>2, <2>4, <2>5, <3>3
        <4>2. d[i - 1].op \in {"b", "bx", "slot"}
          BY <2>4, <2>7, <4>1
        <4> QED
          BY <4>1, <4>2 DEF Wall
      <3>4. CASE i = Len(g) + 1 /\ Len(g) = Len(c) + 1 /\ guard
        <4>1. i - 1 = Len(c) + 1 /\ i > 1
          BY <2>2, <3>4
        <4> QED
          BY <2>6, <3>4, <4>1 DEF Wall
      <3>5. CASE i = Len(g) + 1 /\ Len(g) = Len(c) + 1 /\ ~ guard
        <4>1. i - 1 = Len(g) /\ i - 2 = Len(c) /\ i > 2 /\ Len(g) \in 1 .. Len(d)
              /\ Len(c) \in 1 .. Len(c)
          BY <2>2, <2>4, <2>5, <2>6, <3>5
        <4>2. d[i - 1].op = "nop"
          BY <2>2, <2>8, <3>5, <4>1
        <4>3. d[i - 2].op \in {"b", "bx", "slot"}
          BY <2>4, <2>7, <3>5, <4>1
        <4> QED
          BY <4>1, <4>2, <4>3 DEF Wall
      <3>6. CASE i = Len(g) + 1 /\ Len(g) = Len(c) + 2
        <4>1. i - 1 = Len(g) /\ i - 2 = Len(c) + 1 /\ i > 2 /\ Len(g) \in 1 .. Len(d)
          BY <2>2, <2>5, <2>6, <3>6
        <4>2. d[i - 1].op = "nop" /\ guard
          BY <2>2, <2>8, <3>6, <4>1
        <4>3. d[i - 2].op = "b"
          BY <2>6, <4>1, <4>2
        <4> QED
          BY <4>1, <4>2, <4>3 DEF Wall
      <3>7. i > Len(g) \/ i \in 1 .. Len(c)
        BY <2>8
      <3> QED
        BY <2>2, <2>5, <2>6, <3>1, <3>2, <3>3, <3>4, <3>5, <3>6, <3>7
    <2>14. Parked(b)
      BY <2>1, IsSeqEmpty DEF Parked
    <2>15. Loaded(b)
      <3> SUFFICES ASSUME NEW i \in 1 .. Len(d), d[i].op = "ldr" PROVE LoadedAt(d, i)
        BY DEF Loaded, d
      <3>1. i \in 1 .. Len(c)
        BY <2>8
      <3>2. CASE ~ Waits(a, i)
        <4>1. d[i] = c[i] /\ LoadedAt(c, i)
          BY <2>2, <2>7, <3>1, <3>2 DEF Loaded, c
        <4>2. \A j \in 1 .. Len(c) : c[j].op = "word" => d[j] = c[j]
          BY <2>7
        <4>3. c[i].arg \in Int
          BY <2>2, <3>1, CodeLen
        <4> QED
          BY <2>2, <2>6, <2>a, <3>1, <4>1, <4>2, <4>3, LoadStill
      <3> QED
        BY <2>7, <3>1, <3>2
    <2>16. Body(b, X)
      BY <2>1, <2>6, <2>12, <2>13, <2>14, <2>15 DEF Body, Typed, d
    <2> QED
      BY <2>1, <2>9, <2>10, <2>11, <2>16 DEF b, c, d
  <1> QED
    BY <1>1, <1>2

-----------------------------------------------------------------------------
(* How far the oldest load is, and what emissions leave, one after another. *)

ReachBounds ==
  /\ MaxReach \in Nat /\ MaxReach % 4 = 0 /\ MaxReach >= 12
  /\ ReachMargin \in Nat /\ ReachMargin >= 4

LEMMA ExtendsBoth ==
  ASSUME NEW c, NEW d, NEW e, Len(c) \in Nat, Len(d) \in Nat, Len(e) \in Nat,
         Extends(c, d), Extends(d, e)
  PROVE  Extends(c, e)
  <1>1. Len(c) <= Len(d) /\ Len(d) <= Len(e)
    BY DEF Extends
  <1>2. ASSUME NEW i \in 1 .. Len(c)
        PROVE  /\ e[i].op = c[i].op /\ e[i].value = c[i].value
               /\ c[i].op # "ldr" => e[i] = c[i]
    <2>1. i \in 1 .. Len(d)
      BY <1>1
    <2>2. /\ d[i].op = c[i].op /\ d[i].value = c[i].value
          /\ c[i].op # "ldr" => d[i] = c[i]
      BY DEF Extends
    <2>3. /\ e[i].op = d[i].op /\ e[i].value = d[i].value
          /\ d[i].op # "ldr" => e[i] = d[i]
      BY <2>1 DEF Extends
    <2> QED
      BY <2>2, <2>3
  <1>3. Len(c) <= Len(e)
    BY <1>1
  <1> QED
    BY <1>2, <1>3 DEF Extends

LEMMA StartsBoth ==
  ASSUME NEW c, NEW d, NEW e, Len(c) \in Nat, Len(d) \in Nat, Len(e) \in Nat,
         Extends(c, d), Starts(c, d), Extends(d, e), Starts(d, e) \/ Len(d) > Len(c)
  PROVE  Starts(c, e)
  <1>1. Len(c) <= Len(d) /\ Len(d) <= Len(e)
    BY DEF Extends
  <1>2. CASE Len(d) > Len(c)
    <2>1. Len(c) + 1 \in 1 .. Len(d)
      BY <1>2
    <2>2. e[Len(c) + 1].op = d[Len(c) + 1].op
      BY <2>1 DEF Extends
    <2> QED
      BY <1>2, <2>2 DEF Starts
  <1>3. CASE Starts(d, e) /\ ~ Len(d) > Len(c)
    <2>1. Len(d) = Len(c)
      BY <1>1, <1>3
    <2> QED
      BY <1>3, <2>1 DEF Starts
  <1> QED
    BY <1>2, <1>3

LEMMA NoneBoth ==
  ASSUME NEW c, NEW d, NEW e, Len(c) \in Nat, Len(d) \in Nat, Len(e) \in Nat, Extends(d, e)
  PROVE  /\ NoSlots(c, d) /\ NoSlots(d, e) => NoSlots(c, e)
         /\ NoResume(c, d) /\ NoResume(d, e) => NoResume(c, e)
  <1>1. \A i \in 1 .. Len(d) : e[i].op = d[i].op /\ e[i].value = d[i].value
    BY DEF Extends
  <1>2. \A i \in 1 .. Len(e) : i \in 1 .. Len(d) \/ i > Len(d)
    OBVIOUS
  <1>3. ASSUME NoSlots(c, d), NoSlots(d, e) PROVE NoSlots(c, e)
    <2> SUFFICES ASSUME NEW i \in 1 .. Len(e), i > Len(c) PROVE e[i].op # "slot"
      BY DEF NoSlots
    <2> QED
      BY <1>1, <1>2, <1>3 DEF NoSlots
  <1>4. ASSUME NoResume(c, d), NoResume(d, e) PROVE NoResume(c, e)
    <2> SUFFICES ASSUME NEW i \in 1 .. Len(e), i > Len(c), e[i].op \in {"ldr", "movs"}
                 PROVE  e[i].value.kind # "resume"
      BY DEF NoResume
    <2> QED
      BY <1>1, <1>2, <1>4 DEF NoResume
  <1> QED
    BY <1>3, <1>4

LEMMA GrowsBoth ==
  ASSUME NEW c, NEW d, NEW e, Len(c) \in Nat, Len(d) \in Nat, Len(e) \in Nat,
         Grows(c, d), Grows(d, e)
  PROVE  Grows(c, e)
  BY ExtendsBoth, StartsBoth, NoneBoth DEF Grows

LEMMA GrowsNone ==
  ASSUME NEW c, Len(c) \in Nat
  PROVE  Grows(c, c) /\ NoResume(c, c)
  BY DEF Grows, Extends, Starts, NoSlots, NoResume

LEMMA BodyLen ==
  ASSUME NEW a, NEW X, Body(a, X)
  PROVE  IsAsm(a) /\ IsCode(a.code) /\ Len(a.code) \in Nat /\ Pc(a) = 2 * Len(a.code)
  BY CodeLen DEF Body, Typed, Pc

LEMMA OldestIs ==
  ASSUME NEW a, NEW X, Body(a, X), a.pending # << >>
  PROVE  /\ Len(a.pending) \in Nat /\ Len(a.pending) > 0
         /\ a.pending[1].site \in Nat /\ a.pending[1].site + 2 <= Pc(a) /\ Pc(a) \in Nat
  <1>1. IsSeq(a.pending) /\ Parked(a)
    BY DEF Body, Typed, IsAsm
  <1>2. Len(a.pending) \in Nat /\ Len(a.pending) > 0
    BY <1>1, EmptySeq, LenProperties DEF IsSeq
  <1>3. 1 \in 1 .. Len(a.pending)
    BY <1>2
  <1>4. PICK i \in 1 .. Len(a.code) : a.pending[1].site = 2 * (i - 1)
    BY <1>1, <1>3 DEF Parked
  <1>5. Len(a.code) \in Nat /\ Pc(a) = 2 * Len(a.code)
    BY BodyLen
  <1> QED
    BY <1>2, <1>4, <1>5

LEMMA WithinLess ==
  ASSUME NEW a, NEW X, Body(a, X), ReachBounds, NEW j \in Int, NEW k \in Int, k <= j, Within(a, j)
  PROVE  Within(a, k)
  BY OldestIs DEF Within, ReachBounds

(* Room as asked for, or no risk seen, and the distance that leaves. *)
LEMMA EnsureRoom ==
  ASSUME NEW a, NEW X, Body(a, X), Within(a, 0), NEW n \in Nat, NEW extra \in Nat, ReachBounds
  PROVE  LET b == EnsurePoolRoom(a, n, extra)
         IN  /\ Body(b, X) /\ b.atomic = a.atomic
             /\ Grows(a.code, b.code) /\ NoResume(a.code, b.code)
             /\ b.pending = << >> \/ b = a
             /\ Within(b, extra + 4 * n + ReachMargin + 6)
             /\ b.pending # << >> => ~ ReachAtRisk(b, n, extra) /\ ~ CountAtRisk(b, n)
  <1> DEFINE b == EnsurePoolRoom(a, n, extra)
             risk == ReachAtRisk(a, n, extra) \/ CountAtRisk(a, n)
  <1>1. CASE a.pending # << >> /\ risk
    <2>1. b = FlushPool(a, TRUE)
      BY <1>1 DEF EnsurePoolRoom
    <2>2. MaxReach \in Nat /\ MaxReach % 4 = 0
      BY DEF ReachBounds
    <2> HIDE DEF b, risk
    <2>3. /\ Body(b, X) /\ b.pending = << >> /\ b.atomic = a.atomic
          /\ Extends(a.code, b.code) /\ NoSlots(a.code, b.code) /\ NoResume(a.code, b.code)
          /\ Starts(a.code, b.code)
      BY <2>1, <2>2, FlushBody
    <2> QED
      BY <2>3 DEF Grows, Within, b
  <1>2. CASE ~ (a.pending # << >> /\ risk)
    <2>1. b = a
      BY <1>2 DEF EnsurePoolRoom
    <2>2. Grows(a.code, a.code) /\ NoResume(a.code, a.code)
      BY BodyLen, GrowsNone
    <2>3. Within(a, extra + 4 * n + ReachMargin + 6)
      <3>1. CASE a.pending = << >>
        BY <3>1 DEF Within
      <3>2. CASE a.pending # << >>
        <4>1. ~ ReachAtRisk(a, n, extra)
          BY <1>2, <3>2
        <4>2. /\ Len(a.pending) \in Nat /\ a.pending[1].site \in Nat /\ Pc(a) \in Nat
          BY <3>2, OldestIs
        <4>3. RoundUpToWord(Pc(a) + 2 + extra) \in Nat
              /\ RoundUpToWord(Pc(a) + 2 + extra) >= Pc(a) + 2 + extra
          BY <4>2 DEF RoundUpToWord
        <4>4. ~ (RoundUpToWord(Pc(a) + 2 + extra) + 4 * (Len(a.pending) + n)
                  - a.pending[1].site + ReachMargin > MaxReach)
          BY <4>1 DEF ReachAtRisk
        <4>5. Pc(a) + 4 * Len(a.pending) - a.pending[1].site
                + (extra + 4 * n + ReachMargin + 6) <= MaxReach + 4
          <5> DEFINE pc == Pc(a)
                     len == Len(a.pending)
                     s == a.pending[1].site
                     r == RoundUpToWord(Pc(a) + 2 + extra)
          <5>1. pc \in Nat /\ len \in Nat /\ s \in Nat /\ r \in Nat /\ r >= pc + 2 + extra
            BY <4>2, <4>3
          <5>2. ~ (r + 4 * (len + n) - s + ReachMargin > MaxReach)
            BY <4>4
          <5>3. ReachMargin \in Nat /\ MaxReach \in Nat
            BY DEF ReachBounds
          <5> HIDE DEF pc, len, s, r
          <5>4. pc + 4 * len - s + (extra + 4 * n + ReachMargin + 6) <= MaxReach + 4
            BY <5>1, <5>2, <5>3
          <5> QED
            BY <5>4 DEF pc, len, s
        <4> QED
          BY <4>5 DEF Within
      <3> QED
        BY <3>1, <3>2
    <2>4. a.pending # << >> => ~ ReachAtRisk(a, n, extra) /\ ~ CountAtRisk(a, n)
      BY <1>2
    <2> HIDE DEF b
    <2> QED
      BY <2>1, <2>2, <2>3, <2>4 DEF b
  <1> QED
    BY <1>1, <1>2

(* An instruction other than a load from the pool, outside an atomic block. *)
LEMMA EmitBody ==
  ASSUME NEW a, NEW X, Body(a, X), ~ a.atomic, Within(a, 2), ReachBounds,
         NEW h, IsHalf(h), h.op \notin DataOps, h.op # "ldr",
         h.op = "movs" => h.value.kind # "resume",
         NEW Y, X \subseteq Y, h.op \in BranchOps => Pc(a) \in Y
  PROVE  LET b == Emit(a, h)
         IN  /\ Body(b, Y) /\ b.atomic = a.atomic /\ Within(b, 2)
             /\ Grows(a.code, b.code) /\ NoResume(a.code, b.code)
             /\ Len(b.code) > Len(a.code) /\ b.code[Len(a.code) + 1] = h
             /\ b.pending # << >> => b = DoEmit(a, h) /\ Below(b.code, Y)
                                     /\ Len(b.code) = Len(a.code) + 1
  <1> DEFINE e == DoEmit(a, h)
             b == Emit(a, h)
  <1>1. b = EnsurePoolRoom(e, 0, 0)
    BY DEF Emit
  <1>2. /\ Body(e, Y) /\ Below(e.code, Y)
        /\ Extends(a.code, e.code) /\ Starts(a.code, e.code)
        /\ e.pending = a.pending /\ e.atomic = a.atomic
        /\ Len(e.code) = Len(a.code) + 1 /\ e.code[Len(a.code) + 1] = h
    BY AppendBody
  <1> HIDE DEF e, b
  <1>3. Len(a.code) \in Nat /\ Len(e.code) \in Nat /\ Pc(a) = 2 * Len(a.code) /\ Pc(e) = 2 * Len(e.code)
    BY <1>2, BodyLen
  <1>4. \A i \in 1 .. Len(e.code) : i > Len(a.code) => i = Len(a.code) + 1
    BY <1>2, <1>3
  <1>5. NoSlots(a.code, e.code) /\ NoResume(a.code, e.code)
    BY <1>2, <1>4 DEF NoSlots, NoResume, DataOps
  <1>6. Grows(a.code, e.code)
    BY <1>2, <1>5 DEF Grows
  <1>7. Within(e, 0)
    <2>1. CASE a.pending = << >>
      BY <1>2, <2>1 DEF Within
    <2>2. CASE a.pending # << >>
      <3>1. Len(a.pending) \in Nat /\ a.pending[1].site \in Nat
        BY <2>2, OldestIs
      <3>2. Pc(a) + 4 * Len(a.pending) - a.pending[1].site + 2 <= MaxReach + 4
        BY <2>2 DEF Within
      <3>3. Pc(e) = Pc(a) + 2
        BY <1>2, <1>3
      <3>4. Pc(e) + 4 * Len(e.pending) - e.pending[1].site + 0 <= MaxReach + 4
        <4> DEFINE pc == Pc(a)
                   len == Len(a.pending)
                   s == a.pending[1].site
        <4>1. pc \in Nat /\ len \in Nat /\ s \in Nat /\ MaxReach \in Nat
              /\ pc + 4 * len - s + 2 <= MaxReach + 4
          BY <1>3, <3>1, <3>2 DEF ReachBounds
        <4>2. Len(e.pending) = len /\ e.pending[1].site = s /\ Pc(e) = pc + 2
          BY <1>2, <3>3
        <4> HIDE DEF pc, len, s
        <4> QED
          BY <4>1, <4>2
      <3> QED
        BY <3>4 DEF Within
    <2> QED
      BY <2>1, <2>2
  <1>8. /\ Body(b, Y) /\ b.atomic = e.atomic
        /\ Grows(e.code, b.code) /\ NoResume(e.code, b.code)
        /\ b.pending = << >> \/ b = e
        /\ Within(b, 0 + 4 * 0 + ReachMargin + 6)
    BY <1>1, <1>2, <1>7, EnsureRoom, 0 \in Nat
  <1>9. Within(b, 2)
    <2>1. /\ ReachMargin + 6 \in Int /\ 2 <= ReachMargin + 6
          /\ 0 + 4 * 0 + ReachMargin + 6 = ReachMargin + 6
      BY DEF ReachBounds
    <2> QED
      BY <1>8, <2>1, WithinLess, 2 \in Int
  <1>10. Len(b.code) \in Nat
    BY <1>8, BodyLen
  <1>11. Grows(a.code, b.code) /\ NoResume(a.code, b.code)
    BY <1>3, <1>5, <1>6, <1>8, <1>10, GrowsBoth, NoneBoth DEF Grows
  <1>12. Len(b.code) > Len(a.code) /\ b.code[Len(a.code) + 1] = h
    <2>1. Len(a.code) + 1 \in 1 .. Len(e.code) /\ Len(e.code) <= Len(b.code)
      BY <1>2, <1>3, <1>8 DEF Grows, Extends
    <2>2. e.code[Len(a.code) + 1].op # "ldr"
      BY <1>2
    <2>3. b.code[Len(a.code) + 1] = e.code[Len(a.code) + 1]
      BY <1>8, <2>1, <2>2 DEF Grows, Extends
    <2> QED
      BY <1>2, <1>3, <1>10, <2>1, <2>3
  <1>13. b.pending # << >> => b = e /\ Below(b.code, Y) /\ Len(b.code) = Len(a.code) + 1
    BY <1>2, <1>8
  <1> QED
    BY <1>2, <1>8, <1>9, <1>11, <1>12, <1>13 DEF e, b

-----------------------------------------------------------------------------
(* Branches. *)

LEMMA RepatchGrows ==
  ASSUME NEW c, NEW e, NEW d, Len(c) \in Nat, Len(e) \in Nat, Grows(c, e), Repatched(e, d),
         \A i \in 1 .. Len(c) : d[i] = e[i]
  PROVE  Grows(c, d) /\ (NoResume(c, e) => NoResume(c, d))
  <1>1. /\ Len(d) = Len(e) /\ Len(c) <= Len(e)
        /\ \A i \in 1 .. Len(e) : d[i].op = e[i].op /\ d[i].value = e[i].value
    BY DEF Repatched, Grows, Extends
  <1>2. Extends(c, d)
    BY <1>1 DEF Grows, Extends
  <1>3. Starts(c, d)
    <2>1. Len(c) < Len(e) => Len(c) + 1 \in 1 .. Len(e)
      OBVIOUS
    <2> QED
      BY <1>1, <2>1 DEF Grows, Starts
  <1>4. NoSlots(c, d)
    BY <1>1 DEF Grows, NoSlots
  <1>5. NoResume(c, e) => NoResume(c, d)
    BY <1>1 DEF NoResume
  <1> QED
    BY <1>2, <1>3, <1>4, <1>5 DEF Grows

LEMMA LandsGrown ==
  ASSUME NEW c, NEW d, Len(c) \in Nat, Len(d) \in Nat, Grows(c, d), NEW t, Lands(c, t)
  PROVE  Lands(d, t)
  <1>1. Len(c) <= Len(d) /\ Starts(c, d) /\ \A i \in 1 .. Len(c) : d[i].op = c[i].op
    BY DEF Grows, Extends
  <1> QED
    BY <1>1, LandsStill

LEMMA Settle ==
  ASSUME NEW a, NEW X, NEW s, Body(a, X \cup {s}), Lands(a.code, Target(a.code, s))
  PROVE  Body(a, X)
  <1>1. Resolved(a.code, X)
    <2> SUFFICES ASSUME NEW i \in 1 .. Len(a.code), a.code[i].op \in BranchOps, 2 * (i - 1) \notin X
                 PROVE  Lands(a.code, Target(a.code, 2 * (i - 1)))
      BY DEF Resolved
    <2>1. CASE 2 * (i - 1) = s
      BY <2>1
    <2>2. CASE 2 * (i - 1) # s
      BY <2>2 DEF Body, Resolved
    <2> QED
      BY <2>1, <2>2
  <1> QED
    BY <1>1 DEF Body

LEMMA BodyWider ==
  ASSUME NEW a, NEW X, NEW Y, X \subseteq Y, Body(a, X)
  PROVE  Body(a, Y)
  BY DEF Body, Resolved

(* A branch at Pc(a) that leads to target, and whatever goes with it. *)
Branched(a, b, X, op, target) ==
  /\ Body(b, X \cup {Pc(a)}) /\ ~ b.atomic /\ Within(b, 2)
  /\ Grows(a.code, b.code) /\ NoResume(a.code, b.code) /\ Len(b.code) > Len(a.code)
  /\ b.code[Len(a.code) + 1].op = op
  /\ Target(b.code, Pc(a)) = target

LEMMA SiteAt ==
  ASSUME NEW n \in Nat
  PROVE  2 * (n + 1 - 1) = 2 * n /\ \A i \in Int : 2 * (i - 1) = 2 * n <=> i = n + 1
  OBVIOUS

LEMMA LinkedBody ==
  ASSUME NEW a, NEW X, Body(a, X), ~ a.atomic, Within(a, 2), ReachBounds,
         NEW op \in BranchOps, NEW head \in Int
  PROVE  LET b == Linked(a, op, head)
         IN  /\ Branched(a, b, X, op, LinkTarget(head, Pc(a)))
             /\ b.pending # << >> => /\ Below(b.code, X \cup {Pc(a)})
                                     /\ Len(b.code) = Len(a.code) + 1
  <1> DEFINE h == Isn(op)
             e == Emit(a, h)
             S == {Pc(a)}
             Y == X \cup S
             t == LinkTarget(head, Pc(a))
             d == PatchBranch(e.code, S, t)
             b == Linked(a, op, head)
             n == Len(a.code)
  <1>1. IsHalf(h) /\ h.op = op /\ h.op \notin DataOps /\ h.op # "ldr" /\ h.op # "movs"
    BY HalfIs DEF Isn, BranchOps, DataOps
  <1>2. n \in Nat /\ Pc(a) = 2 * n
    BY BodyLen
  <1>3. /\ Body(e, Y) /\ e.atomic = a.atomic /\ Within(e, 2)
        /\ Grows(a.code, e.code) /\ NoResume(a.code, e.code)
        /\ Len(e.code) > n /\ e.code[n + 1] = h
        /\ e.pending # << >> => e = DoEmit(a, h) /\ Below(e.code, Y)
                                /\ Len(e.code) = n + 1
    BY <1>1, EmitBody
  <1>4. b = [e EXCEPT !.code = d]
    BY DEF Linked
  <1> HIDE DEF e, h, n
  <1>5. t \in Int
    BY <1>2 DEF LinkTarget
  <1> HIDE DEF t
  <1>6. Len(e.code) \in Nat
    BY <1>3, BodyLen
  <1>7. \A i \in 1 .. Len(e.code) : 2 * (i - 1) \in S <=> i = n + 1
    BY <1>2, <1>6
  <1>8. \A i \in 1 .. Len(e.code) : 2 * (i - 1) \in S => e.code[i].op \in BranchOps
    BY <1>1, <1>3, <1>7
  <1> HIDE DEF S, Y, b
  <1>9. /\ b.code = d /\ b.pending = e.pending /\ b.atomic = e.atomic
        /\ Repatched(e.code, d)
        /\ \A i \in 1 .. Len(e.code) :
             IF 2 * (i - 1) \in S THEN Target(d, 2 * (i - 1)) = t ELSE d[i] = e.code[i]
        /\ Body(b, Y \cup S)
    <2>1. Patched(e, b, Y, S, t)
      BY <1>3, <1>4, <1>5, <1>8, PatchBody
    <2>2. b.code = d
      <3>1. IsAsm(e)
        BY <1>3, BodyLen
      <3> HIDE DEF d
      <3> QED
        BY <1>4, <3>1, SetCodeMakes
    <2> HIDE DEF d
    <2> QED
      BY <2>1, <2>2 DEF Patched
  <1> HIDE DEF d
  <1>10. Body(b, Y)
    <2>1. Y \cup S \subseteq Y
      BY DEF Y
    <2> QED
      BY <1>9, <2>1, BodyWider
  <1>11. \A i \in 1 .. n : i \in 1 .. Len(e.code) /\ d[i] = e.code[i]
    <2> SUFFICES ASSUME NEW i \in 1 .. n PROVE i \in 1 .. Len(e.code) /\ d[i] = e.code[i]
      OBVIOUS
    <2>1. i \in 1 .. Len(e.code) /\ i # n + 1
      BY <1>2, <1>3, <1>6
    <2> QED
      BY <1>7, <1>9, <2>1
  <1>12. Grows(a.code, d) /\ NoResume(a.code, d)
    BY <1>2, <1>3, <1>6, <1>9, <1>11, RepatchGrows DEF n
  <1>13. n + 1 \in 1 .. Len(e.code) /\ Len(d) = Len(e.code)
    BY <1>2, <1>3, <1>6, <1>9 DEF Repatched
  <1>14. d[n + 1].op = op
    BY <1>1, <1>3, <1>9, <1>13 DEF Repatched
  <1>15. Target(d, Pc(a)) = t
    <2> DEFINE m == n + 1
    <2>1. m \in 1 .. Len(e.code) /\ 2 * (m - 1) = Pc(a) /\ m = n + 1
      BY <1>2, <1>13
    <2> HIDE DEF m
    <2>2. 2 * (m - 1) \in S
      BY <1>7, <2>1
    <2>3. Target(d, 2 * (m - 1)) = t
      BY <1>9, <2>1, <2>2
    <2> QED
      BY <2>1, <2>3
  <1>16. Within(b, 2)
    BY <1>3, <1>9, <1>13 DEF Within, Pc
  <1>17. ASSUME b.pending # << >> PROVE Below(b.code, Y) /\ Len(b.code) = n + 1
    <2>1. Below(e.code, Y) /\ Len(e.code) = n + 1
      BY <1>3, <1>9, <1>17
    <2> SUFFICES ASSUME NEW i \in 1 .. Len(d), d[i].op \in BranchOps, 2 * (i - 1) \notin Y
                 PROVE  Target(d, 2 * (i - 1)) < 2 * Len(d)
      BY <1>9, <1>13, <2>1 DEF Below
    <2>a. 2 * (i - 1) \notin S
      BY DEF Y
    <2>2. i \in 1 .. Len(e.code) /\ d[i] = e.code[i] /\ i \in Int
      BY <1>6, <1>9, <1>13, <2>a
    <2>3. Target(d, 2 * (i - 1)) = Target(e.code, 2 * (i - 1))
      BY <2>2, AtIndex
    <2> QED
      BY <1>13, <2>1, <2>2, <2>3 DEF Below
  <1>18. Branched(a, b, X, op, t)
    BY <1>3, <1>9, <1>10, <1>12, <1>13, <1>14, <1>15, <1>16 DEF Branched, Y, S, n
  <1> QED
    BY <1>17, <1>18 DEF b, t, Y, S, n

LEMMA BranchToBody ==
  ASSUME NEW a, NEW X, Body(a, X), ~ a.atomic, Within(a, 2), ReachBounds,
         NEW op \in BranchOps, NEW head \in Int
  PROVE  Branched(a, BranchTo(a, op, head), X, op, LinkTarget(head, Pc(a)))
  <1> DEFINE l == Linked(a, op, head)
             t == LinkTarget(head, Pc(a))
             Y == X \cup {Pc(a)}
             b == FlushPool(l, FALSE)
             n == Len(a.code)
  <1>1. /\ Branched(a, l, X, op, t)
        /\ l.pending # << >> => Below(l.code, Y) /\ Len(l.code) = n + 1
    BY LinkedBody
  <1>2. CASE op # "b"
    BY <1>1, <1>2 DEF BranchTo
  <1>3. CASE op = "b"
    <2>1. BranchTo(a, op, head) = b
      BY <1>3 DEF BranchTo
    <2> HIDE DEF l, t
    <2>2. /\ Body(l, Y) /\ ~ l.atomic /\ Within(l, 2)
          /\ Grows(a.code, l.code) /\ NoResume(a.code, l.code) /\ Len(l.code) > n
          /\ l.code[n + 1].op = op /\ Target(l.code, Pc(a)) = t
      BY <1>1 DEF Branched
    <2>3. n \in Nat /\ Pc(a) = 2 * n /\ Len(l.code) \in Nat
      BY <2>2, BodyLen
    <2>4. Closed(l, Y)
      <3> SUFFICES ASSUME l.pending # << >>
                   PROVE  Below(l.code, Y) /\ Len(l.code) > 0
                          /\ l.code[Len(l.code)].op \in {"b", "bx", "slot"}
        BY DEF Closed
      <3> QED
        BY <1>1, <1>3, <2>2, <2>3
    <2>5. Within(l, 0)
      BY <2>2, WithinLess
    <2>6. /\ Body(b, Y) /\ b.pending = << >> /\ b.atomic = l.atomic
          /\ Extends(l.code, b.code) /\ NoSlots(l.code, b.code) /\ NoResume(l.code, b.code)
      BY <2>2, <2>4, <2>5, FlushBody DEF ReachBounds
    <2> HIDE DEF b, Y, n
    <2>7. Len(b.code) \in Nat /\ Len(l.code) <= Len(b.code)
      BY <2>6, BodyLen DEF Extends
    <2>8. Grows(a.code, b.code) /\ NoResume(a.code, b.code)
      BY <2>2, <2>3, <2>6, <2>7, ExtendsBoth, StartsBoth, NoneBoth DEF Grows, n
    <2> DEFINE m == n + 1
    <2>9. m \in 1 .. Len(l.code) /\ m \in Int /\ 2 * (m - 1) = Pc(a) /\ m = n + 1
      BY <2>2, <2>3
    <2> HIDE DEF m
    <2>10. b.code[m] = l.code[m] /\ b.code[m].op = op
      BY <1>3, <2>2, <2>6, <2>9 DEF Extends
    <2>11. Target(b.code, Pc(a)) = t
      <3>2. /\ Target(b.code, 2 * (m - 1)) = 2 * m + 2 + b.code[m].arg
            /\ Target(l.code, 2 * (m - 1)) = 2 * m + 2 + l.code[m].arg
        BY <2>9, AtIndex
      <3> QED
        BY <2>2, <2>9, <2>10, <3>2
    <2>12. Within(b, 2)
      BY <2>6 DEF Within
    <2>13. Branched(a, b, X, op, t)
      BY <2>2, <2>3, <2>6, <2>7, <2>8, <2>9, <2>10, <2>11, <2>12 DEF Branched, Y, n
    <2> QED
      BY <2>1, <2>13 DEF t
  <1> QED
    BY <1>2, <1>3

-----------------------------------------------------------------------------
(* Loads from the pool, and what an atomic block may hold. *)

(* The room that was made holds for the load itself: emitting it, in an atomic
   block or not, spills nothing between the check and the load. *)
LEMMA LoadSpillsNone ==
  ASSUME NEW a, NEW X, Body(a, X), ReachBounds, NEW h,
         a.pending # << >> => ~ ReachAtRisk(a, 1, 0) /\ ~ CountAtRisk(a, 1), MaxPending \in Nat
  PROVE  Emit(a, h) = DoEmit(a, h)
  <1> DEFINE e == DoEmit(a, h)
  <1>1. e.pending = a.pending /\ Len(e.code) = Len(a.code) + 1 /\ Len(a.code) \in Nat
    BY EmitMakes, AppendAt DEF Body, Typed, IsCode
  <1>2. Pc(e) = Pc(a) + 2
    BY <1>1 DEF Pc
  <1>3. CASE a.atomic \/ a.pending = << >>
    BY <1>1, <1>3 DEF Emit, EnsurePoolRoom
  <1>4. CASE ~ a.atomic /\ a.pending # << >>
    <2> DEFINE pc == Pc(a)
               len == Len(a.pending)
               s == a.pending[1].site
    <2>1. pc \in Nat /\ len \in Nat /\ s \in Nat
      BY <1>4, OldestIs
    <2>2. MaxReach \in Nat /\ ReachMargin \in Nat
      BY DEF ReachBounds
    <2>3. ~ ReachAtRisk(a, 1, 0) /\ ~ CountAtRisk(a, 1)
      BY <1>4
    <2>4. ~ (RoundUpToWord(pc + 2 + 0) + 4 * (len + 1) - s + ReachMargin > MaxReach)
      BY <2>3 DEF ReachAtRisk
    <2> HIDE DEF pc, len, s
    <2>5. /\ RoundUpToWord(pc + 2 + 2 + 0) <= RoundUpToWord(pc + 2 + 0) + 4
          /\ RoundUpToWord(pc + 2 + 2 + 0) \in Nat /\ RoundUpToWord(pc + 2 + 0) \in Nat
      BY <2>1 DEF RoundUpToWord
    <2>6. ~ (RoundUpToWord(pc + 2 + 2 + 0) + 4 * (len + 0) - s + ReachMargin > MaxReach)
      BY <2>1, <2>2, <2>4, <2>5
    <2>7. ~ ReachAtRisk(e, 0, 0)
      BY <1>1, <1>2, <2>6 DEF ReachAtRisk, pc, len, s
    <2>8. ~ CountAtRisk(e, 0)
      <3>1. ~ (len + 1 > MaxPending)
        BY <2>3 DEF CountAtRisk, len
      <3>2. ~ (len + 0 > MaxPending)
        BY <2>1, <3>1
      <3> QED
        BY <1>1, <3>2 DEF CountAtRisk, len
    <2> HIDE DEF e
    <2>9. EnsurePoolRoom(e, 0, 0) = e
      BY <2>7, <2>8 DEF EnsurePoolRoom
    <2> QED
      BY <1>4, <2>9 DEF Emit, e
  <1> QED
    BY <1>3, <1>4

LEMMA MaterializeBody ==
  ASSUME NEW a, NEW X, Body(a, X), ReachBounds, NEW j \in Nat, Within(a, j), NEW value,
         MaxPending \in Nat
  PROVE  LET b == Materialize(a, value, "pool")
         IN  /\ Body(b, X) /\ b.atomic = a.atomic
             /\ Grows(a.code, b.code) /\ Below(b.code, X)
             /\ value.kind # "resume" => NoResume(a.code, b.code)
             /\ Len(b.code) > Len(a.code)
             /\ \A k \in Nat : /\ k <= MaxReach - 2
                               /\ k + 6 <= j \/ k <= ReachMargin + 4
                              => Within(b, k)
             /\ b.pending # << >>
  <1> DEFINE e == EnsurePoolRoom(a, 1, 0)
             h == Halfword("ldr", 0, value)
             b == Materialize(a, value, "pool")
             c == a.code
  <1>1. Within(a, 0)
    BY WithinLess
  <1>2. /\ Body(e, X) /\ e.atomic = a.atomic
        /\ Grows(c, e.code) /\ NoResume(c, e.code)
        /\ e.pending = << >> \/ e = a
        /\ Within(e, 0 + 4 * 1 + ReachMargin + 6)
        /\ e.pending # << >> => ~ ReachAtRisk(e, 1, 0) /\ ~ CountAtRisk(e, 1)
    BY <1>1, EnsureRoom, 1 \in Nat, 0 \in Nat
  <1>3. b = [Emit(e, h) EXCEPT !.pending = Append(@, [site |-> Pc(e), value |-> value])]
    BY DEF Materialize, ParkPoolSite
  <1> HIDE DEF e, c
  <1>4. Emit(e, h) = DoEmit(e, h)
    BY <1>2, LoadSpillsNone
  <1>5. b = [DoEmit(e, h) EXCEPT !.pending = Append(@, [site |-> Pc(e), value |-> value])]
    BY <1>3, <1>4
  <1>6. /\ Len(c) \in Nat /\ Len(e.code) \in Nat /\ Pc(e) = 2 * Len(e.code)
    BY <1>2, BodyLen DEF c
  <1>7. e.pending = << >> \/ e.pending[1].site <= Pc(e)
    BY <1>2, OldestIs
  <1> HIDE DEF b
  <1>8. /\ Body(b, X) /\ Below(b.code, X)
        /\ Extends(e.code, b.code) /\ Starts(e.code, b.code)
        /\ b.atomic = e.atomic /\ Len(b.pending) = Len(e.pending) + 1
        /\ b.pending[1].site = IF e.pending = << >> THEN Pc(e) ELSE e.pending[1].site
        /\ b.pending # << >>
        /\ Len(b.code) = Len(e.code) + 1 /\ b.code[Len(e.code) + 1] = h
    BY <1>2, <1>5, <1>7, ParkBody
  <1>9. \A i \in 1 .. Len(b.code) : i > Len(e.code) => i = Len(e.code) + 1
    BY <1>6, <1>8
  <1>10. h.op = "ldr" /\ h.value = value
    BY HalfIs
  <1> HIDE DEF h
  <1>11. NoSlots(e.code, b.code) /\ (value.kind # "resume" => NoResume(e.code, b.code))
    BY <1>8, <1>9, <1>10 DEF NoSlots, NoResume
  <1>12. Len(b.code) \in Nat /\ Len(b.code) > Len(c) /\ Pc(b) = Pc(e) + 2
    BY <1>2, <1>6, <1>8 DEF Grows, Extends, Pc
  <1>13. Grows(e.code, b.code)
    BY <1>8, <1>11 DEF Grows
  <1>14. Grows(c, b.code) /\ (value.kind # "resume" => NoResume(c, b.code))
    BY <1>2, <1>6, <1>8, <1>11, <1>12, <1>13, GrowsBoth, NoneBoth
  <1>15. ASSUME NEW k \in Nat, k <= MaxReach - 2, k + 6 <= j \/ k <= ReachMargin + 4
         PROVE  Within(b, k)
    <2> DEFINE pc == Pc(e)
    <2>1. pc \in Nat /\ MaxReach \in Nat /\ ReachMargin \in Nat
      BY <1>6 DEF ReachBounds
    <2>2. CASE e.pending = << >>
      <3>1. Len(b.pending) = 1 /\ b.pending[1].site = pc /\ Pc(b) = pc + 2
        BY <1>8, <1>12, <2>2, IsSeqEmpty
      <3> HIDE DEF pc
      <3>2. pc + 2 + 4 * 1 - pc + k <= MaxReach + 4
        BY <1>15, <2>1
      <3> QED
        BY <3>1, <3>2 DEF Within
    <2>3. CASE e.pending # << >>
      <3> DEFINE len == Len(e.pending)
                 s == e.pending[1].site
      <3>1. len \in Nat /\ s \in Nat
        BY <1>2, <2>3, OldestIs
      <3>2. /\ pc + 4 * len - s + j <= MaxReach + 4
            /\ pc + 4 * len - s + (0 + 4 * 1 + ReachMargin + 6) <= MaxReach + 4
        BY <1>2, <2>3 DEF Within
      <3>3. Len(b.pending) = len + 1 /\ b.pending[1].site = s /\ Pc(b) = pc + 2
        BY <1>8, <1>12, <2>3
      <3> HIDE DEF pc, len, s
      <3>4. pc + 2 + 4 * (len + 1) - s + k <= MaxReach + 4
        BY <1>15, <2>1, <3>1, <3>2
      <3> QED
        BY <3>3, <3>4 DEF Within
    <2> QED
      BY <2>2, <2>3
  <1> QED
    BY <1>2, <1>8, <1>12, <1>14, <1>15 DEF b, c

(* One instruction of an atomic block. *)
Appends(a, b, h, X) ==
  /\ Body(b, X) /\ b.atomic = a.atomic /\ b.pending = a.pending
  /\ Grows(a.code, b.code) /\ Below(b.code, X)
  /\ Len(b.code) = Len(a.code) + 1 /\ b.code[Len(a.code) + 1] = h
  /\ \A i \in 1 .. Len(a.code) : b.code[i] = a.code[i]
  /\ h.op # "movs" \/ h.value.kind # "resume" => NoResume(a.code, b.code)
  /\ \A k \in Int : Within(a, k) => Within(b, k - 2)

LEMMA AppendHere ==
  ASSUME NEW a, NEW X, Body(a, X), NEW h, IsHalf(h), h.op \notin DataOps, h.op # "ldr",
         NEW Y, X \subseteq Y, h.op \in BranchOps => Pc(a) \in Y
  PROVE  /\ Body(DoEmit(a, h), Y) /\ Below(DoEmit(a, h).code, Y)
         /\ Extends(a.code, DoEmit(a, h).code) /\ Starts(a.code, DoEmit(a, h).code)
         /\ DoEmit(a, h).pending = a.pending /\ DoEmit(a, h).atomic = a.atomic
         /\ Len(DoEmit(a, h).code) = Len(a.code) + 1 /\ DoEmit(a, h).code[Len(a.code) + 1] = h
  <1> DEFINE e == DoEmit(a, h)
  <1>1. /\ Body(e, Y) /\ Below(e.code, Y)
        /\ Extends(a.code, e.code) /\ Starts(a.code, e.code)
        /\ e.pending = a.pending /\ e.atomic = a.atomic
        /\ Len(e.code) = Len(a.code) + 1 /\ e.code[Len(a.code) + 1] = h
    BY AppendBody
  <1> QED
    BY <1>1

LEMMA AtomicEmit ==
  ASSUME NEW a, NEW X, Body(a, X), a.atomic, ReachBounds,
         NEW h, IsHalf(h), h.op \notin DataOps, h.op # "ldr", h.op \notin BranchOps
  PROVE  Appends(a, Emit(a, h), h, X)
  <1> DEFINE b == Emit(a, h)
  <1>1. b = DoEmit(a, h)
    BY DEF Emit
  <1> HIDE DEF b
  <1>2. /\ Body(b, X) /\ Below(b.code, X)
        /\ Extends(a.code, b.code) /\ Starts(a.code, b.code)
        /\ b.pending = a.pending /\ b.atomic = a.atomic
        /\ Len(b.code) = Len(a.code) + 1 /\ b.code[Len(a.code) + 1] = h
        /\ \A i \in 1 .. Len(a.code) : b.code[i] = a.code[i]
    <2> DEFINE e == DoEmit(a, h)
    <2>1. /\ Body(e, X) /\ Below(e.code, X)
          /\ Extends(a.code, e.code) /\ Starts(a.code, e.code)
          /\ e.pending = a.pending /\ e.atomic = a.atomic
          /\ Len(e.code) = Len(a.code) + 1 /\ e.code[Len(a.code) + 1] = h
      BY AppendHere, X \subseteq X
    <2>2. \A i \in 1 .. Len(a.code) : e.code[i] = a.code[i]
      <3>1. e.code = Append(a.code, h) /\ IsSeq(a.code)
        BY EmitMakes DEF Body, Typed, IsCode
      <3> QED
        BY <3>1, AppendAt
    <2> HIDE DEF e
    <2> QED
      BY <1>1, <2>1, <2>2 DEF e
  <1>3. Len(a.code) \in Nat
    BY BodyLen
  <1>4. \A i \in 1 .. Len(b.code) : i > Len(a.code) => i = Len(a.code) + 1
    BY <1>2, <1>3
  <1>5. NoSlots(a.code, b.code)
    BY <1>2, <1>4 DEF NoSlots, DataOps
  <1>6. h.op # "movs" \/ h.value.kind # "resume" => NoResume(a.code, b.code)
    BY <1>2, <1>4 DEF NoResume
  <1>7. ASSUME NEW k \in Int, Within(a, k) PROVE Within(b, k - 2)
    <2>1. CASE a.pending = << >>
      BY <1>2, <2>1 DEF Within
    <2>2. CASE a.pending # << >>
      <3> DEFINE pc == Pc(a)
                 len == Len(a.pending)
                 s == a.pending[1].site
      <3>1. pc \in Nat /\ len \in Nat /\ s \in Nat /\ MaxReach \in Nat
        BY <2>2, OldestIs DEF ReachBounds
      <3>2. pc + 4 * len - s + k <= MaxReach + 4
        BY <1>7, <2>2 DEF Within
      <3>3. Pc(b) = pc + 2 /\ Len(b.pending) = len /\ b.pending[1].site = s
        BY <1>2, <1>3 DEF Pc
      <3> HIDE DEF pc, len, s
      <3>4. pc + 2 + 4 * len - s + (k - 2) <= MaxReach + 4
        BY <3>1, <3>2
      <3> QED
        BY <3>3, <3>4 DEF Within
    <2> QED
      BY <2>1, <2>2
  <1> QED
    BY <1>2, <1>5, <1>6, <1>7 DEF Appends, Grows, b

(* The jump to a helper that closes a block. *)
Helped(a, b, jump, X) ==
  /\ Body(b, X) /\ b.atomic = a.atomic /\ b.pending = a.pending
  /\ Grows(a.code, b.code) /\ NoResume(a.code, b.code) /\ Below(b.code, X)
  /\ Len(b.code) = Len(a.code) + 3
  /\ b.code[Len(a.code) + 1].op = "mov" /\ b.code[Len(a.code) + 2].op = "mov"
  /\ b.code[Len(a.code) + 3].op = jump
  /\ \A i \in 1 .. Len(a.code) : b.code[i] = a.code[i]
  /\ \A k \in Int : Within(a, k) => Within(b, k - 6)

LEMMA HelperBody ==
  ASSUME NEW a, NEW X, Body(a, X), a.atomic, ReachBounds, NEW jump \in {"bx", "blx"}
  PROVE  Helped(a, JumpToHelper(a, jump), jump, X)
  <1> DEFINE b == Emit(a, Isn("mov"))
             c == Emit(b, Isn("mov"))
             d == Emit(c, Isn(jump))
             n == Len(a.code)
  <1>1. /\ IsHalf(Isn("mov")) /\ Isn("mov").op = "mov"
        /\ IsHalf(Isn(jump)) /\ Isn(jump).op = jump
    BY HalfIs DEF Isn
  <1>2. \A op \in {"mov", "bx", "blx"} :
          op \notin DataOps /\ op # "ldr" /\ op \notin BranchOps /\ op # "movs"
    BY DEF DataOps, BranchOps
  <1> DEFINE g == Isn("mov")
             h == Isn(jump)
  <1>a. /\ IsHalf(g) /\ g.op \notin DataOps /\ g.op # "ldr" /\ g.op \notin BranchOps
        /\ IsHalf(h) /\ h.op \notin DataOps /\ h.op # "ldr" /\ h.op \notin BranchOps
    BY <1>1, <1>2
  <1>3. Appends(a, b, g, X)
    <2> HIDE DEF g
    <2> QED
      BY <1>a, AtomicEmit DEF g
  <1> HIDE DEF b
  <1>4. Appends(b, c, g, X)
    <2>1. Body(b, X) /\ b.atomic
      BY <1>3 DEF Appends
    <2> HIDE DEF g
    <2> QED
      BY <1>a, <2>1, AtomicEmit DEF g
  <1> HIDE DEF c
  <1>5. Appends(c, d, h, X)
    <2>1. Body(c, X) /\ c.atomic
      BY <1>3, <1>4 DEF Appends
    <2> HIDE DEF h
    <2> QED
      BY <1>a, <2>1, AtomicEmit DEF h
  <1>6. JumpToHelper(a, jump) = d
    BY DEF JumpToHelper, b, c
  <1> HIDE DEF d
  <1>7. /\ n \in Nat /\ Len(b.code) = n + 1 /\ Len(c.code) = n + 2 /\ Len(d.code) = n + 3
    BY <1>3, <1>4, <1>5, BodyLen DEF Appends
  <1>8. Grows(a.code, d.code) /\ NoResume(a.code, d.code)
    <2>1. /\ Grows(a.code, b.code) /\ Grows(b.code, c.code) /\ Grows(c.code, d.code)
          /\ NoResume(a.code, b.code) /\ NoResume(b.code, c.code) /\ NoResume(c.code, d.code)
      BY <1>1, <1>2, <1>3, <1>4, <1>5 DEF Appends
    <2>2. /\ Len(a.code) \in Nat /\ Len(b.code) \in Nat /\ Len(c.code) \in Nat /\ Len(d.code) \in Nat
      BY <1>7
    <2>3. Grows(a.code, c.code) /\ NoResume(a.code, c.code)
      BY <2>1, <2>2, GrowsBoth, NoneBoth DEF Grows
    <2> QED
      BY <2>1, <2>2, <2>3, GrowsBoth, NoneBoth DEF Grows
  <1>9. /\ d.code[n + 1].op = "mov" /\ d.code[n + 2].op = "mov" /\ d.code[n + 3].op = jump
        /\ \A i \in 1 .. n : d.code[i] = a.code[i]
    <2>1. /\ \A i \in 1 .. n : b.code[i] = a.code[i]
          /\ b.code[n + 1] = Isn("mov")
      BY <1>3 DEF Appends
    <2>2. /\ \A i \in 1 .. n + 1 : c.code[i] = b.code[i]
          /\ c.code[n + 1 + 1] = Isn("mov")
      BY <1>4, <1>7 DEF Appends
    <2>3. /\ \A i \in 1 .. n + 2 : d.code[i] = c.code[i]
          /\ d.code[n + 2 + 1] = Isn(jump)
      BY <1>5, <1>7 DEF Appends
    <2> HIDE DEF n
    <2>4. d.code[n + 3].op = jump
      BY <1>1, <1>7, <2>3
    <2>5. d.code[n + 2].op = "mov"
      <3>1. n + 1 + 1 = n + 2 /\ n + 2 \in 1 .. n + 2
        BY <1>7
      <3> QED
        BY <1>1, <2>2, <2>3, <3>1
    <2>6. d.code[n + 1].op = "mov"
      <3>1. n + 1 \in 1 .. n + 1 /\ n + 1 \in 1 .. n + 2
        BY <1>7
      <3> QED
        BY <1>1, <2>1, <2>2, <2>3, <3>1
    <2>7. ASSUME NEW i \in 1 .. n PROVE d.code[i] = a.code[i]
      <3>1. i \in 1 .. n + 1 /\ i \in 1 .. n + 2
        BY <1>7
      <3> QED
        BY <2>1, <2>2, <2>3, <3>1
    <2> QED
      BY <2>4, <2>5, <2>6, <2>7
  <1>10. ASSUME NEW k \in Int, Within(a, k) PROVE Within(d, k - 6)
    <2>1. Within(b, k - 2)
      BY <1>3, <1>10 DEF Appends
    <2>2. Within(c, k - 2 - 2)
      BY <1>4, <2>1, k - 2 \in Int DEF Appends
    <2>3. Within(d, k - 2 - 2 - 2)
      BY <1>5, <2>2, k - 2 - 2 \in Int DEF Appends
    <2> QED
      BY <2>3, k - 2 - 2 - 2 = k - 6
  <1>11. Body(d, X) /\ Below(d.code, X) /\ d.atomic = a.atomic /\ d.pending = a.pending
    BY <1>3, <1>4, <1>5 DEF Appends
  <1> QED
    BY <1>6, <1>7, <1>8, <1>9, <1>10, <1>11 DEF Helped, n

-----------------------------------------------------------------------------
(* What is emitted with the pool held back. *)

LEMMA AtomicBody ==
  ASSUME NEW a, NEW X, Body(a, X), NEW v \in BOOLEAN
  PROVE  LET b == [a EXCEPT !.atomic = v]
         IN  /\ Body(b, X) /\ b.code = a.code /\ b.pending = a.pending /\ b.atomic = v
             /\ \A k : Within(a, k) <=> Within(b, k)
  <1> DEFINE b == [a EXCEPT !.atomic = v]
  <1>1. IsAsm(a)
    BY DEF Body, Typed
  <1>2. b = [code |-> a.code, pending |-> a.pending, atomic |-> v]
    BY <1>1 DEF IsAsm
  <1>3. b.code = a.code /\ b.pending = a.pending /\ b.atomic = v
    BY <1>2
  <1>4. IsAsm(b)
    BY <1>1, SetAtomic
  <1> HIDE DEF b
  <1>5. Body(b, X)
    BY <1>3, <1>4 DEF Body, Typed, Parked, Loaded, Waits
  <1>6. \A k : Within(a, k) <=> Within(b, k)
    BY <1>3 DEF Within, Pc
  <1> QED
    BY <1>3, <1>5, <1>6 DEF b

(* Opening a block leaves room for what was asked for. *)
Opened(a, b, n, extra, X) ==
  /\ Body(b, X) /\ b.atomic /\ Grows(a.code, b.code) /\ NoResume(a.code, b.code)
  /\ Within(b, extra + 4 * n + ReachMargin + 6)
  /\ b.pending # << >> => ~ ReachAtRisk(b, n, extra) /\ ~ CountAtRisk(b, n)

LEMMA OpenBody ==
  ASSUME NEW a, NEW X, Body(a, X), Within(a, 2), NEW n \in Nat, NEW extra \in Nat, ReachBounds
  PROVE  Opened(a, OpenAtomic(a, n, extra), n, extra, X)
  <1> DEFINE e == EnsurePoolRoom(a, n, extra)
             b == OpenAtomic(a, n, extra)
  <1>1. Within(a, 0)
    BY WithinLess
  <1>2. /\ Body(e, X) /\ Grows(a.code, e.code) /\ NoResume(a.code, e.code)
        /\ Within(e, extra + 4 * n + ReachMargin + 6)
        /\ e.pending # << >> => ~ ReachAtRisk(e, n, extra) /\ ~ CountAtRisk(e, n)
    BY <1>1, EnsureRoom
  <1>3. b = [e EXCEPT !.atomic = TRUE]
    BY DEF OpenAtomic
  <1> HIDE DEF e, b
  <1>4. /\ Body(b, X) /\ b.code = e.code /\ b.pending = e.pending /\ b.atomic = TRUE
        /\ \A k : Within(e, k) <=> Within(b, k)
    BY <1>2, <1>3, AtomicBody
  <1>5. b.pending # << >> => ~ ReachAtRisk(b, n, extra) /\ ~ CountAtRisk(b, n)
    BY <1>2, <1>4 DEF ReachAtRisk, CountAtRisk, Pc
  <1>6. Within(b, extra + 4 * n + ReachMargin + 6)
    BY <1>2, <1>4
  <1> QED
    BY <1>2, <1>4, <1>5, <1>6 DEF Opened, b

(* A block that ends by going to a helper that does not come back here. *)
Left(e, r, X) ==
  /\ Body(r, X) /\ ~ r.atomic /\ Within(r, 2) /\ Closed(r, X)
  /\ Grows(e.code, r.code) /\ NoResume(e.code, r.code) /\ Len(r.code) = Len(e.code) + 3
  /\ r.code[Len(e.code) + 1].op = "mov" /\ r.code[Len(e.code) + 2].op = "mov"
  /\ r.code[Len(e.code) + 3].op = "bx"
  /\ \A i \in 1 .. Len(e.code) : r.code[i] = e.code[i]

LEMMA LeaveBody ==
  ASSUME NEW e, NEW X, Body(e, X), e.atomic, Within(e, 8), ReachBounds
  PROVE  Left(e, CloseAtomic(JumpToHelper(e, "bx")), X)
  <1> DEFINE d == JumpToHelper(e, "bx")
             r == CloseAtomic(d)
             n == Len(e.code)
  <1>1. Helped(e, d, "bx", X)
    BY HelperBody, "bx" \in {"bx", "blx"}
  <1>2. r = [d EXCEPT !.atomic = FALSE]
    BY DEF CloseAtomic
  <1> HIDE DEF d, r
  <1>3. Body(d, X) /\ Within(d, 8 - 6)
    BY <1>1, 8 \in Int DEF Helped
  <1>4. /\ Body(r, X) /\ r.code = d.code /\ r.pending = d.pending /\ r.atomic = FALSE
        /\ \A k : Within(d, k) <=> Within(r, k)
    BY <1>2, <1>3, AtomicBody
  <1>5. Within(r, 2)
    BY <1>3, <1>4, 8 - 6 = 2
  <1>6. n \in Nat
    BY BodyLen
  <1>7. Len(r.code) = n + 3 /\ r.code[n + 3].op = "bx"
    BY <1>1, <1>4 DEF Helped
  <1>8. Below(r.code, X)
    BY <1>1, <1>4 DEF Helped
  <1>9. Closed(r, X)
    BY <1>6, <1>7, <1>8 DEF Closed
  <1> QED
    BY <1>1, <1>4, <1>5, <1>7, <1>9 DEF Left, Helped, r, d

(* What an action on the assembler leaves: the body, and what was there. *)
Advances(a, b, X) ==
  /\ Body(b, X) /\ ~ b.atomic /\ Within(b, 2) /\ Grows(a.code, b.code)

LEMMA LeftFrom ==
  ASSUME NEW a, NEW e, NEW r, NEW X, Body(a, X), Body(e, X), Left(e, r, X),
         Grows(a.code, e.code), NoResume(a.code, e.code)
  PROVE  /\ Advances(a, r, X) /\ NoResume(a.code, r.code) /\ Closed(r, X)
         /\ Len(r.code) > Len(a.code)
  <1>1. Len(a.code) \in Nat /\ Len(e.code) \in Nat /\ Len(r.code) \in Nat
    BY BodyLen DEF Left
  <1>2. Grows(e.code, r.code) /\ NoResume(e.code, r.code)
    BY DEF Left
  <1>3. Grows(a.code, r.code) /\ NoResume(a.code, r.code)
    BY <1>1, <1>2, GrowsBoth, NoneBoth DEF Grows
  <1>4. Len(a.code) <= Len(e.code) /\ Len(r.code) = Len(e.code) + 3
    BY DEF Grows, Extends, Left
  <1>5. Len(r.code) > Len(a.code)
    BY <1>1, <1>4
  <1> QED
    BY <1>3, <1>5 DEF Left, Advances

LEMMA TrapBody ==
  ASSUME NEW a, NEW X, Body(a, X), Within(a, 2), ReachBounds
  PROVE  /\ Advances(a, EmitTrap(a), X) /\ NoResume(a.code, EmitTrap(a).code)
         /\ Closed(EmitTrap(a), X) /\ Len(EmitTrap(a).code) > Len(a.code)
  <1> DEFINE e == OpenAtomic(a, 0, 0)
             r == CloseAtomic(JumpToHelper(e, "bx"))
  <1>1. Opened(a, e, 0, 0, X)
    BY OpenBody, 0 \in Nat
  <1>2. EmitTrap(a) = r
    BY DEF EmitTrap
  <1> HIDE DEF e
  <1>3. Body(e, X) /\ e.atomic /\ Within(e, 0 + 4 * 0 + ReachMargin + 6)
        /\ Grows(a.code, e.code) /\ NoResume(a.code, e.code)
    BY <1>1 DEF Opened
  <1>4. ReachMargin + 6 >= 8 /\ ReachMargin + 6 \in Int /\ 0 + 4 * 0 + ReachMargin + 6 = ReachMargin + 6
    BY DEF ReachBounds
  <1>5. Within(e, 8)
    BY <1>3, <1>4, WithinLess, 8 \in Int
  <1>6. Left(e, r, X)
    BY <1>3, <1>5, LeaveBody
  <1> HIDE DEF r
  <1> QED
    BY <1>2, <1>3, <1>6, LeftFrom

LEMMA ReturnBody ==
  ASSUME NEW a, NEW X, Body(a, X), Within(a, 2), ReachBounds, MaxPending \in Nat, NEW reclaim
  PROVE  /\ Advances(a, EmitReturn(a, reclaim), X)
         /\ NoResume(a.code, EmitReturn(a, reclaim).code)
         /\ Closed(EmitReturn(a, reclaim), X) /\ Len(EmitReturn(a, reclaim).code) > Len(a.code)
  <1> DEFINE b == OpenAtomic(a, 1, 0)
             v == Literal(CHOOSE v \in reclaim : TRUE)
             m == Materialize(b, v, "pool")
             e == IF reclaim = {} THEN b ELSE m
             r == CloseAtomic(JumpToHelper(e, "bx"))
  <1>1. Opened(a, b, 1, 0, X)
    BY OpenBody, 0 \in Nat, 1 \in Nat
  <1>2. EmitReturn(a, reclaim) = r
    BY DEF EmitReturn
  <1>v. v.kind # "resume"
    BY DEF Literal
  <1> HIDE DEF b, v
  <1>3. Body(b, X) /\ b.atomic /\ Within(b, 0 + 4 * 1 + ReachMargin + 6)
        /\ Grows(a.code, b.code) /\ NoResume(a.code, b.code)
    BY <1>1 DEF Opened
  <1> DEFINE j == ReachMargin + 10
  <1>4. j \in Nat /\ 8 <= j /\ 0 + 4 * 1 + ReachMargin + 6 = j /\ 8 <= MaxReach - 2 /\ 8 <= ReachMargin + 4
    BY DEF ReachBounds
  <1> HIDE DEF j
  <1>5. Within(b, j) /\ Within(b, 8)
    BY <1>3, <1>4, WithinLess, 8 \in Int
  <1>6. Body(e, X) /\ e.atomic /\ Within(e, 8) /\ Grows(a.code, e.code) /\ NoResume(a.code, e.code)
    <2>1. CASE reclaim = {}
      BY <1>3, <1>5, <2>1
    <2>2. CASE reclaim # {}
      <3>1. /\ Body(m, X) /\ m.atomic = b.atomic
            /\ Grows(b.code, m.code)
            /\ v.kind # "resume" => NoResume(b.code, m.code)
            /\ \A k \in Nat : /\ k <= MaxReach - 2
                              /\ k + 6 <= j \/ k <= ReachMargin + 4
                             => Within(m, k)
        BY <1>3, <1>4, <1>5, MaterializeBody
      <3>2. Within(m, 8)
        BY <1>4, <3>1, 8 \in Nat
      <3> HIDE DEF m
      <3>3. Len(a.code) \in Nat /\ Len(b.code) \in Nat /\ Len(m.code) \in Nat
        BY <1>3, <3>1, BodyLen
      <3>4. Grows(a.code, m.code) /\ NoResume(a.code, m.code)
        BY <1>v, <1>3, <3>1, <3>3, GrowsBoth, NoneBoth DEF Grows
      <3> QED
        BY <1>3, <2>2, <3>1, <3>2, <3>4
    <2> QED
      BY <2>1, <2>2
  <1> HIDE DEF e
  <1>7. Left(e, r, X)
    BY <1>6, LeaveBody
  <1> HIDE DEF r
  <1> QED
    BY <1>2, <1>6, <1>7, LeftFrom

-----------------------------------------------------------------------------
(* What holds of the whole state. *)

Follows(S, s, t, end) ==
  IF \E r \in S : r < s THEN t \in S /\ t < s /\ \A r \in S : r < s => r <= t
                        ELSE t = end

HeadOf(S, head) ==
  IF S = {} THEN head = -1 ELSE head \in S /\ \A s \in S : s <= head

SiteIn(c, s) == \E i \in 1 .. Len(c) : s = 2 * (i - 1) /\ c[i].op \in BranchOps
SlotIn(c, s) == \E i \in 1 .. Len(c) : s = 2 * (i - 1) /\ c[i].op = "slot"

(* The branches that wait for a label, each linked to the one before it. *)
Chained(c, S, head) ==
  /\ HeadOf(S, head)
  /\ \A s \in S : SiteIn(c, s) /\ Follows(S, s, Target(c, s), s)

Chains(c, sites, heads) ==
  /\ sites = [l \in Labels |-> sites[l]] /\ heads = [l \in Labels |-> heads[l]]
  /\ \A l \in Labels : Chained(c, sites[l], heads[l])
  /\ \A l, m \in Labels : l # m => sites[l] \cap sites[m] = {}

SitesIn(sites) == UNION { sites[l] : l \in Labels }

BoundLand(c, bs, X) ==
  \A b \in bs : SiteIn(c, b[1]) /\ b[1] \notin X /\ Target(c, b[1]) = b[2]

LoopLands(c, start) == start = -1 \/ Lands(c, start)

Entered(es, base, j) == \E e \in es : e[1] = base /\ e[2] = j
InTable(tb, addr) == tb # NoTable /\ \E j \in 0 .. tb.cases : addr = tb.base + 2 * j

(* The cases so far that have nothing but DEFAULT. *)
GapsOf(tb, es) == { j \in 0 .. tb.next - 1 : ~ Entered(es, tb.base, j) }

Tabled(c, tb, es) ==
  tb = NoTable \/
    /\ tb = [base |-> tb.base, cases |-> tb.cases, next |-> tb.next, gaps |-> tb.gaps]
    /\ tb.base \in Nat /\ tb.cases \in Nat /\ tb.next \in 0 .. tb.cases
    /\ \A j \in 0 .. tb.cases : SlotIn(c, tb.base + 2 * j)
    /\ HeadOf(GapsOf(tb, es), tb.gaps)
    /\ \A j \in GapsOf(tb, es) : Follows(GapsOf(tb, es), j, At(c, tb.base + 2 * j).arg, -1)

Entries(c, es, tb) ==
  \A e \in es :
    /\ e[1] \in Nat /\ e[2] \in Nat /\ SlotIn(c, e[1] + 2 * e[2])
    /\ e[1] + At(c, e[1] + 2 * e[2]).arg = e[3] /\ Lands(c, e[3])
    /\ tb # NoTable /\ e[1] = tb.base => e[2] < tb.next
    /\ InTable(tb, e[1] + 2 * e[2]) => e[1] = tb.base

Slots(c, es, tb) ==
  \A i \in 1 .. Len(c) : c[i].op = "slot" =>
    \/ \E e \in es : e[1] + 2 * e[2] = 2 * (i - 1)
    \/ InTable(tb, 2 * (i - 1))

Resuming(c) ==
  \A i \in 1 .. Len(c) :
    (c[i].op \in {"ldr", "movs"} /\ c[i].value.kind = "resume") =>
      LET last == c[i].value.of \div 2
      IN  /\ c[i].value.of \in Nat /\ last \in i + 1 .. Len(c) /\ c[last].op = "bx"
          /\ \A j \in i .. last - 1 : c[j].op # "bx"

(* All of it but the code itself. *)
Tracked(c, sites, heads, bs, start, es, tb) ==
  /\ Chains(c, sites, heads) /\ BoundLand(c, bs, SitesIn(sites)) /\ LoopLands(c, start)
  /\ Tabled(c, tb, es) /\ Entries(c, es, tb) /\ Slots(c, es, tb)

Built(a, sites) ==
  Body(a, SitesIn(sites)) /\ ~ a.atomic /\ Within(a, 2)

BothFromPool == "pool" \in Records /\ "pool" \in Callees

StateInv ==
  /\ inst \in Instances
  /\ Built(asm, open)
  /\ Tracked(asm.code, open, chain, bound, loop, entries, table)
  /\ ~ BothFromPool => Resuming(asm.code)
  /\ status = "finished" => asm.pending = << >>

-----------------------------------------------------------------------------
(* A call. *)

LEMMA MaterializeAny ==
  ASSUME NEW b, NEW X, Body(b, X), b.atomic, ReachBounds, NEW j \in Nat, Within(b, j), NEW value,
         NEW how \in {"imm8", "pool"}, MaxPending \in Nat
  PROVE  LET c == Materialize(b, value, how)
         IN  /\ Body(c, X) /\ c.atomic = b.atomic /\ Grows(b.code, c.code)
             /\ Len(c.code) > Len(b.code)
             /\ \A k \in Nat : /\ k <= MaxReach - 2
                               /\ k + 6 <= j \/ (k + 2 <= j /\ k <= ReachMargin + 4)
                              => Within(c, k)
  <1> DEFINE c == Materialize(b, value, how)
             h == Halfword("movs", 0, value)
  <1>1. CASE how = "pool"
    <2> DEFINE p == Materialize(b, value, "pool")
    <2>1. /\ Body(p, X) /\ p.atomic = b.atomic /\ Grows(b.code, p.code)
          /\ Len(p.code) > Len(b.code)
          /\ \A k \in Nat : /\ k <= MaxReach - 2
                            /\ k + 6 <= j \/ k <= ReachMargin + 4
                           => Within(p, k)
      BY MaterializeBody
    <2>2. c = p
      BY <1>1
    <2> HIDE DEF c, p
    <2> QED
      BY <2>1, <2>2 DEF c
  <1>2. CASE how = "imm8"
    <2>1. c = Emit(b, h)
      BY <1>2 DEF Materialize
    <2>2. IsHalf(h) /\ h.op = "movs"
      BY HalfIs
    <2>3. IsHalf(h) /\ h.op \notin DataOps /\ h.op # "ldr" /\ h.op \notin BranchOps
      BY <2>2 DEF DataOps, BranchOps
    <2> HIDE DEF h, c
    <2>4. Appends(b, c, h, X)
      BY <2>1, <2>3, AtomicEmit
    <2>5. ASSUME NEW k \in Nat, k + 2 <= j PROVE Within(c, k)
      <3>1. Within(b, k + 2)
        BY <2>5, WithinLess
      <3>2. Within(c, k + 2 - 2)
        BY <2>4, <3>1, k + 2 \in Int DEF Appends
      <3> QED
        BY <3>2, k + 2 - 2 = k
    <2>6. ASSUME NEW k \in Nat, k + 6 <= j PROVE k + 2 <= j
      BY <2>6
    <2>7. Len(c.code) > Len(b.code)
      BY <2>4, BodyLen DEF Appends
    <2> QED
      BY <2>4, <2>5, <2>6, <2>7 DEF Appends, c
  <1> QED
    BY <1>1, <1>2

(* The steps of a call: the block opened, its record's load and its callee's,
   and the jump. *)
Called(a, b, c, d, r, X) ==
  /\ Opened(a, b, 2, 0, X)
  /\ Body(c, X) /\ c.atomic /\ Grows(b.code, c.code)
  /\ Body(d, X) /\ d.atomic /\ Grows(c.code, d.code)
  /\ Left(d, r, X)

LEMMA CallMakes ==
  ASSUME NEW a, NEW X, Body(a, X), Within(a, 2), ReachBounds, MaxPending \in Nat,
         NEW record \in {"imm8", "pool"}, NEW calleeHow \in {"imm8", "pool"}, NEW callee
  PROVE  \E b, c, d :
           /\ Called(a, b, c, d, EmitCall(a, record, calleeHow, callee), X)
           /\ c = Materialize(b, Resume(Pc(b) + CallSequenceBytes), record)
           /\ d = Materialize(c, Literal(callee), calleeHow)
  <1> DEFINE b      == OpenAtomic(a, 2, 0)
             resume == Resume(Pc(b) + CallSequenceBytes)
             c      == Materialize(b, resume, record)
             v      == Literal(callee)
             d      == Materialize(c, v, calleeHow)
             r      == CloseAtomic(JumpToHelper(d, "bx"))
             j      == ReachMargin + 14
  <1>1. EmitCall(a, record, calleeHow, callee) = r
    BY DEF EmitCall
  <1>2. Opened(a, b, 2, 0, X)
    BY OpenBody, 0 \in Nat, 2 \in Nat
  <1> HIDE DEF b, resume, v
  <1>3. Body(b, X) /\ b.atomic /\ Within(b, 0 + 4 * 2 + ReachMargin + 6) /\ Grows(a.code, b.code)
    BY <1>2 DEF Opened
  <1>4. /\ j \in Nat /\ 0 + 4 * 2 + ReachMargin + 6 = j /\ 10 <= MaxReach - 2 /\ 10 + 6 <= j
        /\ 8 <= MaxReach - 2 /\ 8 + 2 <= 10 /\ 8 <= ReachMargin + 4
    BY DEF ReachBounds
  <1> HIDE DEF j
  <1>5. Within(b, j)
    BY <1>3, <1>4
  <1>6. /\ Body(c, X) /\ c.atomic = b.atomic /\ Grows(b.code, c.code)
        /\ Len(c.code) > Len(b.code)
        /\ \A k \in Nat : /\ k <= MaxReach - 2
                          /\ k + 6 <= j \/ (k + 2 <= j /\ k <= ReachMargin + 4)
                         => Within(c, k)
    BY <1>3, <1>4, <1>5, MaterializeAny
  <1> HIDE DEF c
  <1>7. Within(c, 10)
    <2> DEFINE k == 10
    <2>1. k \in Nat /\ k <= MaxReach - 2 /\ k + 6 <= j
      BY <1>4
    <2> HIDE DEF k
    <2>2. Within(c, k)
      BY <1>4, <1>6, <2>1 DEF ReachBounds
    <2> QED
      BY <2>2 DEF k
  <1>8. /\ Body(d, X) /\ d.atomic = c.atomic /\ Grows(c.code, d.code)
        /\ Len(d.code) > Len(c.code)
        /\ \A k \in Nat : /\ k <= MaxReach - 2
                          /\ k + 6 <= 10 \/ (k + 2 <= 10 /\ k <= ReachMargin + 4)
                         => Within(d, k)
    BY <1>3, <1>6, <1>7, MaterializeAny, 10 \in Nat
  <1>9. Within(d, 8)
    BY <1>4, <1>8, 8 \in Nat
  <1> HIDE DEF d
  <1>10. Left(d, r, X)
    BY <1>3, <1>6, <1>8, <1>9, LeaveBody
  <1> HIDE DEF r
  <1>11. Called(a, b, c, d, r, X)
    BY <1>2, <1>3, <1>6, <1>8, <1>10 DEF Called
  <1> QED
    BY <1>1, <1>11 DEF c, d, v, resume

LEMMA CallBody ==
  ASSUME NEW a, NEW X, Body(a, X), Within(a, 2), ReachBounds, MaxPending \in Nat,
         NEW record \in {"imm8", "pool"}, NEW calleeHow \in {"imm8", "pool"}, NEW callee
  PROVE  /\ Advances(a, EmitCall(a, record, calleeHow, callee), X)
         /\ Len(EmitCall(a, record, calleeHow, callee).code) > Len(a.code)
  <1> DEFINE r == EmitCall(a, record, calleeHow, callee)
  <1>1. \E b, c, d : Called(a, b, c, d, r, X)
    BY CallMakes
  <1> HIDE DEF r
  <1>2. PICK b, c, d : Called(a, b, c, d, r, X)
    BY <1>1
  <1>3. /\ Body(b, X) /\ Grows(a.code, b.code) /\ Body(c, X) /\ Grows(b.code, c.code)
        /\ Body(d, X) /\ Grows(c.code, d.code)
    BY <1>2 DEF Called, Opened
  <1>4. Body(r, X) /\ Grows(d.code, r.code) /\ Len(r.code) = Len(d.code) + 3
        /\ ~ r.atomic /\ Within(r, 2)
    BY <1>2 DEF Called, Left
  <1>5. /\ Len(a.code) \in Nat /\ Len(b.code) \in Nat /\ Len(c.code) \in Nat
        /\ Len(d.code) \in Nat /\ Len(r.code) \in Nat
    BY <1>3, <1>4, BodyLen
  <1>6. Grows(a.code, c.code)
    BY <1>3, <1>5, GrowsBoth
  <1>7. Grows(a.code, d.code)
    BY <1>3, <1>5, <1>6, GrowsBoth
  <1>8. Grows(a.code, r.code)
    BY <1>4, <1>5, <1>7, GrowsBoth
  <1>9. Len(a.code) <= Len(d.code)
    BY <1>7 DEF Grows, Extends
  <1>10. Len(r.code) > Len(a.code)
    BY <1>4, <1>5, <1>9
  <1> QED
    BY <1>4, <1>8, <1>10 DEF Advances, r

-----------------------------------------------------------------------------
(* Where a call resumes. *)

LEMMA ResumingGrown ==
  ASSUME NEW c, NEW d, Len(c) \in Nat, Len(d) \in Nat, Resuming(c), Extends(c, d), NoResume(c, d)
  PROVE  Resuming(d)
  <1> SUFFICES ASSUME NEW i \in 1 .. Len(d),
                      d[i].op \in {"ldr", "movs"}, d[i].value.kind = "resume",
                      NEW last, last = d[i].value.of \div 2
               PROVE  /\ d[i].value.of \in Nat /\ last \in i + 1 .. Len(d) /\ d[last].op = "bx"
                      /\ \A j \in i .. last - 1 : d[j].op # "bx"
    BY DEF Resuming
  <1>1. i \in 1 .. Len(c)
    BY DEF NoResume
  <1>2. /\ Len(c) <= Len(d)
        /\ \A k \in 1 .. Len(c) : d[k].op = c[k].op /\ d[k].value = c[k].value
    BY DEF Extends
  <1>3. /\ c[i].value.of \in Nat /\ last \in i + 1 .. Len(c) /\ c[last].op = "bx"
        /\ \A j \in i .. last - 1 : c[j].op # "bx"
    BY <1>1, <1>2 DEF Resuming
  <1>4. \A j \in i .. last - 1 : j \in 1 .. Len(c)
    BY <1>1, <1>3
  <1>5. last \in 1 .. Len(c) /\ last \in i + 1 .. Len(d)
    BY <1>1, <1>2, <1>3
  <1> QED
    BY <1>1, <1>2, <1>3, <1>4, <1>5

(* One halfword that loads a value, and nothing else. *)
Placed(b, c, value) ==
  /\ Len(c.code) = Len(b.code) + 1
  /\ \A i \in 1 .. Len(b.code) : c.code[i].op = b.code[i].op /\ c.code[i].value = b.code[i].value
  /\ c.code[Len(b.code) + 1].op \in {"movs", "ldr"}
  /\ c.code[Len(b.code) + 1].value = value

LEMMA PlaceAtomic ==
  ASSUME NEW b, NEW X, Body(b, X), b.atomic, NEW value, NEW how \in {"imm8", "pool"},
         ReachBounds, MaxPending \in Nat,
         how = "pool" /\ b.pending # << >> => ~ ReachAtRisk(b, 1, 0) /\ ~ CountAtRisk(b, 1)
  PROVE  LET c == Materialize(b, value, how)
         IN  /\ Placed(b, c, value)
             /\ how = "imm8" => c.pending = b.pending
  <1> DEFINE c == Materialize(b, value, how)
             g == Halfword("movs", 0, value)
             h == Halfword("ldr", 0, value)
             n == Len(b.code)
  <1>1. IsAsm(b) /\ IsSeq(b.code) /\ Typed(b)
    BY DEF Body, Typed, IsCode
  <1>2. CASE how = "imm8"
    <2>1. c = DoEmit(b, g)
      BY <1>2 DEF Materialize, Emit
    <2>2. g.op = "movs" /\ g.value = value
      BY HalfIs
    <2> HIDE DEF g, c
    <2>3. c.code = Append(b.code, g) /\ c.pending = b.pending
      BY <1>1, <2>1, EmitMakes
    <2>4. /\ Len(c.code) = n + 1 /\ c.code[n + 1] = g
          /\ \A i \in 1 .. n : c.code[i] = b.code[i]
      BY <1>1, <2>3, AppendAt
    <2> QED
      BY <2>2, <2>3, <2>4 DEF Placed, c
  <1>3. CASE how = "pool"
    <2>1. EnsurePoolRoom(b, 1, 0) = b
      BY <1>3 DEF EnsurePoolRoom
    <2>2. c = [Emit(b, h) EXCEPT !.pending = Append(@, [site |-> Pc(b), value |-> value])]
      BY <1>3, <2>1 DEF Materialize, ParkPoolSite
    <2>3. Emit(b, h) = DoEmit(b, h)
      BY DEF Emit
    <2> DEFINE e == DoEmit(b, h)
    <2>4. c = [e EXCEPT !.pending = Append(@, [site |-> Pc(b), value |-> value])]
      BY <2>2, <2>3
    <2>5. h.op = "ldr" /\ h.value = value
      BY HalfIs
    <2> HIDE DEF h
    <2>6. e.code = Append(b.code, h) /\ IsAsm(e)
      BY <1>1, EmitMakes
    <2> HIDE DEF e, c
    <2>7. c.code = e.code
      <3> DEFINE q == Append(e.pending, [site |-> Pc(b), value |-> value])
      <3>1. c = [e EXCEPT !.pending = q]
        BY <2>4
      <3> HIDE DEF q
      <3>2. e = [code |-> e.code, pending |-> e.pending, atomic |-> e.atomic]
        BY <2>6 DEF IsAsm
      <3>3. c = [code |-> e.code, pending |-> q, atomic |-> e.atomic]
        BY <3>1, <3>2
      <3> QED
        BY <3>3
    <2>8. /\ Len(c.code) = n + 1 /\ c.code[n + 1] = h
          /\ \A i \in 1 .. n : c.code[i] = b.code[i]
      BY <1>1, <2>6, <2>7, AppendAt
    <2> QED
      BY <1>3, <2>5, <2>8 DEF Placed, c
  <1> QED
    BY <1>2, <1>3

(* The reservation of two entries is enough for one of them after a load of
   the other kind. *)
LEMMA LessAtRisk ==
  ASSUME NEW b, NEW X, Body(b, X), b.pending # << >>, ReachBounds, MaxPending \in Nat,
         ~ ReachAtRisk(b, 2, 0), ~ CountAtRisk(b, 2)
  PROVE  /\ ~ ReachAtRisk(b, 1, 0) /\ ~ CountAtRisk(b, 1)
         /\ \A c : c.pending = b.pending /\ Len(c.code) = Len(b.code) + 1 =>
              ~ ReachAtRisk(c, 1, 0) /\ ~ CountAtRisk(c, 1)
  <1> DEFINE pc == Pc(b)
             len == Len(b.pending)
             s == b.pending[1].site
             m == Len(b.code)
  <1>1. pc \in Nat /\ len \in Nat /\ s \in Nat /\ m \in Nat /\ pc = 2 * m
    BY OldestIs, BodyLen
  <1>2. MaxReach \in Nat /\ ReachMargin \in Nat
    BY DEF ReachBounds
  <1>3. ~ (RoundUpToWord(pc + 2 + 0) + 4 * (len + 2) - s + ReachMargin > MaxReach)
    BY DEF ReachAtRisk
  <1>4. ~ (len + 2 > MaxPending)
    BY DEF CountAtRisk
  <1>5. \A c : c.pending = b.pending /\ Len(c.code) = m + 1 => Pc(c) = 2 * (m + 1)
    BY DEF Pc
  <1> HIDE DEF pc, len, s, m
  <1>6. /\ RoundUpToWord(pc + 2 + 0) \in Nat /\ RoundUpToWord(pc + 2 + 2 + 0) \in Nat
        /\ RoundUpToWord(pc + 2 + 2 + 0) <= RoundUpToWord(pc + 2 + 0) + 4
    BY <1>1 DEF RoundUpToWord
  <1>7. ~ (RoundUpToWord(pc + 2 + 0) + 4 * (len + 1) - s + ReachMargin > MaxReach)
    BY <1>1, <1>2, <1>3, <1>6
  <1>8. ~ (RoundUpToWord(pc + 2 + 2 + 0) + 4 * (len + 1) - s + ReachMargin > MaxReach)
    BY <1>1, <1>2, <1>3, <1>6
  <1>9. ~ (len + 1 > MaxPending)
    BY <1>1, <1>4
  <1>10. ~ ReachAtRisk(b, 1, 0) /\ ~ CountAtRisk(b, 1)
    BY <1>7, <1>9 DEF ReachAtRisk, CountAtRisk, pc, len, s
  <1>11. ASSUME NEW c, c.pending = b.pending, Len(c.code) = Len(b.code) + 1
         PROVE  ~ ReachAtRisk(c, 1, 0) /\ ~ CountAtRisk(c, 1)
    <2>1. Pc(c) = pc + 2
      BY <1>1, <1>5, <1>11 DEF m
    <2>2. ~ (RoundUpToWord(Pc(c) + 2 + 0) + 4 * (len + 1) - s + ReachMargin > MaxReach)
      BY <1>8, <2>1
    <2> QED
      BY <1>9, <1>11, <2>2 DEF ReachAtRisk, CountAtRisk, len, s
  <1> QED
    BY <1>10, <1>11

LEMMA CallResumes ==
  ASSUME NEW a, NEW X, Body(a, X), Within(a, 2), ReachBounds, MaxPending \in Nat,
         NEW record \in {"imm8", "pool"}, NEW calleeHow \in {"imm8", "pool"}, NEW callee,
         ~ (record = "pool" /\ calleeHow = "pool"), Resuming(a.code)
  PROVE  Resuming(EmitCall(a, record, calleeHow, callee).code)
  <1> DEFINE r == EmitCall(a, record, calleeHow, callee)
             v == Literal(callee)
  <1>1. \E b, c, d :
           /\ Called(a, b, c, d, r, X)
           /\ c = Materialize(b, Resume(Pc(b) + CallSequenceBytes), record)
           /\ d = Materialize(c, v, calleeHow)
    BY CallMakes
  <1>v. v.kind # "resume"
    BY DEF Literal
  <1> HIDE DEF r, v
  <1>2. PICK b, c, d :
           /\ Called(a, b, c, d, r, X)
           /\ c = Materialize(b, Resume(Pc(b) + CallSequenceBytes), record)
           /\ d = Materialize(c, v, calleeHow)
    BY <1>1
  <1> DEFINE n == Len(b.code)
             back == Resume(Pc(b) + CallSequenceBytes)
  <1>3. /\ Body(b, X) /\ b.atomic /\ Grows(a.code, b.code) /\ NoResume(a.code, b.code)
        /\ b.pending # << >> => ~ ReachAtRisk(b, 2, 0) /\ ~ CountAtRisk(b, 2)
        /\ Body(c, X) /\ c.atomic
    BY <1>2 DEF Called, Opened
  <1>4. b.pending # << >> =>
          /\ ~ ReachAtRisk(b, 1, 0) /\ ~ CountAtRisk(b, 1)
          /\ \A e : e.pending = b.pending /\ Len(e.code) = Len(b.code) + 1 =>
               ~ ReachAtRisk(e, 1, 0) /\ ~ CountAtRisk(e, 1)
    BY <1>3, LessAtRisk
  <1>5. Placed(b, c, back) /\ (record = "imm8" => c.pending = b.pending)
    BY <1>2, <1>3, <1>4, PlaceAtomic
  <1>6. calleeHow = "pool" /\ c.pending # << >> => ~ ReachAtRisk(c, 1, 0) /\ ~ CountAtRisk(c, 1)
    <2> SUFFICES ASSUME calleeHow = "pool", c.pending # << >>
                 PROVE  ~ ReachAtRisk(c, 1, 0) /\ ~ CountAtRisk(c, 1)
      OBVIOUS
    <2>1. c.pending = b.pending
      BY <1>5
    <2>2. Len(c.code) = Len(b.code) + 1
      BY <1>5 DEF Placed
    <2> QED
      BY <1>4, <2>1, <2>2
  <1>7. Placed(c, d, v)
    BY <1>2, <1>3, <1>6, PlaceAtomic
  <1>8. Left(d, r, X) /\ Body(d, X)
    BY <1>2 DEF Called
  <1>9. /\ n \in Nat /\ Len(a.code) \in Nat /\ Len(c.code) = n + 1 /\ Len(d.code) = n + 2
        /\ Len(r.code) = n + 5 /\ Pc(b) = 2 * n
    <2>1. Len(c.code) = n + 1 /\ Len(d.code) = Len(c.code) + 1 /\ Len(r.code) = Len(d.code) + 3
      BY <1>5, <1>7, <1>8 DEF Placed, Left
    <2>2. n \in Nat /\ Len(a.code) \in Nat /\ Pc(b) = 2 * n
      BY <1>3, BodyLen
    <2> QED
      BY <2>1, <2>2
  <1>10. Resuming(b.code)
    BY <1>3, <1>9, ResumingGrown DEF Grows
  <1> HIDE DEF back
  <1> HIDE DEF n
  <1>11. \A i \in 1 .. n : r.code[i].op = b.code[i].op /\ r.code[i].value = b.code[i].value
    <2> SUFFICES ASSUME NEW i \in 1 .. n
                 PROVE  r.code[i].op = b.code[i].op /\ r.code[i].value = b.code[i].value
      OBVIOUS
    <2>1. i \in 1 .. n + 1 /\ i \in 1 .. n + 2
      BY <1>9
    <2>2. c.code[i].op = b.code[i].op /\ c.code[i].value = b.code[i].value
      BY <1>5 DEF Placed, n
    <2>3. d.code[i].op = c.code[i].op /\ d.code[i].value = c.code[i].value
      BY <1>7, <1>9, <2>1 DEF Placed
    <2>4. r.code[i] = d.code[i]
      BY <1>8, <1>9, <2>1 DEF Left
    <2> QED
      BY <2>2, <2>3, <2>4
  <1>12. r.code[n + 1].op # "bx" /\ r.code[n + 1].value = back
    <2>1. n + 1 \in 1 .. n + 1 /\ n + 1 \in 1 .. n + 2
      BY <1>9
    <2>2. c.code[n + 1].op \in {"movs", "ldr"} /\ c.code[n + 1].value = back
      BY <1>5 DEF Placed, n
    <2>3. d.code[n + 1].op = c.code[n + 1].op /\ d.code[n + 1].value = c.code[n + 1].value
      BY <1>7, <1>9, <2>1 DEF Placed
    <2>4. r.code[n + 1] = d.code[n + 1]
      BY <1>8, <1>9, <2>1 DEF Left
    <2> QED
      BY <2>2, <2>3, <2>4
  <1>13. r.code[n + 2].op # "bx" /\ r.code[n + 2].value = v
    <2>1. n + 2 \in 1 .. n + 2 /\ n + 1 + 1 = n + 2
      BY <1>9
    <2>2. d.code[n + 2].op \in {"movs", "ldr"} /\ d.code[n + 2].value = v
      BY <1>7, <1>9, <2>1 DEF Placed
    <2>3. r.code[n + 2] = d.code[n + 2]
      BY <1>8, <1>9, <2>1 DEF Left
    <2> QED
      BY <2>2, <2>3
  <1>14. r.code[n + 3].op = "mov" /\ r.code[n + 4].op = "mov" /\ r.code[n + 5].op = "bx"
    <2>1. n + 2 + 1 = n + 3 /\ n + 2 + 2 = n + 4 /\ n + 2 + 3 = n + 5
      BY <1>9
    <2> QED
      BY <1>8, <1>9, <2>1 DEF Left
  <1>15. back.of = 2 * n + 10 /\ (2 * n + 10) \div 2 = n + 5 /\ 2 * n + 10 \in Nat
    BY <1>9 DEF back, Resume, CallSequenceBytes
  <1>16. Resuming(r.code)
    <2> SUFFICES ASSUME NEW i \in 1 .. n + 5,
                        r.code[i].op \in {"ldr", "movs"}, r.code[i].value.kind = "resume",
                        NEW last, last = r.code[i].value.of \div 2
                 PROVE  /\ r.code[i].value.of \in Nat /\ last \in i + 1 .. n + 5
                        /\ r.code[last].op = "bx"
                        /\ \A j \in i .. last - 1 : r.code[j].op # "bx"
      BY <1>9 DEF Resuming
    <2>1. i \in 1 .. n \/ i = n + 1 \/ i = n + 2 \/ i = n + 3 \/ i = n + 4 \/ i = n + 5
      BY <1>9
    <2>2. CASE i \in 1 .. n
      <3>1. b.code[i].op \in {"ldr", "movs"} /\ b.code[i].value.kind = "resume"
            /\ last = b.code[i].value.of \div 2 /\ r.code[i].value.of = b.code[i].value.of
        BY <1>11, <2>2
      <3>2. /\ b.code[i].value.of \in Nat /\ last \in i + 1 .. n /\ b.code[last].op = "bx"
            /\ \A j \in i .. last - 1 : b.code[j].op # "bx"
        BY <1>10, <2>2, <3>1 DEF Resuming, n
      <3>3. \A j \in i .. last - 1 : j \in 1 .. n
        <4>1. last \in i + 1 .. n /\ n \in Nat
          BY <1>9, <3>2
        <4> QED
          BY ONLY <2>2, <4>1
      <3>4. last \in 1 .. n /\ last \in i + 1 .. n + 5
        BY <1>9, <2>2, <3>2
      <3> QED
        BY <1>11, <3>1, <3>2, <3>3, <3>4
    <2>3. CASE i = n + 1
      <3>1. last = n + 5 /\ r.code[i].value.of \in Nat
        BY <1>12, <1>15, <2>3
      <3>2. \A j \in i .. last - 1 : j = n + 1 \/ j = n + 2 \/ j = n + 3 \/ j = n + 4
        BY <1>9, <2>3, <3>1
      <3>3. last \in i + 1 .. n + 5
        BY <1>9, <2>3, <3>1
      <3> QED
        BY <1>12, <1>13, <1>14, <3>1, <3>2, <3>3
    <2>4. i # n + 2 /\ i # n + 3 /\ i # n + 4 /\ i # n + 5
      BY <1>13, <1>14, <1>v
    <2> QED
      BY <2>1, <2>2, <2>3, <2>4
  <1> QED
    BY <1>16 DEF r

-----------------------------------------------------------------------------
(* The table of a switch. *)

Dispatched(a, d, n, X) ==
  /\ Body(d, X) /\ d.atomic /\ Grows(a.code, d.code) /\ NoResume(a.code, d.code)
  /\ Len(d.code) > Len(a.code) /\ d.code[Len(d.code)].op = "blx" /\ Below(d.code, X)
  /\ Within(d, 2 * (n + 1) + 2)

LEMMA DispatchBody ==
  ASSUME NEW a, NEW X, Body(a, X), ~ a.atomic, Within(a, 2), ReachBounds, NEW n \in Nat
  PROVE  Dispatched(a, EmitDispatch(a, n), n, X)
  <1> DEFINE h == Isn("mov")
             m == Emit(a, h)
             b == OpenAtomic(m, 0, TableBytes(n))
             d == JumpToHelper(b, "blx")
  <1>1. EmitDispatch(a, n) = d
    BY DEF EmitDispatch
  <1>2. IsHalf(h) /\ h.op = "mov"
    BY HalfIs DEF Isn
  <1>3. IsHalf(h) /\ h.op \notin DataOps /\ h.op # "ldr" /\ h.op # "movs" /\ h.op \notin BranchOps
    BY <1>2 DEF DataOps, BranchOps
  <1> HIDE DEF h
  <1>4. /\ Body(m, X) /\ m.atomic = a.atomic /\ Within(m, 2)
        /\ Grows(a.code, m.code) /\ NoResume(a.code, m.code)
        /\ Len(m.code) > Len(a.code)
    <2>1. /\ h.op = "movs" => h.value.kind # "resume"
          /\ h.op \in BranchOps => Pc(a) \in X
          /\ X \subseteq X
      BY <1>3
    <2> HIDE DEF m
    <2> QED
      BY <1>3, <2>1, EmitBody DEF m
  <1> HIDE DEF m
  <1>5. TableBytes(n) \in Nat /\ TableBytes(n) = 2 * (n + 1) + 6
    BY DEF TableBytes
  <1>6. Opened(m, b, 0, TableBytes(n), X)
    BY <1>4, <1>5, OpenBody, 0 \in Nat
  <1> HIDE DEF b
  <1>7. /\ Body(b, X) /\ b.atomic /\ Grows(m.code, b.code) /\ NoResume(m.code, b.code)
        /\ Within(b, TableBytes(n) + 4 * 0 + ReachMargin + 6)
    BY <1>6 DEF Opened
  <1>8. Helped(b, d, "blx", X)
    BY <1>7, HelperBody
  <1> HIDE DEF d
  <1>9. /\ Body(d, X) /\ d.atomic = b.atomic /\ Grows(b.code, d.code) /\ NoResume(b.code, d.code)
        /\ Below(d.code, X) /\ Len(d.code) = Len(b.code) + 3
        /\ d.code[Len(b.code) + 3].op = "blx"
    BY <1>8 DEF Helped
  <1> DEFINE k == TableBytes(n) + 4 * 0 + ReachMargin + 6
             j == 2 * (n + 1) + 2
  <1>10. k \in Int /\ k - 6 \in Int /\ j \in Int /\ j <= k - 6
    BY <1>5 DEF ReachBounds
  <1> HIDE DEF k
  <1>11. Within(d, k - 6)
    BY <1>7, <1>8, <1>10 DEF Helped, k
  <1> HIDE DEF j
  <1>12. Within(d, j)
    BY <1>9, <1>10, <1>11, WithinLess
  <1>13. /\ Len(a.code) \in Nat /\ Len(m.code) \in Nat /\ Len(b.code) \in Nat /\ Len(d.code) \in Nat
    BY <1>4, <1>7, <1>9, BodyLen
  <1>14. Grows(a.code, b.code) /\ NoResume(a.code, b.code)
    BY <1>4, <1>7, <1>13, GrowsBoth, NoneBoth DEF Grows
  <1>15. Grows(a.code, d.code) /\ NoResume(a.code, d.code)
    BY <1>9, <1>13, <1>14, GrowsBoth, NoneBoth DEF Grows
  <1>16. Len(a.code) <= Len(b.code)
    BY <1>14 DEF Grows, Extends
  <1>17. Len(d.code) > Len(a.code)
    BY <1>9, <1>13, <1>16
  <1> QED
    BY <1>1, <1>7, <1>9, <1>12, <1>15, <1>17 DEF Dispatched, j

SlotsOf(n) == [i \in 1 .. n + 1 |-> Halfword("slot", 0, Nothing)]

LEMMA SlotsAre ==
  ASSUME NEW n \in Nat
  PROVE  /\ IsSeq(SlotsOf(n)) /\ Len(SlotsOf(n)) = n + 1
         /\ \A i \in 1 .. n + 1 : IsHalf(SlotsOf(n)[i]) /\ SlotsOf(n)[i].op = "slot"
  <1> DEFINE q == SlotsOf(n)
             h == Halfword("slot", 0, Nothing)
  <1>1. IsHalf(h) /\ h.op = "slot"
    BY HalfIs
  <1>2. DOMAIN q = 1 .. n + 1 /\ \A i \in 1 .. n + 1 : q[i] = h
    BY DEF SlotsOf
  <1>3. q = [i \in 1 .. n + 1 |-> q[i]]
    BY DEF SlotsOf
  <1>4. n + 1 \in Nat
    OBVIOUS
  <1> HIDE DEF q, h
  <1>5. IsSeq(q) /\ Len(q) = n + 1
    BY <1>2, <1>3, <1>4, IsSeqFun
  <1> QED
    BY <1>1, <1>2, <1>5 DEF q

(* The slots follow the dispatch at once, whatever else the pool asks for. *)
SlotsAdded(d, e, n, X) ==
  /\ Body(e, X) /\ e.pending = d.pending /\ e.atomic = d.atomic
  /\ Below(e.code, X) /\ Extends(d.code, e.code) /\ NoResume(d.code, e.code)
  /\ Len(e.code) = Len(d.code) + n + 1
  /\ \A i \in 1 .. n + 1 : e.code[Len(d.code) + i].op = "slot"
  /\ \A i \in 1 .. Len(d.code) : e.code[i] = d.code[i]
  /\ Within(e, 2)

LEMMA SlotsBody ==
  ASSUME NEW d, NEW X, Body(d, X), Below(d.code, X), NEW n \in Nat, Within(d, 2 * (n + 1) + 2),
         Len(d.code) > 0, d.code[Len(d.code)].op = "blx", ReachBounds
  PROVE  SlotsAdded(d, [d EXCEPT !.code = @ \o SlotsOf(n)], n, X)
  <1> DEFINE q == SlotsOf(n)
             c == d.code
             f == c \o q
             e == [d EXCEPT !.code = @ \o q]
             m == Len(c)
  <1>1. IsAsm(d) /\ IsCode(c) /\ IsSeq(c) /\ m \in Nat /\ m = Len(c)
        /\ \A i \in 1 .. Len(c) : c[i].arg \in Int
    BY BodyLen, CodeLen
  <1>2. /\ IsSeq(q) /\ Len(q) = n + 1
        /\ \A i \in 1 .. n + 1 : IsHalf(q[i]) /\ q[i].op = "slot"
    BY SlotsAre
  <1>3. e = [d EXCEPT !.code = f]
    OBVIOUS
  <1> HIDE DEF q, e, c, m
  <1>4. /\ IsSeq(f) /\ Len(f) = m + (n + 1)
        /\ \A i \in 1 .. m : f[i] = c[i]
        /\ \A i \in 1 .. n + 1 : f[m + i] = q[i]
    <2>1. /\ IsSeq(c \o q) /\ Len(c \o q) = Len(c) + Len(q)
          /\ \A i \in 1 .. Len(c) : (c \o q)[i] = c[i]
          /\ \A i \in 1 .. Len(q) : (c \o q)[Len(c) + i] = q[i]
      <3>1. IsSeq(c) /\ IsSeq(q)
        BY <1>1, <1>2
      <3> HIDE DEF f
      <3> QED
        BY ONLY <3>1, ConcatAt, SMT
    <2> QED
      BY <1>1, <1>2, <2>1
  <1> HIDE DEF f
  <1>5. e.code = f /\ IsAsm(e) /\ e.pending = d.pending /\ e.atomic = d.atomic
    BY <1>1, <1>3, SetCodeMakes DEF c
  <1>6. \A i \in 1 .. m + (n + 1) : i \in 1 .. m \/ (i - m \in 1 .. n + 1 /\ i = m + (i - m))
    BY <1>1
  <1>7. \A i \in 1 .. m + (n + 1) : i \in 1 .. m \/ (IsHalf(f[i]) /\ f[i].op = "slot")
    BY <1>2, <1>4, <1>6
  <1>8. IsCode(f)
    BY <1>1, <1>4, <1>7 DEF IsCode
  <1>9. Extends(c, f)
    BY <1>1, <1>4 DEF Extends
  <1>10. NoResume(c, f)
    <2> SUFFICES ASSUME NEW i \in 1 .. Len(f), i > m, f[i].op \in {"ldr", "movs"}
                 PROVE  FALSE
      BY DEF NoResume, m
    <2>1. i \notin 1 .. m
      BY <1>1
    <2> QED
      BY <1>4, <1>7, <2>1
  <1>11. Typed(e)
    BY <1>5, <1>8 DEF Typed
  <1>12. Len(f) \in Nat /\ m <= Len(f) /\ m = Len(c)
    BY <1>1, <1>4 DEF m
  <1>13. Parked(e)
    <2>1. Parked(d)
      BY DEF Body
    <2> SUFFICES ASSUME NEW p \in 1 .. Len(d.pending)
                 PROVE  /\ d.pending[p].site >= d.pending[1].site
                        /\ \E i \in 1 .. Len(f) :
                             /\ d.pending[p].site = 2 * (i - 1)
                             /\ f[i].op = "ldr" /\ f[i].value = d.pending[p].value
      BY <1>5 DEF Parked
    <2>2. PICK i \in 1 .. m :
             /\ d.pending[p].site = 2 * (i - 1)
             /\ c[i].op = "ldr" /\ c[i].value = d.pending[p].value
      BY <2>1, <1>12 DEF Parked, c
    <2>3. i \in 1 .. Len(f) /\ f[i] = c[i]
      BY <1>1, <1>4, <1>12, <2>2
    <2> QED
      BY <2>1, <2>2, <2>3 DEF Parked
  <1>14. Loaded(e)
    <2> SUFFICES ASSUME NEW i \in 1 .. Len(f), f[i].op = "ldr", ~ Waits(e, i)
                 PROVE  LoadedAt(f, i)
      BY <1>5 DEF Loaded
    <2>1. i \in 1 .. m
      BY <1>4, <1>7
    <2>2. f[i] = c[i] /\ ~ Waits(d, i)
      BY <1>4, <1>5, <2>1 DEF Waits
    <2>3. LoadedAt(c, i) /\ c[i].arg \in Int
      BY <1>1, <1>12, <2>1, <2>2 DEF Body, Loaded, c
    <2> QED
      <3>1. \A j \in 1 .. Len(c) : c[j].op = "word" => f[j] = c[j]
        BY <1>4, <1>12
      <3>2. Len(c) \in Nat /\ Len(c) <= Len(f) /\ i \in 1 .. Len(c) /\ f[i] = c[i]
        BY <1>1, <1>12, <2>1, <2>2
      <3> QED
        BY <1>12, <2>3, <3>1, <3>2, LoadStill
  <1>15. Walled(f)
    <2> SUFFICES ASSUME NEW i \in 1 .. Len(f), f[i].op \in {"word", "slot"}
                 PROVE  Wall(f, i)
      BY DEF Walled
    <2>1. CASE i \in 1 .. m
      <3>1. Wall(c, i)
        BY <1>4, <1>12, <2>1 DEF Body, Walled, c
      <3>2. i > 1 /\ i - 1 \in 1 .. m /\ (i > 2 => i - 2 \in 1 .. m)
        BY <1>1, <2>1, <3>1 DEF Wall
      <3>3. f[i - 1] = c[i - 1] /\ (i > 2 => f[i - 2] = c[i - 2])
        BY <1>4, <3>2
      <3> QED
        BY <3>1, <3>2, <3>3 DEF Wall
    <2>2. CASE i = m + 1
      <3>1. i - 1 = m /\ m \in 1 .. m /\ i > 1
        BY <1>1, <2>2 DEF m, c
      <3>2. c[m].op = "blx"
        BY DEF m, c
      <3>3. f[i - 1].op = "blx"
        BY <1>4, <3>1, <3>2
      <3> QED
        BY <3>1, <3>3 DEF Wall
    <2>3. CASE i > m + 1
      <3>1. i - 1 \in 1 .. m + (n + 1) /\ i - 1 \notin 1 .. m /\ i > 1
        BY <1>1, <1>4, <2>3
      <3>2. f[i - 1].op = "slot"
        BY <1>7, <3>1
      <3> QED
        BY <3>1, <3>2 DEF Wall
    <2> QED
      BY <1>1, <2>1, <2>2, <2>3
  <1>16. ASSUME NEW i \in 1 .. Len(f), f[i].op \in BranchOps
         PROVE  i \in 1 .. m /\ f[i] = c[i] /\ Target(f, 2 * (i - 1)) = Target(c, 2 * (i - 1))
    <2>1. i \in 1 .. m
      BY <1>4, <1>7, <1>16 DEF BranchOps
    <2>2. f[i] = c[i] /\ i \in Int
      BY <1>4, <2>1
    <2>3. /\ Target(f, 2 * (i - 1)) = 2 * i + 2 + f[i].arg
          /\ Target(c, 2 * (i - 1)) = 2 * i + 2 + c[i].arg
      BY <2>2, AtIndex
    <2> QED
      BY <2>1, <2>2, <2>3
  <1>17. Below(f, X)
    <2> SUFFICES ASSUME NEW i \in 1 .. Len(f), f[i].op \in BranchOps, 2 * (i - 1) \notin X
                 PROVE  Target(f, 2 * (i - 1)) < 2 * Len(f)
      BY DEF Below
    <2>1. i \in 1 .. m /\ f[i] = c[i] /\ Target(f, 2 * (i - 1)) = Target(c, 2 * (i - 1))
      BY <1>16
    <2>2. Target(c, 2 * (i - 1)) < 2 * m
      BY <1>12, <2>1 DEF Below, c
    <2>3. Target(c, 2 * (i - 1)) \in Int
      <3>1. i \in Int /\ c[i].arg \in Int
        BY <1>1, <2>1
      <3> QED
        BY <3>1, AtIndex
    <2> QED
      BY <1>1, <1>12, <2>1, <2>2, <2>3
  <1>18. Resolved(f, X)
    <2> SUFFICES ASSUME NEW i \in 1 .. Len(f), f[i].op \in BranchOps, 2 * (i - 1) \notin X
                 PROVE  Lands(f, Target(f, 2 * (i - 1)))
      BY DEF Resolved
    <2>1. i \in 1 .. m /\ f[i] = c[i] /\ Target(f, 2 * (i - 1)) = Target(c, 2 * (i - 1))
      BY <1>16
    <2>2. Target(c, 2 * (i - 1)) < 2 * m /\ Lands(c, Target(c, 2 * (i - 1)))
      BY <1>12, <2>1 DEF Below, Body, Resolved, c
    <2> DEFINE t == Target(c, 2 * (i - 1))
    <2>3. Lands(c, t) /\ t # 2 * Len(c)
      BY <1>1, <1>12, <2>2 DEF Lands
    <2> HIDE DEF t
    <2>4. Lands(f, t)
      BY <1>1, <1>4, <1>12, <2>3, LandsStill
    <2> QED
      BY <2>1, <2>4 DEF t
  <1>19. Body(e, X)
    BY <1>5, <1>11, <1>13, <1>14, <1>15, <1>18 DEF Body
  <1>20. Within(e, 2)
    <2>1. CASE d.pending = << >>
      BY <1>5, <2>1 DEF Within
    <2>2. CASE d.pending # << >>
      <3> DEFINE pc == Pc(d)
                 len == Len(d.pending)
                 s == d.pending[1].site
      <3>1. pc \in Nat /\ len \in Nat /\ s \in Nat /\ MaxReach \in Nat /\ pc = 2 * m
        BY <2>2, OldestIs, BodyLen DEF ReachBounds, m, c
      <3>2. pc + 4 * len - s + (2 * (n + 1) + 2) <= MaxReach + 4
        BY <2>2 DEF Within
      <3>3. Pc(e) = 2 * (m + (n + 1)) /\ Len(e.pending) = len /\ e.pending[1].site = s
        BY <1>4, <1>5 DEF Pc
      <3> HIDE DEF pc, len, s
      <3>4. 2 * (m + (n + 1)) + 4 * len - s + 2 <= MaxReach + 4
        BY <1>1, <3>1, <3>2
      <3> QED
        BY <3>3, <3>4 DEF Within
    <2> QED
      BY <2>1, <2>2
  <1>21. Len(f) = m + n + 1
    BY <1>1, <1>4
  <1>22. \A i \in 1 .. n + 1 : f[m + i].op = "slot"
    BY <1>2, <1>4
  <1> QED
    BY <1>4, <1>5, <1>9, <1>10, <1>17, <1>19, <1>20, <1>21, <1>22 DEF SlotsAdded, m, c, e, q

TableMade(a, d, r, n, X) ==
  /\ Body(r, X) /\ ~ r.atomic /\ Within(r, 2)
  /\ Extends(a.code, r.code) /\ Starts(a.code, r.code) /\ NoResume(a.code, r.code)
  /\ Len(d.code) \in Nat /\ Len(a.code) < Len(d.code) /\ Len(d.code) + n + 1 <= Len(r.code)
  /\ \A i \in 1 .. Len(r.code) : i > Len(a.code) =>
       (r.code[i].op = "slot" <=> i \in Len(d.code) + 1 .. Len(d.code) + n + 1)

LEMMA TableBody ==
  ASSUME NEW a, NEW X, Body(a, X), ~ a.atomic, Within(a, 2), ReachBounds, NEW n \in Nat
  PROVE  TableMade(a, EmitDispatch(a, n), EmitTable(EmitDispatch(a, n), n), n, X)
  <1> DEFINE d == EmitDispatch(a, n)
             e == [d EXCEPT !.code = @ \o SlotsOf(n)]
             g == CloseAtomic(e)
             r == FlushPool(g, FALSE)
             m == Len(d.code)
  <1>1. EmitTable(d, n) = r
    BY DEF EmitTable, SlotsOf
  <1>2. Dispatched(a, d, n, X)
    BY DispatchBody
  <1> HIDE DEF d
  <1>3. /\ Body(d, X) /\ Below(d.code, X) /\ Within(d, 2 * (n + 1) + 2)
        /\ Len(d.code) > Len(a.code) /\ d.code[Len(d.code)].op = "blx"
        /\ Grows(a.code, d.code) /\ NoResume(a.code, d.code)
    BY <1>2 DEF Dispatched
  <1>4. m \in Nat /\ Len(a.code) \in Nat /\ Len(d.code) > 0
    BY <1>3, BodyLen
  <1>5. SlotsAdded(d, e, n, X)
    BY <1>3, <1>4, SlotsBody
  <1>6. g = [e EXCEPT !.atomic = FALSE]
    BY DEF CloseAtomic
  <1> HIDE DEF e, g
  <1>7. /\ Body(e, X) /\ Below(e.code, X) /\ Extends(d.code, e.code) /\ NoResume(d.code, e.code)
        /\ Len(e.code) = m + n + 1
        /\ \A i \in 1 .. n + 1 : e.code[m + i].op = "slot"
        /\ \A i \in 1 .. m : e.code[i] = d.code[i]
        /\ Within(e, 2)
    BY <1>5 DEF SlotsAdded
  <1>8. /\ Body(g, X) /\ g.code = e.code /\ g.pending = e.pending /\ g.atomic = FALSE
        /\ \A k : Within(e, k) <=> Within(g, k)
    BY <1>6, <1>7, AtomicBody
  <1> HIDE DEF m
  <1>9. e.code[Len(e.code)].op = "slot" /\ Len(e.code) > 0
    <2>1. n + 1 \in 1 .. n + 1 /\ m + (n + 1) = m + n + 1 /\ m + n + 1 > 0
      BY <1>4
    <2>2. e.code[m + (n + 1)].op = "slot"
      BY <1>7, <2>1
    <2>3. Len(e.code) = m + (n + 1) /\ Len(e.code) > 0
      BY <1>7, <2>1
    <2> QED
      BY <2>2, <2>3
  <1>10. Closed(g, X)
    BY <1>7, <1>8, <1>9 DEF Closed
  <1>11. Within(g, 0)
    <2>1. Within(g, 2)
      BY <1>7, <1>8
    <2> QED
      BY <1>8, <2>1, WithinLess
  <1>12. /\ Body(r, X) /\ r.pending = << >> /\ r.atomic = g.atomic
         /\ Extends(g.code, r.code) /\ NoSlots(g.code, r.code) /\ NoResume(g.code, r.code)
    BY <1>8, <1>10, <1>11, FlushBody DEF ReachBounds
  <1> HIDE DEF r
  <1>13. Len(e.code) \in Nat /\ Len(r.code) \in Nat /\ Len(e.code) <= Len(r.code)
    BY <1>7, <1>8, <1>12, BodyLen DEF Extends
  <1>14. Within(r, 2) /\ ~ r.atomic
    BY <1>8, <1>12 DEF Within
  <1>15. Extends(d.code, r.code) /\ NoResume(d.code, r.code)
    BY <1>4, <1>7, <1>8, <1>12, <1>13, ExtendsBoth, NoneBoth DEF m
  <1>16. Extends(a.code, r.code) /\ NoResume(a.code, r.code) /\ Starts(a.code, r.code)
    BY <1>3, <1>4, <1>13, <1>15, ExtendsBoth, NoneBoth, StartsBoth DEF m, Grows
  <1>17. ASSUME NEW i \in 1 .. Len(r.code), i > Len(a.code)
         PROVE  r.code[i].op = "slot" <=> i \in m + 1 .. m + n + 1
    <2>1. i \in 1 .. m \/ i \in m + 1 .. m + n + 1 \/ i > m + n + 1
      BY <1>4, <1>13
    <2>2. CASE i \in 1 .. m
      <3>1. d.code[i].op # "slot"
        BY <1>3, <1>17, <2>2 DEF Grows, NoSlots, m
      <3>2. r.code[i].op = d.code[i].op
        BY <1>15, <2>2 DEF Extends, m
      <3>3. i \notin m + 1 .. m + n + 1
        BY <1>4, <2>2
      <3> QED
        BY <3>1, <3>2, <3>3
    <2>3. CASE i \in m + 1 .. m + n + 1
      <3>1. i - m \in 1 .. n + 1 /\ m + (i - m) = i /\ i \in 1 .. Len(e.code)
        BY <1>4, <1>7, <2>3
      <3>2. e.code[i].op = "slot"
        BY <1>7, <3>1
      <3>3. r.code[i].op = e.code[i].op
        BY <1>8, <1>12, <3>1 DEF Extends
      <3> QED
        BY <2>3, <3>2, <3>3
    <2>4. CASE i > m + n + 1
      <3>1. r.code[i].op # "slot"
        BY <1>7, <1>8, <1>12, <2>4 DEF NoSlots
      <3>2. i \notin m + 1 .. m + n + 1
        BY <1>4, <2>4
      <3> QED
        BY <3>1, <3>2
    <2> QED
      BY <2>1, <2>2, <2>3, <2>4
  <1>18. m + n + 1 <= Len(r.code) /\ Len(a.code) < m
    BY <1>3, <1>7, <1>13 DEF m
  <1>19. TableMade(a, d, r, n, X)
    BY <1>4, <1>12, <1>14, <1>16, <1>17, <1>18 DEF TableMade, m
  <1> QED
    BY <1>1, <1>19 DEF d

-----------------------------------------------------------------------------
(* What growing the code leaves as it was. *)

LEMMA SiteKept ==
  ASSUME NEW c, NEW d, Len(c) \in Nat, Extends(c, d), NEW s, SiteIn(c, s)
  PROVE  SiteIn(d, s) /\ Target(d, s) = Target(c, s) /\ s \in Nat /\ s < 2 * Len(c)
  <1>1. PICK i \in 1 .. Len(c) : s = 2 * (i - 1) /\ c[i].op \in BranchOps
    BY DEF SiteIn
  <1>2. d[i] = c[i]
    BY <1>1 DEF Extends, BranchOps
  <1>3. i \in Int /\ i \in 1 .. Len(d)
    BY DEF Extends
  <1>4. /\ Target(d, 2 * (i - 1)) = 2 * i + 2 + d[i].arg
        /\ Target(c, 2 * (i - 1)) = 2 * i + 2 + c[i].arg
    BY <1>3, AtIndex
  <1>5. Target(d, s) = Target(c, s)
    BY <1>1, <1>2, <1>4
  <1>6. SiteIn(d, s)
    BY <1>1, <1>2, <1>3 DEF SiteIn
  <1>7. s \in Nat /\ s < 2 * Len(c)
    BY <1>1
  <1> QED
    BY <1>5, <1>6, <1>7

LEMMA SlotKept ==
  ASSUME NEW c, NEW d, Len(c) \in Nat, Extends(c, d), NEW s, SlotIn(c, s)
  PROVE  SlotIn(d, s) /\ At(d, s) = At(c, s) /\ s \in Nat /\ s < 2 * Len(c)
  <1>1. PICK i \in 1 .. Len(c) : s = 2 * (i - 1) /\ c[i].op = "slot"
    BY DEF SlotIn
  <1>2. d[i] = c[i]
    BY <1>1 DEF Extends
  <1>3. i \in Int /\ i \in 1 .. Len(d)
    BY DEF Extends
  <1>4. At(d, 2 * (i - 1)) = d[i] /\ At(c, 2 * (i - 1)) = c[i]
    BY <1>3, AtIndex
  <1> QED
    BY <1>1, <1>2, <1>3, <1>4 DEF SlotIn

LEMMA ChainsKept ==
  ASSUME NEW c, NEW d, Len(c) \in Nat, Extends(c, d), NEW sites, NEW heads, Chains(c, sites, heads)
  PROVE  Chains(d, sites, heads)
  <1>1. ASSUME NEW l \in Labels PROVE Chained(d, sites[l], heads[l])
    <2>1. Chained(c, sites[l], heads[l])
      BY DEF Chains
    <2>2. ASSUME NEW s \in sites[l]
          PROVE  SiteIn(d, s) /\ Follows(sites[l], s, Target(d, s), s)
      <3>1. SiteIn(c, s) /\ Follows(sites[l], s, Target(c, s), s)
        BY <2>1 DEF Chained
      <3>2. SiteIn(d, s) /\ Target(d, s) = Target(c, s)
        BY <3>1, SiteKept
      <3> QED
        BY <3>1, <3>2
    <2> QED
      BY <2>1, <2>2 DEF Chained
  <1> QED
    BY <1>1 DEF Chains

LEMMA BoundKept ==
  ASSUME NEW c, NEW d, Len(c) \in Nat, Extends(c, d), NEW bs, NEW X, BoundLand(c, bs, X)
  PROVE  BoundLand(d, bs, X)
  BY SiteKept DEF BoundLand

LEMMA LandsKept ==
  ASSUME NEW c, NEW d, Len(c) \in Nat, Len(d) \in Nat, Extends(c, d), Starts(c, d),
         NEW t, Lands(c, t)
  PROVE  Lands(d, t)
  <1>1. Len(c) <= Len(d) /\ \A i \in 1 .. Len(c) : d[i].op = c[i].op
    BY DEF Extends
  <1> QED
    BY <1>1, LandsStill

LEMMA TabledKept ==
  ASSUME NEW c, NEW d, Len(c) \in Nat, Extends(c, d), NEW tb, NEW es, Tabled(c, tb, es)
  PROVE  Tabled(d, tb, es)
  <1> SUFFICES ASSUME tb # NoTable PROVE Tabled(d, tb, es)
    BY DEF Tabled
  <1>1. /\ tb = [base |-> tb.base, cases |-> tb.cases, next |-> tb.next, gaps |-> tb.gaps]
        /\ tb.base \in Nat /\ tb.cases \in Nat /\ tb.next \in 0 .. tb.cases
        /\ \A j \in 0 .. tb.cases : SlotIn(c, tb.base + 2 * j)
        /\ HeadOf(GapsOf(tb, es), tb.gaps)
        /\ \A j \in GapsOf(tb, es) : Follows(GapsOf(tb, es), j, At(c, tb.base + 2 * j).arg, -1)
    BY DEF Tabled
  <1>2. \A j \in 0 .. tb.cases :
          SlotIn(d, tb.base + 2 * j) /\ At(d, tb.base + 2 * j) = At(c, tb.base + 2 * j)
    BY <1>1, SlotKept
  <1>3. GapsOf(tb, es) \subseteq 0 .. tb.cases
    BY <1>1 DEF GapsOf
  <1>4. \A j \in GapsOf(tb, es) : Follows(GapsOf(tb, es), j, At(d, tb.base + 2 * j).arg, -1)
    BY <1>1, <1>2, <1>3
  <1> QED
    BY <1>1, <1>2, <1>4 DEF Tabled

LEMMA EntriesKept ==
  ASSUME NEW c, NEW d, Len(c) \in Nat, Len(d) \in Nat, Extends(c, d), Starts(c, d),
         NEW tb, NEW es, Entries(c, es, tb)
  PROVE  Entries(d, es, tb)
  <1> SUFFICES ASSUME NEW e \in es
               PROVE  /\ e[1] \in Nat /\ e[2] \in Nat /\ SlotIn(d, e[1] + 2 * e[2])
                      /\ e[1] + At(d, e[1] + 2 * e[2]).arg = e[3] /\ Lands(d, e[3])
                      /\ tb # NoTable /\ e[1] = tb.base => e[2] < tb.next
                      /\ InTable(tb, e[1] + 2 * e[2]) => e[1] = tb.base
    BY DEF Entries
  <1>1. /\ e[1] \in Nat /\ e[2] \in Nat /\ SlotIn(c, e[1] + 2 * e[2])
        /\ e[1] + At(c, e[1] + 2 * e[2]).arg = e[3] /\ Lands(c, e[3])
        /\ tb # NoTable /\ e[1] = tb.base => e[2] < tb.next
        /\ InTable(tb, e[1] + 2 * e[2]) => e[1] = tb.base
    BY DEF Entries
  <1> DEFINE s == e[1] + 2 * e[2]
  <1>2. SlotIn(c, s)
    BY <1>1
  <1> HIDE DEF s
  <1>3. SlotIn(d, s) /\ At(d, s) = At(c, s)
    BY <1>2, SlotKept
  <1>4. Lands(d, e[3])
    BY <1>1, LandsKept
  <1> QED
    BY <1>1, <1>3, <1>4 DEF s

LEMMA SlotsKept ==
  ASSUME NEW c, NEW d, Extends(c, d), NoSlots(c, d), Len(c) \in Nat, Len(d) \in Nat,
         NEW tb, NEW es, Slots(c, es, tb)
  PROVE  Slots(d, es, tb)
  <1> SUFFICES ASSUME NEW i \in 1 .. Len(d), d[i].op = "slot"
               PROVE  \/ \E e \in es : e[1] + 2 * e[2] = 2 * (i - 1)
                      \/ InTable(tb, 2 * (i - 1))
    BY DEF Slots
  <1>1. i \in 1 .. Len(c)
    BY DEF NoSlots
  <1>2. c[i].op = "slot"
    BY <1>1 DEF Extends
  <1> QED
    BY <1>1, <1>2 DEF Slots

LEMMA TrackedGrows ==
  ASSUME NEW c, NEW d, Len(c) \in Nat, Len(d) \in Nat, Grows(c, d),
         NEW sites, NEW heads, NEW bs, NEW start, NEW es, NEW tb,
         Tracked(c, sites, heads, bs, start, es, tb)
  PROVE  Tracked(d, sites, heads, bs, start, es, tb)
  <1>1. Extends(c, d) /\ Starts(c, d) /\ NoSlots(c, d)
    BY DEF Grows
  <1>2. /\ Chains(c, sites, heads) /\ BoundLand(c, bs, SitesIn(sites)) /\ LoopLands(c, start)
        /\ Tabled(c, tb, es) /\ Entries(c, es, tb) /\ Slots(c, es, tb)
    BY DEF Tracked
  <1>3. Chains(d, sites, heads) /\ BoundLand(d, bs, SitesIn(sites)) /\ Tabled(d, tb, es)
    BY <1>1, <1>2, ChainsKept, BoundKept, TabledKept
  <1>4. LoopLands(d, start)
    BY <1>1, <1>2, LandsKept DEF LoopLands
  <1>5. Entries(d, es, tb) /\ Slots(d, es, tb)
    BY <1>1, <1>2, EntriesKept, SlotsKept
  <1> QED
    BY <1>3, <1>4, <1>5 DEF Tracked

-----------------------------------------------------------------------------
(* The invariant of the whole state, at the start and after Abandon. *)

AllBounds == ReachBounds /\ MaxPending \in Nat /\ Records \cup Callees \subseteq {"imm8", "pool"}
             /\ Cases \subseteq Nat

LEMMA LimitsHold ==
  ASSUME inst \in Instances
  PROVE  AllBounds
  <1>1. /\ {inst.maxPending, inst.maxReach, inst.reachMargin, inst.condReach, inst.branchReach,
            inst.maxBytes} \cup inst.cases \subseteq Nat
        /\ inst.maxReach % 4 = 0 /\ inst.maxReach >= 12 /\ inst.reachMargin >= 4
        /\ inst.records \cup inst.callees \subseteq {"imm8", "pool"}
    BY AssemblerConstants
  <1> QED
    BY <1>1 DEF AllBounds, ReachBounds, MaxReach, ReachMargin, MaxPending, Records, Callees, Cases

NoSites == [l \in Labels |-> {}]
NoHeads == [l \in Labels |-> -1]

LEMMA BlankBuilt ==
  /\ Built(Blank, NoSites)
  /\ Tracked(Blank.code, NoSites, NoHeads, {}, -1, {}, NoTable)
  /\ Resuming(Blank.code)
  <1>1. Blank.code = << >> /\ Blank.pending = << >> /\ Blank.atomic = FALSE
    BY DEF Blank
  <1>2. IsSeq(<< >>) /\ Len(<< >>) = 0
    BY IsSeqEmpty
  <1>3. IsAsm(Blank)
    BY <1>1, <1>2 DEF IsAsm, Blank
  <1>4. \A i \in 1 .. Len(Blank.code) : FALSE
    BY <1>1, <1>2
  <1>5. \A i \in 1 .. Len(Blank.pending) : FALSE
    BY <1>1, <1>2
  <1>6. Body(Blank, SitesIn(NoSites))
    BY <1>1, <1>2, <1>3, <1>4, <1>5
       DEF Body, Typed, IsCode, Parked, Loaded, Walled, Resolved
  <1>7. Built(Blank, NoSites)
    BY <1>1, <1>6 DEF Built, Within
  <1>8. Chains(Blank.code, NoSites, NoHeads)
    BY DEF Chains, Chained, HeadOf, NoSites, NoHeads
  <1>9. Tracked(Blank.code, NoSites, NoHeads, {}, -1, {}, NoTable)
    BY <1>4, <1>8 DEF Tracked, BoundLand, LoopLands, Tabled, Entries, Slots
  <1> QED
    BY <1>4, <1>7, <1>9 DEF Resuming

LEMMA InvKept ==
  ASSUME inst \in Instances, inst' = inst, Built(asm', open'),
         Tracked(asm'.code, open', chain', bound', loop', entries', table'),
         ~ BothFromPool => Resuming(asm'.code),
         status' = "finished" => asm'.pending = << >>
  PROVE  StateInv'
  <1>1. Built(asm, open)'
    BY DEF Built, Within, MaxReach, SitesIn, Labels
  <1>2. Tracked(asm.code, open, chain, bound, loop, entries, table)'
    BY DEF Tracked, Chains, SitesIn, Labels
  <1>3. (~ BothFromPool => Resuming(asm.code))'
    BY DEF BothFromPool, Records, Callees
  <1> QED
    BY <1>1, <1>2, <1>3 DEF StateInv

(* What an action may take for granted. *)
LEMMA InvGives ==
  ASSUME StateInv
  PROVE  /\ AllBounds /\ Body(asm, SitesIn(open)) /\ ~ asm.atomic /\ Within(asm, 2)
         /\ Len(asm.code) \in Nat /\ Pc(asm) = 2 * Len(asm.code)
         /\ Tracked(asm.code, open, chain, bound, loop, entries, table)
  BY LimitsHold, BodyLen DEF StateInv, Built

LEMMA AdvanceKeeps ==
  ASSUME StateInv, inst' = inst,
         UNCHANGED << chain, table, loop, open, bound, entries >>,
         Advances(asm, asm', SitesIn(open)),
         ~ BothFromPool => Resuming(asm'.code),
         status' = "finished" => asm'.pending = << >>
  PROVE  StateInv'
  <1>1. /\ Body(asm', SitesIn(open)) /\ ~ asm'.atomic /\ Within(asm', 2)
        /\ Grows(asm.code, asm'.code)
    BY DEF Advances
  <1>2. Len(asm.code) \in Nat /\ Len(asm'.code) \in Nat
    BY <1>1, BodyLen, InvGives
  <1>3. Tracked(asm'.code, open, chain, bound, loop, entries, table)
    BY <1>1, <1>2, InvGives, TrackedGrows
  <1>4. Built(asm', open)
    BY <1>1 DEF Built
  <1> QED
    BY <1>3, <1>4, InvKept DEF StateInv

LEMMA GrowthKeeps ==
  ASSUME StateInv, inst' = inst,
         UNCHANGED << chain, table, loop, open, bound, entries >>,
         Advances(asm, asm', SitesIn(open)), NoResume(asm.code, asm'.code),
         status' = "finished" => asm'.pending = << >>
  PROVE  StateInv'
  <1>1. ~ BothFromPool => Resuming(asm'.code)
    <2>1. Extends(asm.code, asm'.code) /\ Len(asm'.code) \in Nat
      BY BodyLen DEF Advances, Grows
    <2>2. Len(asm.code) \in Nat
      BY InvGives
    <2>3. ~ BothFromPool => Resuming(asm.code)
      BY DEF StateInv
    <2> QED
      BY <2>1, <2>2, <2>3, ResumingGrown
  <1> QED
    BY <1>1, AdvanceKeeps

LEMMA StateInvInit == Init => StateInv
  <1> SUFFICES ASSUME Init PROVE StateInv
    OBVIOUS
  <1>1. /\ inst \in Instances /\ asm = Blank /\ status = "Narrow"
        /\ chain = NoHeads /\ table = NoTable /\ loop = -1
        /\ open = NoSites /\ bound = {} /\ entries = {}
    BY DEF Init, NoSites, NoHeads
  <1> QED
    BY <1>1, BlankBuilt DEF StateInv

LEMMA StateInvAbandon ==
  ASSUME StateInv, Abandon
  PROVE  StateInv'
  <1>1. CASE /\ status = "Narrow" /\ status' = "Wide" /\ asm' = Blank
             /\ chain' = [l \in Labels |-> -1] /\ open' = [l \in Labels |-> {}]
             /\ table' = NoTable /\ loop' = -1 /\ bound' = {} /\ entries' = {}
             /\ UNCHANGED inst
    <2>1. /\ asm' = Blank /\ chain' = NoHeads /\ open' = NoSites /\ inst' = inst
          /\ table' = NoTable /\ loop' = -1 /\ bound' = {} /\ entries' = {}
          /\ status' # "finished"
      BY <1>1 DEF NoSites, NoHeads
    <2> QED
      BY <2>1, BlankBuilt, InvKept DEF StateInv
  <1>2. CASE /\ status = "Wide" /\ status' = "refused"
             /\ UNCHANGED << inst, asm, chain, table, loop, open, bound, entries >>
    BY <1>2, InvKept DEF StateInv
  <1> QED
    BY <1>1, <1>2 DEF Abandon

LEMMA StateInvPlain ==
  ASSUME StateInv, Plain
  PROVE  StateInv'
  <1> DEFINE h == Isn("mov")
             X == SitesIn(open)
  <1>1. /\ asm' = Emit(asm, h) /\ inst' = inst /\ status' = status /\ status # "finished"
        /\ UNCHANGED << chain, table, loop, open, bound, entries >>
    BY DEF Plain, Straight, Room, Emitting
  <1>2. /\ IsHalf(h) /\ h.op \notin DataOps /\ h.op # "ldr" /\ h.op # "movs" /\ h.op \notin BranchOps
    BY HalfIs DEF Isn, DataOps, BranchOps
  <1> HIDE DEF h, X
  <1>3. /\ h.op = "movs" => h.value.kind # "resume"
        /\ h.op \in BranchOps => Pc(asm) \in X
        /\ X \subseteq X
    BY <1>2
  <1>4. Body(asm, X) /\ ~ asm.atomic /\ Within(asm, 2) /\ ReachBounds
    BY InvGives DEF X, AllBounds
  <1> DEFINE b == Emit(asm, h)
  <1>5. /\ Body(b, X) /\ b.atomic = asm.atomic /\ Within(b, 2)
        /\ Grows(asm.code, b.code) /\ NoResume(asm.code, b.code)
    BY <1>2, <1>3, <1>4, EmitBody
  <1> HIDE DEF b
  <1>6. Advances(asm, b, X)
    BY <1>4, <1>5 DEF Advances
  <1>7. Advances(asm, asm', X) /\ NoResume(asm.code, asm'.code)
    BY <1>1, <1>5, <1>6 DEF b
  <1> QED
    BY <1>1, <1>7, GrowthKeeps DEF X

LEMMA StateInvLoad ==
  ASSUME StateInv, Load
  PROVE  StateInv'
  <1> DEFINE X == SitesIn(open)
  <1>1. PICK v \in Literals : asm' = Materialize(asm, Literal(v), "pool")
    BY DEF Load
  <1>2. /\ inst' = inst /\ status' = status /\ status # "finished"
        /\ UNCHANGED << chain, table, loop, open, bound, entries >>
    BY DEF Load, Straight, Room, Emitting
  <1> DEFINE u == Literal(v)
             b == Materialize(asm, u, "pool")
  <1>3. u.kind # "resume"
    BY DEF Literal
  <1> HIDE DEF X, u
  <1>4. Body(asm, X) /\ ~ asm.atomic /\ Within(asm, 2) /\ ReachBounds /\ MaxPending \in Nat
    BY InvGives DEF X, AllBounds
  <1>5. /\ Body(b, X) /\ b.atomic = asm.atomic
        /\ Grows(asm.code, b.code)
        /\ u.kind # "resume" => NoResume(asm.code, b.code)
        /\ \A k \in Nat : /\ k <= MaxReach - 2
                          /\ k + 6 <= 2 \/ k <= ReachMargin + 4
                         => Within(b, k)
    BY <1>4, MaterializeBody, 2 \in Nat
  <1>6. 2 <= MaxReach - 2 /\ 2 <= ReachMargin + 4
    BY <1>4 DEF ReachBounds
  <1> HIDE DEF b
  <1>7. Within(b, 2)
    BY <1>5, <1>6, 2 \in Nat
  <1>8. Advances(asm, b, X)
    BY <1>4, <1>5, <1>7 DEF Advances
  <1>9. Advances(asm, asm', X) /\ NoResume(asm.code, asm'.code)
    BY <1>1, <1>3, <1>5, <1>8 DEF b, u
  <1> QED
    BY <1>2, <1>9, GrowthKeeps DEF X

LEMMA StateInvCall ==
  ASSUME StateInv, Call
  PROVE  StateInv'
  <1> DEFINE X == SitesIn(open)
  <1>1. PICK record \in Records, calleeHow \in Callees, callee \in Literals :
          asm' = EmitCall(asm, record, calleeHow, callee)
    BY DEF Call
  <1>2. /\ inst' = inst /\ status' = status /\ status # "finished"
        /\ UNCHANGED << chain, table, loop, open, bound, entries >>
    BY DEF Call, Straight, Room, Emitting
  <1>3. Body(asm, X) /\ ~ asm.atomic /\ Within(asm, 2) /\ ReachBounds /\ MaxPending \in Nat
    BY InvGives DEF AllBounds
  <1>4. record \in {"imm8", "pool"} /\ calleeHow \in {"imm8", "pool"}
    BY InvGives DEF AllBounds
  <1>5. ASSUME ~ BothFromPool PROVE Resuming(asm'.code)
    <2>1. ~ (record = "pool" /\ calleeHow = "pool")
      BY <1>5 DEF BothFromPool
    <2>2. Resuming(asm.code)
      BY <1>5 DEF StateInv
    <2> QED
      BY <1>1, <1>3, <1>4, <2>1, <2>2, CallResumes
  <1> HIDE DEF X
  <1>6. Advances(asm, asm', X)
    BY <1>1, <1>3, <1>4, CallBody
  <1> QED
    BY <1>2, <1>5, <1>6, AdvanceKeeps DEF X

LEMMA LeaveFlushes ==
  ASSUME NEW a, NEW X, NEW out, Body(a, X), ReachBounds,
         Advances(a, out, X), NoResume(a.code, out.code), Closed(out, X),
         Len(out.code) > Len(a.code)
  PROVE  /\ Advances(a, FlushPool(out, FALSE), X)
         /\ NoResume(a.code, FlushPool(out, FALSE).code)
         /\ FlushPool(out, FALSE).pending = << >>
  <1> DEFINE b == FlushPool(out, FALSE)
  <1>1. Body(out, X) /\ ~ out.atomic /\ Within(out, 2) /\ Grows(a.code, out.code)
    BY DEF Advances
  <1>2. Within(out, 0)
    BY <1>1, WithinLess
  <1>3. /\ Body(b, X) /\ b.pending = << >> /\ b.atomic = out.atomic
        /\ Extends(out.code, b.code) /\ NoSlots(out.code, b.code) /\ NoResume(out.code, b.code)
    BY <1>1, <1>2, FlushBody DEF ReachBounds
  <1> HIDE DEF b
  <1>4. Len(a.code) \in Nat /\ Len(out.code) \in Nat /\ Len(b.code) \in Nat
    BY <1>1, <1>3, BodyLen
  <1>5. Extends(a.code, b.code) /\ Starts(a.code, b.code)
    BY <1>1, <1>3, <1>4, ExtendsBoth, StartsBoth DEF Grows
  <1>6. NoSlots(a.code, b.code) /\ NoResume(a.code, b.code)
    BY <1>1, <1>3, <1>4, NoneBoth DEF Grows
  <1>7. Within(b, 2)
    BY <1>3 DEF Within
  <1> QED
    BY <1>1, <1>3, <1>5, <1>6, <1>7 DEF Advances, Grows, b

LEMMA StateInvLeave ==
  ASSUME StateInv, Leave
  PROVE  StateInv'
  <1> DEFINE X == SitesIn(open)
  <1>1. PICK out \in {EmitTrap(asm)} \cup
                { EmitReturn(asm, r) : r \in {{}} \cup {{v} : v \in Literals} } :
          \/ asm' = out /\ UNCHANGED status
          \/ asm' = FlushPool(out, FALSE)
    BY DEF Leave
  <1>2. /\ inst' = inst /\ status # "finished"
        /\ UNCHANGED << chain, table, loop, open, bound, entries >>
    BY DEF Leave, Room, Emitting
  <1>3. Body(asm, X) /\ Within(asm, 2) /\ ReachBounds /\ MaxPending \in Nat
    BY InvGives DEF AllBounds
  <1> HIDE DEF X
  <1>4. /\ Advances(asm, out, X) /\ NoResume(asm.code, out.code) /\ Closed(out, X)
        /\ Len(out.code) > Len(asm.code)
    <2>1. CASE out = EmitTrap(asm)
      BY <1>3, <2>1, TrapBody
    <2>2. ASSUME NEW r, out = EmitReturn(asm, r)
          PROVE  /\ Advances(asm, out, X) /\ NoResume(asm.code, out.code) /\ Closed(out, X)
                 /\ Len(out.code) > Len(asm.code)
      BY <1>3, <2>2, ReturnBody
    <2>3. out = EmitTrap(asm) \/ \E r : out = EmitReturn(asm, r)
      OBVIOUS
    <2> QED
      BY <2>1, <2>2, <2>3
  <1>5. CASE asm' = out /\ UNCHANGED status
    BY <1>2, <1>4, <1>5, GrowthKeeps DEF X
  <1>6. CASE asm' = FlushPool(out, FALSE)
    <2>1. /\ Advances(asm, asm', X) /\ NoResume(asm.code, asm'.code) /\ asm'.pending = << >>
      BY <1>3, <1>4, <1>6, LeaveFlushes
    <2> QED
      BY <1>2, <2>1, GrowthKeeps DEF X
  <1> QED
    BY <1>1, <1>5, <1>6

LEMMA StateInvLoopBody ==
  ASSUME StateInv, LoopBody
  PROVE  StateInv'
  <1>1. /\ loop' = Pc(asm) /\ inst' = inst /\ asm' = asm /\ status' = status
        /\ UNCHANGED << chain, table, open, bound, entries >>
    BY DEF LoopBody
  <1>2. Len(asm.code) \in Nat /\ Pc(asm) = 2 * Len(asm.code)
        /\ Tracked(asm.code, open, chain, bound, loop, entries, table)
    BY InvGives
  <1>3. Lands(asm.code, Pc(asm))
    <2> DEFINE n == Len(asm.code)
    <2>1. n \in Nat /\ Pc(asm) = 2 * n
      BY <1>2
    <2> HIDE DEF n
    <2>2. Pc(asm) \in Nat /\ Pc(asm) % 2 = 0 /\ Pc(asm) <= 2 * n /\ ~ (Pc(asm) < 2 * n)
      BY <2>1
    <2> QED
      BY <2>2 DEF Lands, n
  <1>4. Tracked(asm.code, open, chain, bound, loop', entries, table)
    BY <1>1, <1>2, <1>3 DEF Tracked, LoopLands
  <1> QED
    BY <1>1, <1>4, InvKept DEF StateInv

-----------------------------------------------------------------------------
(* A branch joins the chain of its label. *)

LEMMA SiteNew ==
  ASSUME NEW c, NEW sites, NEW heads, Chains(c, sites, heads), Len(c) \in Nat
  PROVE  /\ 2 * Len(c) \notin SitesIn(sites)
         /\ \A l \in Labels : \A s \in sites[l] : s \in Nat /\ s < 2 * Len(c)
  <1>1. \A l \in Labels : \A s \in sites[l] : s \in Nat /\ s < 2 * Len(c)
    <2> SUFFICES ASSUME NEW l \in Labels, NEW s \in sites[l] PROVE s \in Nat /\ s < 2 * Len(c)
      OBVIOUS
    <2>1. SiteIn(c, s)
      BY DEF Chains, Chained
    <2> QED
      BY <2>1 DEF SiteIn
  <1>2. 2 * Len(c) \in Nat /\ ~ (2 * Len(c) < 2 * Len(c))
    OBVIOUS
  <1> QED
    BY <1>1, <1>2 DEF SitesIn

(* The chain of l, which site s joins: what it holds leads to the head there
   was, or to itself. *)
LEMMA ChainGrows ==
  ASSUME NEW c, NEW d, Len(c) \in Nat, Len(d) \in Nat, Extends(c, d),
         NEW S, NEW head, Chained(c, S, head), NEW s, s \in Nat, s >= 2 * Len(c),
         SiteIn(d, s), Target(d, s) = LinkTarget(head, s)
  PROVE  Chained(d, S \cup {s}, s)
  <1>1. \A r \in S : r \in Nat /\ r < 2 * Len(c) /\ SiteIn(d, r) /\ Target(d, r) = Target(c, r)
    <2> SUFFICES ASSUME NEW r \in S
                 PROVE  r \in Nat /\ r < 2 * Len(c) /\ SiteIn(d, r) /\ Target(d, r) = Target(c, r)
      OBVIOUS
    <2>1. SiteIn(c, r)
      BY DEF Chained
    <2> QED
      BY <2>1, SiteKept
  <1>2. \A r \in S : r < s
    BY <1>1
  <1>3. HeadOf(S \cup {s}, s)
    BY <1>1, <1>2 DEF HeadOf
  <1>4. ASSUME NEW r \in S
        PROVE  Follows(S \cup {s}, r, Target(d, r), r)
    <2>1. Follows(S, r, Target(c, r), r)
      BY DEF Chained
    <2>2. ~ (s < r)
      BY <1>1, <1>2
    <2>3. Target(d, r) = Target(c, r)
      BY <1>1
    <2> QED
      BY <2>1, <2>2, <2>3 DEF Follows
  <1>5. Follows(S \cup {s}, s, Target(d, s), s)
    <2>1. CASE S = {}
      <3>1. head = -1 /\ Target(d, s) = s
        BY <2>1 DEF Chained, HeadOf, LinkTarget
      <3>2. ~ \E r \in S \cup {s} : r < s
        BY <2>1
      <3> QED
        BY <3>1, <3>2 DEF Follows
    <2>2. CASE S # {}
      <3>1. head \in S /\ \A r \in S : r <= head
        BY <2>2 DEF Chained, HeadOf
      <3>2. head # -1 /\ Target(d, s) = head
        BY <1>1, <3>1 DEF LinkTarget
      <3>3. head < s /\ \A r \in S \cup {s} : r < s => r <= head
        BY <1>2, <3>1
      <3> QED
        BY <3>1, <3>2, <3>3 DEF Follows
    <2> QED
      BY <2>1, <2>2
  <1> QED
    BY <1>1, <1>3, <1>4, <1>5 DEF Chained

Join(sites, l, s) == [sites EXCEPT ![l] = @ \cup {s}]
Top(heads, l, s) == [heads EXCEPT ![l] = s]

LEMMA ChainsJoin ==
  ASSUME NEW c, NEW d, Len(c) \in Nat, Len(d) \in Nat, Extends(c, d),
         NEW sites, NEW heads, Chains(c, sites, heads), NEW l \in Labels,
         NEW s, s \in Nat, s >= 2 * Len(c), SiteIn(d, s), Target(d, s) = LinkTarget(heads[l], s)
  PROVE  /\ Chains(d, Join(sites, l, s), Top(heads, l, s))
         /\ SitesIn(Join(sites, l, s)) = SitesIn(sites) \cup {s}
  <1> DEFINE more == Join(sites, l, s)
             tops == Top(heads, l, s)
  <1>1. sites = [k \in Labels |-> sites[k]] /\ heads = [k \in Labels |-> heads[k]]
    BY DEF Chains
  <1>2. more = [k \in Labels |-> IF k = l THEN sites[l] \cup {s} ELSE sites[k]]
    BY <1>1 DEF Join
  <1>3. tops = [k \in Labels |-> IF k = l THEN s ELSE heads[k]]
    BY <1>1 DEF Top
  <1> HIDE DEF more, tops
  <1>4. more = [k \in Labels |-> more[k]] /\ tops = [k \in Labels |-> tops[k]]
    BY <1>2, <1>3
  <1>5. /\ more[l] = sites[l] \cup {s} /\ tops[l] = s
        /\ \A k \in Labels : k # l => more[k] = sites[k] /\ tops[k] = heads[k]
    BY <1>2, <1>3
  <1>6. Chains(d, sites, heads)
    BY ChainsKept
  <1>7. ASSUME NEW k \in Labels PROVE Chained(d, more[k], tops[k])
    <2>1. CASE k = l
      <3>1. Chained(c, sites[l], heads[l])
        BY DEF Chains
      <3>2. Chained(d, sites[l] \cup {s}, s)
        BY <3>1, ChainGrows
      <3> QED
        BY <1>5, <2>1, <3>2
    <2>2. CASE k # l
      BY <1>5, <1>6, <2>2 DEF Chains
    <2> QED
      BY <2>1, <2>2
  <1>8. \A k \in Labels : s \notin sites[k]
    <2>1. \A k \in Labels : \A r \in sites[k] : r \in Nat /\ r < 2 * Len(c)
      BY SiteNew
    <2> QED
      BY <2>1
  <1>9. \A k, m \in Labels : k # m => more[k] \cap more[m] = {}
    <2> SUFFICES ASSUME NEW k \in Labels, NEW m \in Labels, k # m PROVE more[k] \cap more[m] = {}
      OBVIOUS
    <2>1. sites[k] \cap sites[m] = {}
      BY DEF Chains
    <2>2. /\ more[k] \subseteq sites[k] \cup (IF k = l THEN {s} ELSE {})
          /\ more[m] \subseteq sites[m] \cup (IF m = l THEN {s} ELSE {})
      BY <1>5
    <2> QED
      BY <1>8, <2>1, <2>2
  <1>10. SitesIn(more) = SitesIn(sites) \cup {s}
    BY <1>5 DEF SitesIn
  <1>11. Chains(d, more, tops)
    BY <1>4, <1>7, <1>9 DEF Chains
  <1> QED
    BY <1>10, <1>11 DEF more, tops

(* A branch whose displacement is known when it is emitted. *)
LEMMA BackBody ==
  ASSUME NEW a, NEW X, Body(a, X), ~ a.atomic, Within(a, 2), ReachBounds,
         NEW op \in BranchOps, NEW start \in Int
  PROVE  Branched(a, Emit(a, Halfword(op, start - (Pc(a) + 4), Nothing)), X, op, start)
  <1> DEFINE h == Halfword(op, start - (Pc(a) + 4), Nothing)
             Y == X \cup {Pc(a)}
             b == Emit(a, h)
             n == Len(a.code)
  <1>1. n \in Nat /\ Pc(a) = 2 * n
    BY BodyLen
  <1>2. IsHalf(h) /\ h.op = op /\ h.arg = start - (2 * n + 4)
    <2>1. start - (2 * n + 4) \in Int
      BY <1>1
    <2> QED
      BY <1>1, <2>1, HalfIs
  <1> HIDE DEF h, n
  <1>3. /\ h.op \notin DataOps /\ h.op # "ldr" /\ h.op # "movs"
        /\ h.op \in BranchOps => Pc(a) \in Y
        /\ X \subseteq Y
    BY <1>2 DEF BranchOps, DataOps
  <1>4. h.op = "movs" => h.value.kind # "resume"
    BY <1>3
  <1> HIDE DEF Y
  <1>5. /\ Body(b, Y) /\ b.atomic = a.atomic /\ Within(b, 2)
        /\ Grows(a.code, b.code) /\ NoResume(a.code, b.code)
        /\ Len(b.code) > Len(a.code) /\ b.code[Len(a.code) + 1] = h
    BY <1>2, <1>3, <1>4, EmitBody
  <1> HIDE DEF b
  <1> DEFINE m == n + 1
  <1>6. m \in Int /\ 2 * (m - 1) = Pc(a) /\ 2 * m + 2 = 2 * n + 4
    BY <1>1
  <1>7. b.code[m] = h
    BY <1>5 DEF n
  <1> HIDE DEF m
  <1>8. Target(b.code, 2 * (m - 1)) = 2 * m + 2 + b.code[m].arg
    BY <1>6, AtIndex
  <1>9. Target(b.code, Pc(a)) = start
    BY <1>1, <1>2, <1>6, <1>7, <1>8
  <1> QED
    BY <1>2, <1>5, <1>9 DEF Branched, Y, b, h

LEMMA BranchedSite ==
  ASSUME NEW a, NEW b, NEW X, NEW op \in BranchOps, NEW t, Branched(a, b, X, op, t),
         Len(a.code) \in Nat, Len(b.code) \in Nat
  PROVE  SiteIn(b.code, Pc(a)) /\ Target(b.code, Pc(a)) = t
  <1> DEFINE m == Len(a.code) + 1
  <1>1. m \in 1 .. Len(b.code) /\ Pc(a) = 2 * (m - 1)
    BY DEF Branched, Pc
  <1>2. b.code[m].op \in BranchOps
    BY DEF Branched
  <1> QED
    BY <1>1, <1>2 DEF SiteIn, Branched

(* A conditional branch over another, made to skip what came with it. *)
Skipped(a, b, X, p, land, site, target) ==
  /\ Body(b, X \cup {site}) /\ ~ b.atomic /\ Within(b, 2)
  /\ Grows(a.code, b.code) /\ NoResume(a.code, b.code)
  /\ SiteIn(b.code, p) /\ Target(b.code, p) = land
  /\ SiteIn(b.code, site) /\ Target(b.code, site) = target
  /\ p < site

LEMMA SkipBody ==
  ASSUME NEW a, NEW X, Body(a, X), NEW skip, NEW back, NEW t, NEW op \in BranchOps, NEW target,
         Branched(a, skip, X, "bcc", t), Branched(skip, back, X \cup {Pc(a)}, op, target)
  PROVE  Skipped(a, [back EXCEPT !.code = PatchBranch(@, {Pc(a)}, Pc(back))],
                 X, Pc(a), Pc(back), Pc(skip), target)
  <1> DEFINE p == Pc(a)
             site == Pc(skip)
             S == {p}
             Y == X \cup {p}
             Z == Y \cup {site}
             q == Pc(back)
             e == back.code
             d == PatchBranch(e, S, q)
             b == [back EXCEPT !.code = d]
             n == Len(a.code)
             m == Len(skip.code)
  <1>1. /\ Body(skip, Y) /\ Grows(a.code, skip.code) /\ NoResume(a.code, skip.code)
        /\ Len(skip.code) > n
        /\ Body(back, Z) /\ ~ back.atomic /\ Within(back, 2)
        /\ Grows(skip.code, e) /\ NoResume(skip.code, e) /\ Len(e) > m
    BY DEF Branched
  <1>2. /\ n \in Nat /\ m \in Nat /\ Len(e) \in Nat /\ IsAsm(back) /\ IsCode(e)
        /\ p = 2 * n /\ site = 2 * m /\ q = 2 * Len(e) /\ n < m /\ m < Len(e)
    BY <1>1, BodyLen
  <1>3. SiteIn(skip.code, p)
    BY <1>2, BranchedSite, "bcc" \in BranchOps DEF BranchOps
  <1>4. SiteIn(e, site) /\ Target(e, site) = target
    BY <1>2, BranchedSite
  <1>5. SiteIn(e, p)
    BY <1>1, <1>2, <1>3, SiteKept DEF Grows
  <1>6. Grows(a.code, e) /\ NoResume(a.code, e)
    BY <1>1, <1>2, GrowsBoth, NoneBoth DEF Grows
  <1> HIDE DEF d, e, p, q, site
  <1>7. \A i \in 1 .. Len(e) : 2 * (i - 1) \in S => e[i].op \in BranchOps
    <2> SUFFICES ASSUME NEW i \in 1 .. Len(e), 2 * (i - 1) \in S PROVE e[i].op \in BranchOps
      OBVIOUS
    <2>1. PICK k \in 1 .. Len(e) : p = 2 * (k - 1) /\ e[k].op \in BranchOps
      BY <1>5 DEF SiteIn
    <2>2. i = k
      BY <1>2, <2>1
    <2> QED
      BY <2>1, <2>2
  <1>8. q \in Int
    BY <1>2
  <1>9. Patched(back, b, Z, S, q)
    <2>1. Patched(back, [back EXCEPT !.code = PatchBranch(back.code, S, q)], Z, S, q)
      BY <1>1, <1>7, <1>8, PatchBody DEF e
    <2> QED
      BY <2>1 DEF d, e
  <1>10. b.code = d
    BY <1>2, SetCodeMakes
  <1> HIDE DEF b
  <1>11. /\ b.pending = back.pending /\ b.atomic = back.atomic /\ Repatched(e, d)
         /\ \A i \in 1 .. Len(e) :
              IF 2 * (i - 1) \in S THEN Target(d, 2 * (i - 1)) = q ELSE d[i] = e[i]
         /\ Lands(e, q) => Body(b, Z \ S)
    BY <1>9, <1>10 DEF Patched, e
  <1>12. Lands(e, q)
    <2>1. q \in Nat /\ q % 2 = 0 /\ q <= 2 * Len(e) /\ ~ (q < 2 * Len(e))
      BY <1>2
    <2> QED
      BY <2>1 DEF Lands
  <1>13. Body(b, X \cup {site})
    <2>1. Z \ S \subseteq X \cup {site}
      BY DEF Z, Y, S
    <2> QED
      BY <1>11, <1>12, <2>1, BodyWider
  <1>14. Len(d) = Len(e)
    BY <1>11 DEF Repatched
  <1>15. Within(b, 2)
    BY <1>1, <1>10, <1>11, <1>14 DEF Within, Pc, e
  <1>16. \A i \in 1 .. n : d[i] = e[i]
    <2> SUFFICES ASSUME NEW i \in 1 .. n PROVE d[i] = e[i]
      OBVIOUS
    <2>1. i \in 1 .. Len(e) /\ 2 * (i - 1) \notin S
      BY <1>2
    <2> QED
      BY <1>11, <2>1
  <1>17. Grows(a.code, d) /\ NoResume(a.code, d)
    BY <1>2, <1>6, <1>11, <1>16, RepatchGrows
  <1>18. SiteIn(d, p) /\ Target(d, p) = q
    <2>1. PICK k \in 1 .. Len(e) : p = 2 * (k - 1) /\ e[k].op \in BranchOps
      BY <1>5 DEF SiteIn
    <2>2. d[k].op = e[k].op /\ k \in 1 .. Len(d)
      BY <1>11, <1>14 DEF Repatched
    <2>3. Target(d, 2 * (k - 1)) = q
      BY <1>11, <2>1
    <2> QED
      BY <2>1, <2>2, <2>3 DEF SiteIn
  <1>19. SiteIn(d, site) /\ Target(d, site) = target
    <2>1. PICK k \in 1 .. Len(e) : site = 2 * (k - 1) /\ e[k].op \in BranchOps
      BY <1>4 DEF SiteIn
    <2>2. 2 * (k - 1) \notin S
      BY <1>2, <2>1
    <2>3. d[k] = e[k] /\ k \in 1 .. Len(d) /\ k \in Int
      BY <1>11, <1>14, <2>2
    <2>4. /\ Target(d, 2 * (k - 1)) = 2 * k + 2 + d[k].arg
          /\ Target(e, 2 * (k - 1)) = 2 * k + 2 + e[k].arg
      BY <2>3, AtIndex
    <2> QED
      BY <1>4, <2>1, <2>3, <2>4 DEF SiteIn
  <1>20. p < site
    BY <1>2
  <1>21. ~ b.atomic
    BY <1>1, <1>11
  <1>22. Skipped(a, b, X, p, q, site, target)
    BY <1>10, <1>13, <1>15, <1>17, <1>18, <1>19, <1>20, <1>21 DEF Skipped
  <1>23. b = [back EXCEPT !.code = PatchBranch(@, {Pc(a)}, Pc(back))]
    BY DEF b, d, e, S, p, q
  <1> QED
    BY <1>22, <1>23 DEF p, q, site

LEMMA JoinSites ==
  ASSUME NEW c, NEW sites, NEW heads, Chains(c, sites, heads), NEW l \in Labels, NEW s
  PROVE  SitesIn(Join(sites, l, s)) = SitesIn(sites) \cup {s}
  <1> DEFINE more == Join(sites, l, s)
  <1>1. sites = [k \in Labels |-> sites[k]]
    BY DEF Chains
  <1>2. more = [k \in Labels |-> IF k = l THEN sites[l] \cup {s} ELSE sites[k]]
    BY <1>1 DEF Join
  <1> HIDE DEF more
  <1>3. more[l] = sites[l] \cup {s} /\ \A k \in Labels : k # l => more[k] = sites[k]
    BY <1>2
  <1>4. SitesIn(more) = SitesIn(sites) \cup {s}
    BY <1>3 DEF SitesIn
  <1> QED
    BY <1>4 DEF more

(* Branches that land where they were meant to, and wait for nothing. *)
Landing(d, extra, X, s) ==
  \A b \in extra : /\ SiteIn(d, b[1]) /\ Target(d, b[1]) = b[2]
                   /\ b[1] \notin X /\ b[1] # s

(* A site joins the chain of l, and others land, as the code grows. *)
Joins(c, d, sites, heads, bs, start, es, tb, l, s, extra) ==
  /\ Len(c) \in Nat /\ Len(d) \in Nat /\ Grows(c, d)
  /\ Tracked(c, sites, heads, bs, start, es, tb) /\ l \in Labels
  /\ s \in Nat /\ s >= 2 * Len(c) /\ SiteIn(d, s)
  /\ Target(d, s) = LinkTarget(heads[l], s) /\ Landing(d, extra, SitesIn(sites), s)

LEMMA TrackedJoins ==
  ASSUME NEW c, NEW d, NEW sites, NEW heads, NEW bs, NEW start, NEW es, NEW tb,
         NEW l, NEW s, NEW extra, Joins(c, d, sites, heads, bs, start, es, tb, l, s, extra)
  PROVE  /\ Tracked(d, Join(sites, l, s), Top(heads, l, s), bs \cup extra, start, es, tb)
         /\ SitesIn(Join(sites, l, s)) = SitesIn(sites) \cup {s}
  <1> DEFINE more == Join(sites, l, s)
             tops == Top(heads, l, s)
  <1> USE DEF Joins
  <1>1. Extends(c, d) /\ Chains(c, sites, heads) /\ BoundLand(c, bs, SitesIn(sites))
    BY DEF Grows, Tracked
  <1>2. Chains(d, more, tops) /\ SitesIn(more) = SitesIn(sites) \cup {s}
    BY <1>1, ChainsJoin
  <1> HIDE DEF more, tops
  <1>3. BoundLand(d, bs \cup extra, SitesIn(more))
    <2> SUFFICES ASSUME NEW b \in bs \cup extra
                 PROVE  SiteIn(d, b[1]) /\ b[1] \notin SitesIn(more) /\ Target(d, b[1]) = b[2]
      BY DEF BoundLand
    <2>1. CASE b \in extra
      BY <1>2, <2>1 DEF Landing
    <2>2. CASE b \in bs
      <3>1. SiteIn(c, b[1]) /\ b[1] \notin SitesIn(sites) /\ Target(c, b[1]) = b[2]
        BY <1>1, <2>2 DEF BoundLand
      <3> DEFINE r == b[1]
      <3>2. SiteIn(c, r)
        BY <3>1
      <3> HIDE DEF r
      <3>3. SiteIn(d, r) /\ Target(d, r) = Target(c, r) /\ r \in Nat /\ r < 2 * Len(c)
        BY <1>1, <3>2, SiteKept
      <3>4. r # s
        BY <3>3
      <3> QED
        BY <1>2, <3>1, <3>3, <3>4 DEF r
    <2> QED
      BY <2>1, <2>2
  <1>4. Tracked(d, sites, heads, bs, start, es, tb)
    BY TrackedGrows
  <1>5. Tracked(d, more, tops, bs \cup extra, start, es, tb)
    BY <1>2, <1>3, <1>4 DEF Tracked
  <1> QED
    BY <1>2, <1>5 DEF more, tops

LEMMA HeadIs ==
  ASSUME NEW c, Len(c) \in Nat, NEW sites, NEW heads, Chains(c, sites, heads), NEW l \in Labels
  PROVE  heads[l] \in Int
  <1>1. HeadOf(sites[l], heads[l])
    BY DEF Chains, Chained
  <1>2. \A s \in sites[l] : s \in Nat
    BY SiteNew
  <1> QED
    BY <1>1, <1>2 DEF HeadOf

LEMMA StateInvBranch ==
  ASSUME StateInv, NEW l \in Labels, NEW op \in BranchOps, Branch(l, op)
  PROVE  StateInv'
  <1> DEFINE X == SitesIn(open)
             p == Pc(asm)
             b == BranchTo(asm, op, chain[l])
             t == LinkTarget(chain[l], p)
  <1>1. CASE Abandon
    BY <1>1, StateInvAbandon
  <1>2. CASE ~ Abandon
    <2>1. /\ asm' = BranchTo(asm, op, chain[l])
          /\ chain' = [chain EXCEPT ![l] = Pc(asm)]
          /\ open' = [open EXCEPT ![l] = @ \cup {Pc(asm)}]
          /\ inst' = inst /\ table' = table /\ status' = status /\ loop' = loop
          /\ bound' = bound /\ entries' = entries /\ status # "finished"
      BY <1>2 DEF Branch, Room, Emitting
    <2>2. /\ Body(asm, X) /\ ~ asm.atomic /\ Within(asm, 2) /\ ReachBounds
          /\ Len(asm.code) \in Nat /\ p = 2 * Len(asm.code)
          /\ Tracked(asm.code, open, chain, bound, loop, entries, table)
      BY InvGives DEF AllBounds
    <2>3. chain[l] \in Int
      BY <2>2, HeadIs DEF Tracked
    <2>4. Branched(asm, b, X, op, t)
      BY <2>2, <2>3, BranchToBody
    <2> HIDE DEF b, t, X
    <2>5. /\ Body(b, X \cup {Pc(asm)}) /\ ~ b.atomic /\ Within(b, 2)
          /\ Grows(asm.code, b.code) /\ NoResume(asm.code, b.code)
      BY <2>4 DEF Branched
    <2>6. Len(b.code) \in Nat
      BY <2>5, BodyLen
    <2>7. SiteIn(b.code, p) /\ Target(b.code, p) = t
      BY <2>2, <2>4, <2>6, BranchedSite
    <2> DEFINE more == Join(open, l, p)
               tops == Top(chain, l, p)
    <2>8. p \in Nat /\ p >= 2 * Len(asm.code)
      BY <2>2
    <2> HIDE DEF p
    <2>9. /\ Tracked(b.code, more, tops, bound \cup {}, loop, entries, table)
          /\ SitesIn(more) = SitesIn(open) \cup {p}
      <3>1. Landing(b.code, {}, SitesIn(open), p)
        BY DEF Landing
      <3> DEFINE c == asm.code
                 d == b.code
                 none == {}
      <3>2. /\ Len(c) \in Nat /\ Len(d) \in Nat /\ Grows(c, d)
            /\ Tracked(c, open, chain, bound, loop, entries, table)
            /\ p \in Nat /\ p >= 2 * Len(c) /\ SiteIn(d, p)
            /\ Target(d, p) = LinkTarget(chain[l], p) /\ Landing(d, none, SitesIn(open), p)
        BY <2>2, <2>5, <2>6, <2>7, <2>8, <3>1 DEF t
      <3>a. Joins(c, d, open, chain, bound, loop, entries, table, l, p, none)
        BY <3>2 DEF Joins
      <3> HIDE DEF c, d, none
      <3>b. Tracked(d, Join(open, l, p), Top(chain, l, p), bound \cup none, loop, entries, table)
        BY ONLY <3>a, TrackedJoins
      <3>c. SitesIn(Join(open, l, p)) = SitesIn(open) \cup {p}
        <4>1. Chains(asm.code, open, chain)
          BY <2>2 DEF Tracked
        <4> QED
          BY <4>1, JoinSites
      <3>3. /\ Tracked(d, more, tops, bound \cup none, loop, entries, table)
            /\ SitesIn(more) = SitesIn(open) \cup {p}
        BY <3>b, <3>c
      <3> QED
        BY <3>3 DEF d, none
    <2>10. bound \cup {} = bound
      OBVIOUS
    <2> HIDE DEF more, tops
    <2>11. Built(b, more)
      BY <2>5, <2>9 DEF Built, X, p
    <2>12. ~ BothFromPool => Resuming(b.code)
      <3>1. ~ BothFromPool => Resuming(asm.code)
        BY DEF StateInv
      <3> QED
        BY <2>2, <2>5, <2>6, <3>1, ResumingGrown DEF Grows
    <2>13. asm' = b /\ open' = more /\ chain' = tops
      BY <2>1 DEF b, more, tops, p, Join, Top
    <2> QED
      BY <2>1, <2>9, <2>10, <2>11, <2>12, <2>13, InvKept DEF StateInv
  <1> QED
    BY <1>1, <1>2

LEMMA StateInvBranchWide ==
  ASSUME StateInv, NEW l \in Labels, BranchWide(l)
  PROVE  StateInv'
  <1>1. CASE Abandon
    BY <1>1, StateInvAbandon
  <1>2. CASE ~ Abandon
    <2> DEFINE X == SitesIn(open)
               p == Pc(asm)
               skip == Linked(asm, "bcc", -1)
               site == Pc(skip)
               taken == BranchTo(skip, "b", chain[l])
               t == LinkTarget(chain[l], site)
               b == [taken EXCEPT !.code = PatchBranch(@, {Pc(asm)}, Pc(taken))]
               land == Pc(taken)
    <2>1. /\ asm' = b
          /\ chain' = [chain EXCEPT ![l] = site]
          /\ open' = [open EXCEPT ![l] = @ \cup {site}]
          /\ bound' = bound \cup {<< p, land >>}
          /\ inst' = inst /\ table' = table /\ status' = status /\ loop' = loop
          /\ entries' = entries /\ status # "finished"
      BY <1>2 DEF BranchWide, Room, Emitting
    <2>2. /\ Body(asm, X) /\ ~ asm.atomic /\ Within(asm, 2) /\ ReachBounds
          /\ Len(asm.code) \in Nat /\ p = 2 * Len(asm.code)
          /\ Tracked(asm.code, open, chain, bound, loop, entries, table)
      BY InvGives DEF AllBounds
    <2>3. chain[l] \in Int
      BY <2>2, HeadIs DEF Tracked
    <2>4. Branched(asm, skip, X, "bcc", LinkTarget(-1, p))
      <3> DEFINE head == -1
      <3>1. "bcc" \in BranchOps /\ head \in Int
        BY DEF BranchOps
      <3> HIDE DEF head
      <3>2. Branched(asm, Linked(asm, "bcc", head), X, "bcc", LinkTarget(head, Pc(asm)))
        BY <2>2, <3>1, LinkedBody
      <3> QED
        BY <3>2 DEF head
    <2> HIDE DEF skip, X
    <2>5. /\ Body(skip, X \cup {p}) /\ ~ skip.atomic /\ Within(skip, 2)
      BY <2>4 DEF Branched
    <2>6. Branched(skip, taken, X \cup {p}, "b", t)
      <3>1. "b" \in BranchOps
        BY DEF BranchOps
      <3> QED
        BY <2>2, <2>3, <2>5, <3>1, BranchToBody
    <2> HIDE DEF taken, t
    <2>7. Skipped(asm, b, X, p, land, site, t)
      BY <2>2, <2>4, <2>6, SkipBody DEF BranchOps
    <2> HIDE DEF b
    <2>8. /\ Body(b, X \cup {site}) /\ ~ b.atomic /\ Within(b, 2)
          /\ Grows(asm.code, b.code) /\ NoResume(asm.code, b.code)
          /\ SiteIn(b.code, p) /\ Target(b.code, p) = land
          /\ SiteIn(b.code, site) /\ Target(b.code, site) = t /\ p < site
      BY <2>7 DEF Skipped
    <2>9. Len(b.code) \in Nat /\ site \in Nat
      BY <2>5, <2>8, BodyLen
    <2>10. p \notin SitesIn(open)
      BY <2>2, SiteNew DEF Tracked
    <2>11. site >= 2 * Len(asm.code) /\ p # site
      BY <2>2, <2>8, <2>9
    <2> DEFINE more == Join(open, l, site)
               tops == Top(chain, l, site)
               extra == {<< p, land >>}
    <2>12. Landing(b.code, extra, SitesIn(open), site)
      BY <2>8, <2>10, <2>11 DEF Landing
    <2> HIDE DEF extra, p, site, land
    <2>13. /\ Tracked(b.code, more, tops, bound \cup extra, loop, entries, table)
           /\ SitesIn(more) = SitesIn(open) \cup {site}
      <3> DEFINE c == asm.code
                 d == b.code
      <3>2. /\ Len(c) \in Nat /\ Len(d) \in Nat /\ Grows(c, d)
            /\ Tracked(c, open, chain, bound, loop, entries, table)
            /\ site \in Nat /\ site >= 2 * Len(c) /\ SiteIn(d, site)
            /\ Target(d, site) = LinkTarget(chain[l], site)
            /\ Landing(d, extra, SitesIn(open), site)
        BY <2>2, <2>8, <2>9, <2>11, <2>12 DEF t
      <3>a. Joins(c, d, open, chain, bound, loop, entries, table, l, site, extra)
        BY <3>2 DEF Joins
      <3> HIDE DEF c, d
      <3>b. Tracked(d, Join(open, l, site), Top(chain, l, site), bound \cup extra, loop, entries,
                    table)
        BY ONLY <3>a, TrackedJoins
      <3>c. SitesIn(Join(open, l, site)) = SitesIn(open) \cup {site}
        <4>1. Chains(asm.code, open, chain)
          BY <2>2 DEF Tracked
        <4> QED
          BY <4>1, JoinSites
      <3>3. /\ Tracked(d, more, tops, bound \cup extra, loop, entries, table)
            /\ SitesIn(more) = SitesIn(open) \cup {site}
        BY <3>b, <3>c
      <3> QED
        BY <3>3 DEF d
    <2> HIDE DEF more, tops
    <2>14. Built(b, more)
      BY <2>8, <2>13 DEF Built, X
    <2>15. ~ BothFromPool => Resuming(b.code)
      <3>1. ~ BothFromPool => Resuming(asm.code)
        BY DEF StateInv
      <3> QED
        BY <2>2, <2>8, <2>9, <3>1, ResumingGrown DEF Grows
    <2>16. asm' = b /\ open' = more /\ chain' = tops /\ bound' = bound \cup extra
      BY <2>1 DEF more, tops, extra, Join, Top
    <2> QED
      BY <2>1, <2>13, <2>14, <2>15, <2>16, InvKept DEF StateInv
  <1> QED
    BY <1>1, <1>2

LEMMA TrackedLands ==
  ASSUME NEW c, NEW d, Len(c) \in Nat, Len(d) \in Nat, Grows(c, d),
         NEW sites, NEW heads, NEW bs, NEW start, NEW es, NEW tb,
         Tracked(c, sites, heads, bs, start, es, tb),
         NEW extra, Landing(d, extra, SitesIn(sites), -1)
  PROVE  Tracked(d, sites, heads, bs \cup extra, -1, es, tb)
  <1>1. Tracked(d, sites, heads, bs, start, es, tb)
    BY TrackedGrows
  <1>2. BoundLand(d, bs \cup extra, SitesIn(sites))
    <2> SUFFICES ASSUME NEW b \in bs \cup extra
                 PROVE  SiteIn(d, b[1]) /\ b[1] \notin SitesIn(sites) /\ Target(d, b[1]) = b[2]
      BY DEF BoundLand
    <2>1. CASE b \in extra
      BY <2>1 DEF Landing
    <2>2. CASE b \in bs
      BY <1>1, <2>2 DEF Tracked, BoundLand
    <2> QED
      BY <2>1, <2>2
  <1> QED
    BY <1>1, <1>2 DEF Tracked, LoopLands

LEMMA NewSites ==
  ASSUME NEW c, NEW sites, NEW heads, Chains(c, sites, heads), Len(c) \in Nat,
         NEW s, s \in Nat, s >= 2 * Len(c)
  PROVE  s \notin SitesIn(sites)
  <1>1. \A l \in Labels : \A r \in sites[l] : r \in Nat /\ r < 2 * Len(c)
    BY SiteNew
  <1>2. \A l \in Labels : s \notin sites[l]
    BY <1>1
  <1> QED
    BY <1>2 DEF SitesIn

(* What a loop's own branch leaves, with what else now lands. *)
Looped(b, X, c, extra) ==
  /\ Body(b, X) /\ ~ b.atomic /\ Within(b, 2) /\ Grows(c, b.code) /\ NoResume(c, b.code)
  /\ Landing(b.code, extra, X, -1)

LEMMA LoopedKeeps ==
  ASSUME StateInv, NEW extra, Looped(asm', SitesIn(open), asm.code, extra),
         inst' = inst, chain' = chain, table' = table, status' = status, status # "finished",
         open' = open, entries' = entries, bound' = bound \cup extra, loop' = -1
  PROVE  StateInv'
  <1> DEFINE b == asm'
  <1>1. /\ Body(b, SitesIn(open)) /\ ~ b.atomic /\ Within(b, 2)
        /\ Grows(asm.code, b.code) /\ NoResume(asm.code, b.code)
        /\ Landing(b.code, extra, SitesIn(open), -1)
    BY DEF Looped
  <1>2. /\ Len(asm.code) \in Nat
        /\ Tracked(asm.code, open, chain, bound, loop, entries, table)
    BY InvGives
  <1>3. Len(b.code) \in Nat
    BY <1>1, BodyLen
  <1>4. Tracked(b.code, open, chain, bound \cup extra, -1, entries, table)
    BY <1>1, <1>2, <1>3, TrackedLands
  <1>5. ~ BothFromPool => Resuming(b.code)
    <2>1. ~ BothFromPool => Resuming(asm.code)
      BY DEF StateInv
    <2> QED
      BY <1>1, <1>2, <1>3, <2>1, ResumingGrown DEF Grows
  <1>6. Built(b, open)
    BY <1>1 DEF Built
  <1> QED
    BY <1>4, <1>5, <1>6, InvKept DEF StateInv

LEMMA StateInvBackBranch ==
  ASSUME StateInv, BackBranch
  PROVE  StateInv'
  <1> DEFINE X == SitesIn(open)
             p == Pc(asm)
  <1>1. CASE Abandon
    BY <1>1, StateInvAbandon
  <1>2. /\ Body(asm, X) /\ ~ asm.atomic /\ Within(asm, 2) /\ ReachBounds
        /\ Len(asm.code) \in Nat /\ p = 2 * Len(asm.code)
        /\ Tracked(asm.code, open, chain, bound, loop, entries, table)
        /\ Chains(asm.code, open, chain)
    BY InvGives DEF AllBounds, Tracked
  <1>3. loop # -1 /\ status # "finished"
    BY DEF BackBranch, Room, Emitting
  <1>4. Lands(asm.code, loop) /\ loop \in Int
    BY <1>2, <1>3 DEF Tracked, LoopLands, Lands
  <1>5. p \notin X
    BY <1>2, SiteNew
  <1>6. CASE ~ Abandon /\ status # "Wide"
    <2> DEFINE back == Emit(asm, Halfword("bcc", loop - (Pc(asm) + 4), Nothing))
               extra == {<< p, loop >>}
    <2>1. /\ asm' = back /\ loop' = -1 /\ inst' = inst /\ chain' = chain /\ table' = table
          /\ status' = status /\ open' = open /\ entries' = entries
          /\ bound' = bound \cup {<< p, loop >>} \cup {}
      BY <1>6 DEF BackBranch
    <2>a. bound' = bound \cup extra
      BY <2>1
    <2>2. Branched(asm, back, X, "bcc", loop)
      <3>1. "bcc" \in BranchOps
        BY DEF BranchOps
      <3> QED
        BY <1>2, <1>4, <3>1, BackBody
    <2> HIDE DEF back, X
    <2>3. /\ Body(back, X \cup {p}) /\ ~ back.atomic /\ Within(back, 2)
          /\ Grows(asm.code, back.code) /\ NoResume(asm.code, back.code)
      BY <2>2 DEF Branched
    <2>4. Len(back.code) \in Nat
      BY <2>3, BodyLen
    <2>5. SiteIn(back.code, p) /\ Target(back.code, p) = loop
      BY <1>2, <2>2, <2>4, BranchedSite DEF BranchOps
    <2>6. Lands(back.code, loop)
      BY <1>2, <1>4, <2>3, <2>4, LandsGrown
    <2>7. Body(back, X)
      BY <2>3, <2>5, <2>6, Settle
    <2>8. Landing(back.code, extra, X, -1)
      BY <1>2, <1>5, <2>5 DEF Landing
    <2>9. Looped(asm', X, asm.code, extra)
      BY <2>1, <2>3, <2>7, <2>8 DEF Looped
    <2> HIDE DEF extra
    <2> QED
      BY <1>3, <2>1, <2>a, <2>9, LoopedKeeps DEF X
  <1>7. CASE ~ Abandon /\ status = "Wide"
    <2> DEFINE skip == Linked(asm, "bcc", -1)
               site == Pc(skip)
               back == Emit(skip, Halfword("b", loop - (site + 4), Nothing))
               b == [back EXCEPT !.code = PatchBranch(@, {Pc(asm)}, Pc(back))]
               land == Pc(back)
               extra == {<< site, loop >>} \cup {<< p, land >>}
    <2>1. /\ asm' = b /\ loop' = -1 /\ inst' = inst /\ chain' = chain /\ table' = table
          /\ status' = status /\ open' = open /\ entries' = entries
          /\ bound' = bound \cup {<< site, loop >>} \cup {<< p, land >>}
      BY <1>7 DEF BackBranch
    <2>a. bound' = bound \cup extra
      BY <2>1
    <2>2. Branched(asm, skip, X, "bcc", LinkTarget(-1, p))
      <3> DEFINE head == -1
      <3>1. "bcc" \in BranchOps /\ head \in Int
        BY DEF BranchOps
      <3> HIDE DEF head
      <3>2. Branched(asm, Linked(asm, "bcc", head), X, "bcc", LinkTarget(head, Pc(asm)))
        BY <1>2, <3>1, LinkedBody
      <3> QED
        BY <3>2 DEF head
    <2> HIDE DEF skip, X
    <2>3. /\ Body(skip, X \cup {p}) /\ ~ skip.atomic /\ Within(skip, 2)
      BY <2>2 DEF Branched
    <2>4. Branched(skip, back, X \cup {p}, "b", loop)
      <3>1. "b" \in BranchOps
        BY DEF BranchOps
      <3> QED
        BY <1>2, <1>4, <2>3, <3>1, BackBody
    <2> HIDE DEF back
    <2>5. Skipped(asm, b, X, p, land, site, loop)
      BY <1>2, <2>2, <2>4, SkipBody DEF BranchOps
    <2> HIDE DEF b
    <2>6. /\ Body(b, X \cup {site}) /\ ~ b.atomic /\ Within(b, 2)
          /\ Grows(asm.code, b.code) /\ NoResume(asm.code, b.code)
          /\ SiteIn(b.code, p) /\ Target(b.code, p) = land
          /\ SiteIn(b.code, site) /\ Target(b.code, site) = loop /\ p < site
      BY <2>5 DEF Skipped
    <2>7. Len(b.code) \in Nat /\ site \in Nat
      BY <2>3, <2>6, BodyLen
    <2>8. Lands(b.code, loop)
      BY <1>2, <1>4, <2>6, <2>7, LandsGrown
    <2>9. Body(b, X)
      BY <2>6, <2>8, Settle
    <2>10. site >= 2 * Len(asm.code) /\ site # -1 /\ p # -1
      BY <1>2, <2>6, <2>7
    <2>11. site \notin X
      <3> HIDE DEF site
      <3>1. site \notin SitesIn(open)
        BY <1>2, <2>7, <2>10, NewSites
      <3> QED
        BY <3>1 DEF X
    <2> HIDE DEF site, land, p
    <2>12. Landing(b.code, extra, X, -1)
      BY <1>5, <2>6, <2>10, <2>11 DEF Landing
    <2>13. Looped(asm', X, asm.code, extra)
      BY <2>1, <2>6, <2>9, <2>12 DEF Looped
    <2> HIDE DEF extra
    <2> QED
      BY <1>3, <2>1, <2>a, <2>13, LoopedKeeps DEF X
  <1> QED
    BY <1>1, <1>6, <1>7

-----------------------------------------------------------------------------
(* What a linked list holds. *)

(* The walk along it, and one that keeps to a given one before its last step. *)
StepOf(next, last) == IF last = -1 THEN -1 ELSE next[last]
WalkOf(g, next, head, n) ==
  [k \in 0 .. n |-> IF k = 0 THEN head ELSE StepOf(next, g[k - 1])]

LEMMA WalkExists ==
  ASSUME NEW n \in Nat, NEW next, NEW head
  PROVE  \E g : g = WalkOf(g, next, head, n)
  <1> DEFINE Bad == { m \in Nat : ~ \E g : g = WalkOf(g, next, head, m) }
  <1>1. SUFFICES ASSUME Bad # {} PROVE FALSE
    OBVIOUS
  <1>2. PICK m \in Bad : \A k \in Bad : m <= k
    <2>1. Bad \subseteq Nat
      OBVIOUS
    <2> HIDE DEF Bad
    <2> QED
      BY <1>1, <2>1, Least
  <1>3. m \in Nat /\ ~ \E g : g = WalkOf(g, next, head, m)
    OBVIOUS
  <1>4. CASE m = 0
    <2> DEFINE g == [k \in 0 .. m |-> head]
    <2>1. \A k \in 0 .. m : k = 0
      BY <1>4
    <2>2. g = WalkOf(g, next, head, m)
      BY <2>1 DEF WalkOf
    <2> QED
      BY <1>3, <2>2
  <1>5. CASE m # 0
    <2>1. m - 1 \in Nat /\ m - 1 \notin Bad
      BY <1>2, <1>3, <1>5
    <2>2. PICK f : f = WalkOf(f, next, head, m - 1)
      BY <2>1
    <2> DEFINE g == [k \in 0 .. m |-> IF k = m THEN StepOf(next, f[m - 1]) ELSE f[k]]
    <2>3. \A k \in 0 .. m - 1 : f[k] = IF k = 0 THEN head ELSE StepOf(next, f[k - 1])
      BY <2>2 DEF WalkOf
    <2>4. ASSUME NEW k \in 0 .. m
          PROVE  g[k] = IF k = 0 THEN head ELSE StepOf(next, g[k - 1])
      <3>1. CASE k = m
        <4>1. k - 1 \in 0 .. m /\ k - 1 # m /\ k # 0
          BY <1>3, <1>5, <3>1
        <4> QED
          BY <3>1, <4>1
      <3>2. CASE k # m
        <4>1. k \in 0 .. m - 1 /\ k - 1 # m
          BY <1>3, <3>2
        <4>2. k # 0 => k - 1 \in 0 .. m
          BY <1>3
        <4> QED
          BY <2>3, <3>2, <4>1, <4>2
      <3> QED
        BY <3>1, <3>2
    <2>5. g = [k \in 0 .. m |-> g[k]]
      OBVIOUS
    <2> HIDE DEF g
    <2>6. g = WalkOf(g, next, head, m)
      BY <2>4, <2>5 DEF WalkOf
    <2> QED
      BY <1>3, <2>6
  <1> QED
    BY <1>4, <1>5

LEMMA ListedIsWalked ==
  ASSUME NEW n \in Nat, NEW next, NEW head
  PROVE  \E at : /\ Listed(next, head, n) = { at[k] : k \in 0 .. n } \ {-1}
                 /\ \A k \in 0 .. n : at[k] = IF k = 0 THEN head ELSE StepOf(next, at[k - 1])
  <1> DEFINE at == CHOOSE g : g = WalkOf(g, next, head, n)
  <1>1. at = WalkOf(at, next, head, n)
    BY WalkExists
  <1>2. Listed(next, head, n) = { at[k] : k \in 0 .. n } \ {-1}
    BY DEF Listed, WalkOf, StepOf
  <1> HIDE DEF at
  <1>3. \A k \in 0 .. n : at[k] = IF k = 0 THEN head ELSE StepOf(next, at[k - 1])
    BY <1>1 DEF WalkOf
  <1> QED
    BY <1>2, <1>3

(* A list that holds S in falling order, and no more of them than n: w counts
   how many steps may be left from each. *)
Falls(S, next, head, n, w) ==
  /\ S \subseteq Int /\ -1 \notin S /\ HeadOf(S, head)
  /\ \A s \in S : /\ Follows(S, s, next[s], -1) /\ w[s] \in Nat /\ w[s] < n
                  /\ \A r \in S : r < s => w[r] < w[s]

(* How far the walk has come after k steps. *)
Come(S, at, k, n, w) ==
  /\ at[k] \in S \/ at[k] = -1
  /\ at[k] \in S => w[at[k]] + k < n
  /\ \A r \in S : (at[k] \in S /\ r < at[k]) \/ \E j \in 0 .. k : at[j] = r

LEMMA ComesOn ==
  ASSUME NEW n \in Nat, NEW S, NEW next, NEW head, NEW w, Falls(S, next, head, n, w),
         NEW at, NEW k \in Nat, Come(S, at, k, n, w), at[k + 1] = StepOf(next, at[k])
  PROVE  Come(S, at, k + 1, n, w)
  <1>1. \A j \in 0 .. k : j \in 0 .. k + 1
    OBVIOUS
  <1>2. CASE at[k] = -1
    <2>1. at[k + 1] = -1 /\ at[k] \notin S /\ at[k + 1] \notin S
      BY <1>2 DEF StepOf, Falls
    <2> QED
      BY <1>1, <2>1 DEF Come
  <1>3. CASE at[k] \in S
    <2> DEFINE s == at[k]
               t == next[s]
    <2>1. s \in S /\ s # -1 /\ at[k + 1] = t /\ s \in Int
      BY <1>3 DEF StepOf, Falls
    <2>2. Follows(S, s, t, -1) /\ w[s] \in Nat /\ w[s] + k < n /\ \A r \in S : r < s => w[r] < w[s] /\ w[r] \in Nat
      BY <2>1 DEF Falls, Come
    <2>3. \A r \in S : r < s \/ \E j \in 0 .. k + 1 : at[j] = r
      BY <1>1 DEF Come
    <2> HIDE DEF s, t
    <2>4. CASE \E r \in S : r < s
      <3>1. t \in S /\ t < s /\ \A r \in S : r < s => r <= t
        BY <2>2, <2>4 DEF Follows
      <3>2. w[t] + (k + 1) < n
        <4>1. w[t] < w[s] /\ w[t] \in Nat
          BY <2>2, <3>1
        <4> QED
          BY <2>2, <4>1
      <3>3. ASSUME NEW r \in S PROVE r < t \/ \E j \in 0 .. k + 1 : at[j] = r
        <4>1. CASE r < s
          <5>1. r <= t /\ r \in Int /\ t \in Int
            BY <3>1, <4>1 DEF Falls
          <5>2. k + 1 \in 0 .. k + 1
            OBVIOUS
          <5> QED
            BY <2>1, <5>1, <5>2
        <4> QED
          BY <2>3, <4>1
      <3> QED
        BY <2>1, <3>1, <3>2, <3>3 DEF Come
    <2>5. CASE ~ \E r \in S : r < s
      <3>1. t = -1 /\ t \notin S
        BY <2>2, <2>5 DEF Follows, Falls
      <3> QED
        BY <2>1, <2>3, <2>5, <3>1 DEF Come
    <2> QED
      BY <2>4, <2>5
  <1> QED
    BY <1>2, <1>3 DEF Come

LEMMA ListedHolds ==
  ASSUME NEW n \in Nat, NEW S, NEW next, NEW head, NEW w, Falls(S, next, head, n, w)
  PROVE  Listed(next, head, n) = S
  <1>1. PICK at : /\ Listed(next, head, n) = { at[k] : k \in 0 .. n } \ {-1}
                  /\ \A k \in 0 .. n : at[k] = IF k = 0 THEN head ELSE StepOf(next, at[k - 1])
    BY ListedIsWalked
  <1> DEFINE Bad == { k \in 0 .. n : ~ Come(S, at, k, n, w) }
  <1>2. Bad = {}
    <2>1. SUFFICES ASSUME Bad # {} PROVE FALSE
      OBVIOUS
    <2>2. PICK m \in Bad : \A k \in Bad : m <= k
      <3>1. Bad \subseteq Nat
        OBVIOUS
      <3> HIDE DEF Bad
      <3> QED
        BY <2>1, <3>1, Least
    <2>3. m \in 0 .. n /\ ~ Come(S, at, m, n, w)
      OBVIOUS
    <2>4. CASE m = 0
      <3>1. 0 \in 0 .. n /\ 0 \in 0 .. 0
        OBVIOUS
      <3>2. at[0] = head
        BY <1>1, <3>1
      <3>3. CASE S = {}
        BY <2>3, <2>4, <3>2, <3>3 DEF Come, Falls, HeadOf
      <3>4. CASE S # {}
        <4>1. head \in S /\ (\A s \in S : s <= head /\ s \in Int) /\ head \in Int
              /\ w[head] \in Nat /\ w[head] + 0 < n
          <5>1. head \in S /\ \A s \in S : s <= head
            BY <3>4 DEF Falls, HeadOf
          <5>2. S \subseteq Int /\ w[head] \in Nat /\ w[head] < n
            BY <5>1 DEF Falls
          <5> QED
            BY <5>1, <5>2
        <4>2. \A r \in S : r < head \/ at[0] = r
          BY <3>2, <4>1
        <4>3. Come(S, at, 0, n, w)
          BY <3>1, <3>2, <4>1, <4>2 DEF Come
        <4> QED
          BY <2>3, <2>4, <4>3
      <3> QED
        BY <3>3, <3>4
    <2>5. CASE m # 0
      <3> DEFINE k == m - 1
      <3>1. k \in Nat /\ k \in 0 .. n /\ ~ m <= k /\ m = k + 1
        BY <2>3, <2>5
      <3>2. Come(S, at, k, n, w)
        BY <2>2, <3>1
      <3>3. at[k + 1] = StepOf(next, at[k])
        BY <1>1, <2>3, <2>5, <3>1
      <3> HIDE DEF k
      <3>4. Come(S, at, k + 1, n, w)
        BY <3>1, <3>2, <3>3, ComesOn
      <3> QED
        BY <2>3, <3>1, <3>4
    <2> QED
      BY <2>4, <2>5
  <1>3. \A k \in 0 .. n : Come(S, at, k, n, w)
    BY <1>2
  <1>4. ASSUME NEW r \in S PROVE r \in { at[k] : k \in 0 .. n } \ {-1}
    <2>1. n \in 0 .. n
      OBVIOUS
    <2>2. Come(S, at, n, n, w)
      BY <1>3, <2>1
    <2>3. at[n] \notin S
      <3>1. SUFFICES ASSUME at[n] \in S PROVE FALSE
        OBVIOUS
      <3>2. w[at[n]] + n < n /\ w[at[n]] \in Nat
        BY <2>2, <3>1 DEF Come, Falls
      <3> QED
        BY <3>2
    <2>4. \E j \in 0 .. n : at[j] = r
      BY <2>2, <2>3 DEF Come
    <2>5. r # -1
      BY DEF Falls
    <2> QED
      BY <2>4, <2>5
  <1>5. \A k \in 0 .. n : at[k] \in S \/ at[k] = -1
    BY <1>3 DEF Come
  <1> QED
    BY <1>1, <1>4, <1>5

(* What bind's walk finds. *)
LEMMA SitesFound ==
  ASSUME NEW c, Len(c) \in Nat, NEW S, NEW head, Chained(c, S, head)
  PROVE  SitesOf(c, head) = S
  <1> DEFINE n == Len(c)
             next == [s \in 0 .. 2 * n |-> IF Target(c, s) = s THEN -1 ELSE Target(c, s)]
             w == [s \in S |-> s \div 2]
  <1>1. ASSUME NEW s \in S
        PROVE  s \in Int /\ s # -1 /\ s \in 0 .. 2 * n /\ w[s] \in Nat /\ w[s] < n
               /\ 2 * w[s] = s
    <2>1. PICK i \in 1 .. n : s = 2 * (i - 1)
      BY DEF Chained, SiteIn
    <2>2. s \div 2 = i - 1
      BY <2>1
    <2>3. w[s] = i - 1
      BY <2>2
    <2> HIDE DEF w
    <2> QED
      BY <2>1, <2>3
  <1>2. ASSUME NEW s \in S PROVE Follows(S, s, next[s], -1)
    <2>1. Follows(S, s, Target(c, s), s) /\ s \in 0 .. 2 * n
      BY <1>1 DEF Chained
    <2>2. next[s] = IF Target(c, s) = s THEN -1 ELSE Target(c, s)
      BY <2>1
    <2> HIDE DEF next
    <2>3. CASE \E r \in S : r < s
      <3>1. Target(c, s) \in S /\ Target(c, s) < s /\ \A r \in S : r < s => r <= Target(c, s)
        BY <2>1, <2>3 DEF Follows
      <3>2. next[s] = Target(c, s)
        BY <1>1, <2>2, <3>1
      <3> QED
        BY <2>3, <3>1, <3>2 DEF Follows
    <2>4. CASE ~ \E r \in S : r < s
      BY <2>1, <2>2, <2>4 DEF Follows
    <2> QED
      BY <2>3, <2>4
  <1>3. SitesOf(c, head) = Listed(next, head, n)
    BY DEF SitesOf
  <1>4. ASSUME NEW s \in S, NEW r \in S, r < s PROVE w[r] < w[s]
    <2> HIDE DEF w
    <2> QED
      BY <1>1, <1>4
  <1> HIDE DEF w, next
  <1>5. Falls(S, next, head, n, w)
    BY <1>1, <1>2, <1>4 DEF Falls, Chained
  <1>6. Listed(next, head, n) = S
    <2> HIDE DEF n
    <2>1. n \in Nat
      BY DEF n
    <2> QED
      BY <1>5, <2>1, ListedHolds
  <1> QED
    BY <1>3, <1>6

(* What the default case's walk finds. *)
LEMMA GapsFound ==
  ASSUME table # NoTable, Tabled(asm.code, table, entries)
  PROVE  Gaps = GapsOf(table, entries)
  <1> DEFINE n == table.cases
             S == GapsOf(table, entries)
             next == [s \in 0 .. n |-> At(asm.code, Slot(s)).arg]
             w == [s \in S |-> s]
  <1>1. n \in Nat /\ table.next \in 0 .. n
    BY DEF Tabled
  <1>2. ASSUME NEW s \in S
        PROVE  s \in Int /\ s # -1 /\ s \in 0 .. n /\ w[s] \in Nat /\ w[s] < n /\ w[s] = s
    BY <1>1 DEF GapsOf
  <1>3. ASSUME NEW s \in S PROVE Follows(S, s, next[s], -1)
    <2>1. next[s] = At(asm.code, table.base + 2 * s).arg
      BY <1>2 DEF Slot
    <2> QED
      BY <2>1 DEF Tabled
  <1>4. Gaps = Listed(next, table.gaps, n)
    BY DEF Gaps
  <1>5. HeadOf(S, table.gaps)
    BY DEF Tabled
  <1> HIDE DEF w, next, S, n
  <1>6. Falls(S, next, table.gaps, n, w)
    BY <1>2, <1>3, <1>5 DEF Falls
  <1>7. Listed(next, table.gaps, n) = S
    BY <1>1, <1>6, ListedHolds
  <1> QED
    BY <1>4, <1>7 DEF S

-----------------------------------------------------------------------------
(* The same code but for the operands of what is at the addresses of Z. *)

Alters(c, d, Z) ==
  /\ Len(c) \in Nat /\ Len(d) = Len(c)
  /\ \A i \in 1 .. Len(c) :
       /\ d[i].op = c[i].op /\ d[i].value = c[i].value
       /\ 2 * (i - 1) \notin Z => d[i] = c[i]

LEMMA SiteAltered ==
  ASSUME NEW c, NEW d, NEW Z, Alters(c, d, Z), NEW s, SiteIn(c, s)
  PROVE  SiteIn(d, s) /\ (s \notin Z => Target(d, s) = Target(c, s))
  <1>1. PICK i \in 1 .. Len(c) : s = 2 * (i - 1) /\ c[i].op \in BranchOps
    BY DEF SiteIn
  <1>2. i \in Int /\ i \in 1 .. Len(d) /\ d[i].op = c[i].op /\ (s \notin Z => d[i] = c[i])
    BY <1>1 DEF Alters
  <1>3. /\ Target(d, 2 * (i - 1)) = 2 * i + 2 + d[i].arg
        /\ Target(c, 2 * (i - 1)) = 2 * i + 2 + c[i].arg
    BY <1>2, AtIndex
  <1>4. SiteIn(d, s)
    BY <1>1, <1>2 DEF SiteIn
  <1>5. s \notin Z => Target(d, s) = Target(c, s)
    BY <1>1, <1>2, <1>3
  <1> QED
    BY <1>4, <1>5

LEMMA SlotAltered ==
  ASSUME NEW c, NEW d, NEW Z, Alters(c, d, Z), NEW s, SlotIn(c, s)
  PROVE  SlotIn(d, s) /\ (s \notin Z => At(d, s) = At(c, s)) /\ s \in Nat
  <1>1. PICK i \in 1 .. Len(c) : s = 2 * (i - 1) /\ c[i].op = "slot"
    BY DEF SlotIn
  <1>2. i \in Int /\ i \in 1 .. Len(d) /\ d[i].op = c[i].op /\ (s \notin Z => d[i] = c[i])
    BY <1>1 DEF Alters
  <1>3. At(d, 2 * (i - 1)) = d[i] /\ At(c, 2 * (i - 1)) = c[i]
    BY <1>2, AtIndex
  <1>4. SlotIn(d, s) /\ s \in Nat
    BY <1>1, <1>2 DEF SlotIn
  <1> QED
    BY <1>1, <1>2, <1>3, <1>4

LEMMA LandsAltered ==
  ASSUME NEW c, NEW d, NEW Z, Alters(c, d, Z), NEW t, Lands(c, t)
  PROVE  Lands(d, t)
  <1>1. Len(c) \in Nat /\ Len(d) \in Nat /\ Len(c) <= Len(d)
        /\ \A i \in 1 .. Len(c) : d[i].op = c[i].op
    BY DEF Alters
  <1>2. Starts(c, d)
    BY DEF Starts, Alters
  <1> QED
    BY <1>1, <1>2, LandsStill

LEMMA ResumingAltered ==
  ASSUME NEW c, NEW d, NEW Z, Alters(c, d, Z), Resuming(c)
  PROVE  Resuming(d)
  <1> SUFFICES ASSUME NEW i \in 1 .. Len(d), d[i].op \in {"ldr", "movs"},
                      d[i].value.kind = "resume"
               PROVE  LET last == d[i].value.of \div 2
                      IN  /\ d[i].value.of \in Nat /\ last \in i + 1 .. Len(d)
                          /\ d[last].op = "bx" /\ \A j \in i .. last - 1 : d[j].op # "bx"
    BY DEF Resuming
  <1> DEFINE last == c[i].value.of \div 2
  <1>1. i \in 1 .. Len(c) /\ d[i].op = c[i].op /\ d[i].value = c[i].value
    BY DEF Alters
  <1>2. /\ c[i].value.of \in Nat /\ last \in i + 1 .. Len(c) /\ c[last].op = "bx"
        /\ \A j \in i .. last - 1 : c[j].op # "bx"
    BY <1>1 DEF Resuming
  <1> HIDE DEF last
  <1>3. Len(d) = Len(c) /\ Len(c) \in Nat /\ \A j \in 1 .. Len(c) : d[j].op = c[j].op
    BY DEF Alters
  <1>4. last \in 1 .. Len(c) /\ \A j \in i .. last - 1 : j \in 1 .. Len(c)
    BY <1>1, <1>2, <1>3
  <1>5. d[last].op = "bx" /\ \A j \in i .. last - 1 : d[j].op # "bx"
    BY <1>2, <1>3, <1>4
  <1>6. d[i].value.of \div 2 = last /\ d[i].value.of \in Nat
    BY <1>1, <1>2 DEF last
  <1> QED
    BY <1>2, <1>3, <1>5, <1>6

LEMMA SlotsAltered ==
  ASSUME NEW c, NEW d, NEW Z, Alters(c, d, Z), NEW tb, NEW es, Slots(c, es, tb)
  PROVE  Slots(d, es, tb)
  BY DEF Slots, Alters

LEMMA ChainedAltered ==
  ASSUME NEW c, NEW d, NEW Z, Alters(c, d, Z), NEW S, NEW head, Chained(c, S, head),
         \A s \in S : s \notin Z
  PROVE  Chained(d, S, head)
  BY SiteAltered DEF Chained

LEMMA BoundAltered ==
  ASSUME NEW c, NEW d, NEW Z, Alters(c, d, Z), NEW bs, NEW X, BoundLand(c, bs, X),
         \A b \in bs : b[1] \notin Z, NEW Y, Y \subseteq X
  PROVE  BoundLand(d, bs, Y)
  BY SiteAltered DEF BoundLand

LEMMA TabledAltered ==
  ASSUME NEW c, NEW d, NEW Z, Alters(c, d, Z), NEW tb, NEW es, Tabled(c, tb, es),
         tb # NoTable => \A j \in 0 .. tb.cases : tb.base + 2 * j \notin Z
  PROVE  Tabled(d, tb, es)
  <1> SUFFICES ASSUME tb # NoTable PROVE Tabled(d, tb, es)
    BY DEF Tabled
  <1>1. /\ tb = [base |-> tb.base, cases |-> tb.cases, next |-> tb.next, gaps |-> tb.gaps]
        /\ tb.base \in Nat /\ tb.cases \in Nat /\ tb.next \in 0 .. tb.cases
        /\ \A j \in 0 .. tb.cases : SlotIn(c, tb.base + 2 * j)
        /\ HeadOf(GapsOf(tb, es), tb.gaps)
        /\ \A j \in GapsOf(tb, es) : Follows(GapsOf(tb, es), j, At(c, tb.base + 2 * j).arg, -1)
    BY DEF Tabled
  <1>2. \A j \in 0 .. tb.cases :
          SlotIn(d, tb.base + 2 * j) /\ At(d, tb.base + 2 * j) = At(c, tb.base + 2 * j)
    BY <1>1, SlotAltered
  <1>3. GapsOf(tb, es) \subseteq 0 .. tb.cases
    BY <1>1 DEF GapsOf
  <1>4. \A j \in GapsOf(tb, es) : Follows(GapsOf(tb, es), j, At(d, tb.base + 2 * j).arg, -1)
    BY <1>1, <1>2, <1>3
  <1> QED
    BY <1>1, <1>2, <1>4 DEF Tabled

LEMMA EntriesAltered ==
  ASSUME NEW c, NEW d, NEW Z, Alters(c, d, Z), NEW tb, NEW es, Entries(c, es, tb),
         \A e \in es : e[1] + 2 * e[2] \notin Z
  PROVE  Entries(d, es, tb)
  <1> SUFFICES ASSUME NEW e \in es
               PROVE  /\ e[1] \in Nat /\ e[2] \in Nat /\ SlotIn(d, e[1] + 2 * e[2])
                      /\ e[1] + At(d, e[1] + 2 * e[2]).arg = e[3] /\ Lands(d, e[3])
                      /\ tb # NoTable /\ e[1] = tb.base => e[2] < tb.next
                      /\ InTable(tb, e[1] + 2 * e[2]) => e[1] = tb.base
    BY DEF Entries
  <1>1. /\ e[1] \in Nat /\ e[2] \in Nat /\ SlotIn(c, e[1] + 2 * e[2])
        /\ e[1] + At(c, e[1] + 2 * e[2]).arg = e[3] /\ Lands(c, e[3])
        /\ tb # NoTable /\ e[1] = tb.base => e[2] < tb.next
        /\ InTable(tb, e[1] + 2 * e[2]) => e[1] = tb.base
    BY DEF Entries
  <1> DEFINE s == e[1] + 2 * e[2]
  <1>2. SlotIn(c, s) /\ s \notin Z
    BY <1>1
  <1> HIDE DEF s
  <1>3. SlotIn(d, s) /\ At(d, s) = At(c, s)
    BY <1>2, SlotAltered
  <1>4. Lands(d, e[3])
    BY <1>1, LandsAltered
  <1> QED
    BY <1>1, <1>3, <1>4 DEF s

(* No slot is a branch. *)
LEMMA SlotNoSite ==
  ASSUME NEW c, Len(c) \in Nat, NEW s, SlotIn(c, s), SiteIn(c, s)
  PROVE  FALSE
  <1>1. PICK i \in 1 .. Len(c) : s = 2 * (i - 1) /\ c[i].op = "slot"
    BY DEF SlotIn
  <1>2. PICK j \in 1 .. Len(c) : s = 2 * (j - 1) /\ c[j].op \in BranchOps
    BY DEF SiteIn
  <1>3. i = j
    BY <1>1, <1>2
  <1> QED
    BY <1>1, <1>2, <1>3 DEF BranchOps

(* What binding a label leaves: its branches lead to where it is bound. *)
Rest(sites, l) == [sites EXCEPT ![l] = {}]
Free(heads, l) == [heads EXCEPT ![l] = -1]
Lead(S, here) == { << s, here >> : s \in S }

LEMMA RestOf ==
  ASSUME NEW c, NEW sites, NEW heads, Chains(c, sites, heads), NEW l \in Labels
  PROVE  SitesIn(Rest(sites, l)) = SitesIn(sites) \ sites[l]
  <1>1. \A m \in Labels : Rest(sites, l)[m] = IF m = l THEN {} ELSE sites[m]
    BY DEF Rest, Chains
  <1>2. \A m \in Labels : m # l => sites[m] \cap sites[l] = {}
    BY DEF Chains
  <1>3. ASSUME NEW s \in SitesIn(Rest(sites, l)) PROVE s \in SitesIn(sites) \ sites[l]
    <2>1. PICK m \in Labels : s \in Rest(sites, l)[m]
      BY DEF SitesIn
    <2>2. m # l /\ s \in sites[m]
      BY <1>1, <2>1
    <2> QED
      BY <1>2, <2>2 DEF SitesIn
  <1>4. ASSUME NEW s \in SitesIn(sites) \ sites[l] PROVE s \in SitesIn(Rest(sites, l))
    <2>1. PICK m \in Labels : s \in sites[m]
      BY DEF SitesIn
    <2>2. s \in Rest(sites, l)[m]
      BY <1>1, <2>1
    <2> QED
      BY <2>2 DEF SitesIn
  <1> QED
    BY <1>3, <1>4

LEMMA ChainsRest ==
  ASSUME NEW c, NEW sites, NEW heads, Chains(c, sites, heads), NEW l \in Labels,
         NEW d, Alters(c, d, sites[l])
  PROVE  Chains(d, Rest(sites, l), Free(heads, l))
  <1> DEFINE more == Rest(sites, l)
             tops == Free(heads, l)
  <1>1. /\ sites = [m \in Labels |-> sites[m]] /\ heads = [m \in Labels |-> heads[m]]
        /\ \A m \in Labels : Chained(c, sites[m], heads[m])
        /\ \A m, k \in Labels : m # k => sites[m] \cap sites[k] = {}
    BY DEF Chains
  <1>2. /\ more = [m \in Labels |-> IF m = l THEN {} ELSE sites[m]]
        /\ tops = [m \in Labels |-> IF m = l THEN -1 ELSE heads[m]]
    BY <1>1 DEF Rest, Free
  <1> HIDE DEF more, tops
  <1>3. ASSUME NEW m \in Labels PROVE Chained(d, more[m], tops[m])
    <2>1. CASE m = l
      <3>1. more[m] = {} /\ tops[m] = -1
        BY <1>2, <2>1
      <3> QED
        BY <3>1 DEF Chained, HeadOf
    <2>2. CASE m # l
      <3>1. more[m] = sites[m] /\ tops[m] = heads[m]
        BY <1>2, <2>2
      <3>2. \A s \in sites[m] : s \notin sites[l]
        BY <1>1, <2>2
      <3>3. Chained(d, sites[m], heads[m])
        BY <1>1, <3>2, ChainedAltered
      <3> QED
        BY <3>1, <3>3
    <2> QED
      BY <2>1, <2>2
  <1>4. \A m, k \in Labels : m # k => more[m] \cap more[k] = {}
    BY <1>1, <1>2
  <1>5. /\ more = [m \in Labels |-> more[m]] /\ tops = [m \in Labels |-> tops[m]]
    BY <1>2
  <1>6. Chains(d, more, tops)
    BY <1>3, <1>4, <1>5 DEF Chains
  <1> QED
    BY <1>6 DEF more, tops

(* The code in which each branch of S leads here. *)
Settled(c, d, S, here) ==
  Alters(c, d, S) /\ \A s \in S : SiteIn(c, s) /\ Target(d, s) = here

LEMMA TrackedRest ==
  ASSUME NEW c, NEW d, NEW sites, NEW heads, NEW bs, NEW start, NEW es, NEW tb,
         Tracked(c, sites, heads, bs, start, es, tb), NEW l \in Labels, NEW here,
         Settled(c, d, sites[l], here)
  PROVE  Tracked(d, Rest(sites, l), Free(heads, l), bs \cup Lead(sites[l], here), start, es, tb)
  <1> DEFINE Z == sites[l]
             X == SitesIn(sites)
             Y == SitesIn(Rest(sites, l))
             more == Lead(Z, here)
  <1>1. /\ Chains(c, sites, heads) /\ BoundLand(c, bs, X) /\ LoopLands(c, start)
        /\ Tabled(c, tb, es) /\ Entries(c, es, tb) /\ Slots(c, es, tb)
    BY DEF Tracked
  <1>2. Alters(c, d, Z) /\ (\A s \in Z : SiteIn(c, s) /\ Target(d, s) = here) /\ Len(c) \in Nat
    BY DEF Settled, Alters
  <1>3. Z \subseteq X /\ Y = X \ Z
    BY <1>1, RestOf DEF SitesIn
  <1>4. Chains(d, Rest(sites, l), Free(heads, l))
    BY <1>1, <1>2, ChainsRest
  <1> HIDE DEF Z, X, Y
  <1>5. \A s \in Z : ~ SlotIn(c, s)
    BY <1>2, SlotNoSite
  <1>6. BoundLand(d, bs, Y)
    <2>1. \A b \in bs : b[1] \notin Z
      BY <1>1, <1>3 DEF BoundLand
    <2>2. Y \subseteq X
      BY <1>3
    <2> QED
      BY <1>1, <1>2, <2>1, <2>2, BoundAltered
  <1>7. ASSUME NEW b \in more PROVE SiteIn(d, b[1]) /\ b[1] \notin Y /\ Target(d, b[1]) = b[2]
    <2>1. PICK s \in Z : b = << s, here >>
      BY DEF Lead
    <2>2. b[1] = s /\ b[2] = here
      BY <2>1
    <2>3. SiteIn(d, s)
      BY <1>2, <2>1, SiteAltered
    <2> QED
      BY <1>2, <1>3, <2>1, <2>2, <2>3
  <1>8. BoundLand(d, bs \cup more, Y)
    BY <1>6, <1>7 DEF BoundLand
  <1>9. LoopLands(d, start)
    BY <1>1, <1>2, LandsAltered DEF LoopLands
  <1>10. Tabled(d, tb, es)
    <2>1. tb # NoTable => \A j \in 0 .. tb.cases : tb.base + 2 * j \notin Z
      BY <1>1, <1>5 DEF Tabled
    <2> QED
      BY <1>1, <1>2, <2>1, TabledAltered
  <1>11. Entries(d, es, tb)
    <2>1. \A e \in es : e[1] + 2 * e[2] \notin Z
      BY <1>1, <1>5 DEF Entries
    <2> QED
      BY <1>1, <1>2, <2>1, EntriesAltered
  <1>12. Slots(d, es, tb)
    BY <1>1, <1>2, SlotsAltered
  <1> QED
    BY <1>4, <1>8, <1>9, <1>10, <1>11, <1>12 DEF Tracked, Y, Z

LEMMA StateInvBind ==
  ASSUME StateInv, NEW l \in Labels, Bind(l)
  PROVE  StateInv'
  <1> DEFINE S == open[l]
             X == SitesIn(open)
             here == Pc(asm)
             b == [asm EXCEPT !.code = PatchBranch(asm.code, S, here)]
  <1>1. CASE Abandon
    BY <1>1, StateInvAbandon
  <1>2. CASE ~ Abandon
    <2>1. /\ Body(asm, X) /\ ~ asm.atomic /\ Within(asm, 2)
          /\ Len(asm.code) \in Nat /\ here = 2 * Len(asm.code)
          /\ Tracked(asm.code, open, chain, bound, loop, entries, table)
          /\ Chains(asm.code, open, chain)
      BY InvGives DEF Tracked
    <2>2. Chained(asm.code, S, chain[l])
      BY <2>1 DEF Chains
    <2>3. SitesOf(asm.code, chain[l]) = S
      <3> HIDE DEF S
      <3>1. Len(asm.code) \in Nat
        BY <2>1
      <3> QED
        BY <2>2, <3>1, SitesFound
    <2>4. /\ asm' = b
          /\ chain' = [chain EXCEPT ![l] = -1]
          /\ open' = [open EXCEPT ![l] = {}]
          /\ bound' = bound \cup { << s, here >> : s \in S }
          /\ inst' = inst /\ table' = table /\ status' = status /\ loop' = loop
          /\ entries' = entries /\ status # "finished"
      BY <1>2, <2>3 DEF Bind, Emitting
    <2>5. \A s \in S : SiteIn(asm.code, s)
      BY <2>2 DEF Chained
    <2>6. \A i \in 1 .. Len(asm.code) : 2 * (i - 1) \in S => asm.code[i].op \in BranchOps
      <3>1. SUFFICES ASSUME NEW i \in 1 .. Len(asm.code), 2 * (i - 1) \in S
                     PROVE  asm.code[i].op \in BranchOps
        OBVIOUS
      <3>2. PICK j \in 1 .. Len(asm.code) : 2 * (i - 1) = 2 * (j - 1) /\ asm.code[j].op \in BranchOps
        BY <2>5, <3>1 DEF SiteIn
      <3>3. i = j
        BY <2>1, <3>2
      <3> QED
        BY <3>2, <3>3
    <2>7. here \in Int
      BY <2>1
    <2> HIDE DEF X, S, here
    <2>8. Patched(asm, b, X, S, here)
      BY <2>1, <2>6, <2>7, PatchBody
    <2> HIDE DEF b
    <2>9. /\ b.pending = asm.pending /\ b.atomic = asm.atomic /\ Repatched(asm.code, b.code)
          /\ \A i \in 1 .. Len(asm.code) :
               IF 2 * (i - 1) \in S THEN Target(b.code, 2 * (i - 1)) = here
                                    ELSE b.code[i] = asm.code[i]
          /\ Lands(asm.code, here) => Body(b, X \ S)
      BY <2>8 DEF Patched
    <2>10. Lands(asm.code, here)
      <3>1. (here % 2) = 0 /\ here \in Nat /\ here <= 2 * Len(asm.code) /\ ~ here < 2 * Len(asm.code)
        <4> DEFINE n == Len(asm.code)
        <4>1. n \in Nat /\ here = 2 * n
          BY <2>1
        <4> HIDE DEF n
        <4>2. ((2 * n) % 2) = 0
          BY <4>1
        <4>3. (here % 2) = 0
          BY <4>1, <4>2
        <4>4. here \in Nat /\ here <= 2 * n /\ ~ here < 2 * n
          BY <4>1
        <4> QED
          BY ONLY <4>3, <4>4 DEF n
      <3> QED
        BY <3>1 DEF Lands
    <2>11. Alters(asm.code, b.code, S)
      BY <2>1, <2>9 DEF Alters, Repatched
    <2>12. ASSUME NEW s \in S PROVE Target(b.code, s) = here
      <3>1. PICK i \in 1 .. Len(asm.code) : s = 2 * (i - 1)
        BY <2>5 DEF SiteIn
      <3> QED
        BY <2>9, <3>1
    <2>13. Settled(asm.code, b.code, S, here)
      BY <2>5, <2>11, <2>12 DEF Settled
    <2>14. Tracked(b.code, Rest(open, l), Free(chain, l), bound \cup Lead(S, here), loop, entries, table)
      BY <2>1, <2>13, TrackedRest DEF S
    <2>15. SitesIn(Rest(open, l)) = X \ S
      BY <2>1, RestOf DEF X, S
    <2>16. Within(b, 2) /\ ~ b.atomic
      BY <2>1, <2>9 DEF Within, Pc, Repatched
    <2>17. Built(b, Rest(open, l))
      BY <2>9, <2>10, <2>15, <2>16 DEF Built
    <2>18. ~ BothFromPool => Resuming(b.code)
      BY <2>11, ResumingAltered DEF StateInv
    <2>19. open' = Rest(open, l) /\ chain' = Free(chain, l) /\ bound' = bound \cup Lead(S, here)
      BY <2>4 DEF Rest, Free, Lead
    <2>20. inst \in Instances
      BY DEF StateInv
    <2>21. /\ Built(asm', open')
           /\ Tracked(asm'.code, open', chain', bound', loop', entries', table')
      BY <2>4, <2>14, <2>17, <2>19
    <2>22. ~ BothFromPool => Resuming(asm'.code)
      BY <2>4, <2>18
    <2> QED
      BY <2>4, <2>20, <2>21, <2>22, InvKept
  <1> QED
    BY <1>1, <1>2

(* A table with no case yet. *)
Fresh(base, n) == [base |-> base, cases |-> n, next |-> 0, gaps |-> -1]

LEMMA FreshTable ==
  ASSUME NEW base \in Nat, NEW n \in Nat
  PROVE  /\ Fresh(base, n).base = base /\ Fresh(base, n).cases = n
         /\ Fresh(base, n).next = 0 /\ Fresh(base, n).gaps = -1 /\ Fresh(base, n) # NoTable
  BY DEF Fresh, NoTable

LEMMA TrackedTable ==
  ASSUME NEW a, NEW d, NEW r, NEW n \in Nat, NEW X, TableMade(a, d, r, n, X), Len(a.code) \in Nat,
         NEW sites, NEW heads, NEW bs, NEW start, NEW es,
         Tracked(a.code, sites, heads, bs, start, es, NoTable)
  PROVE  Tracked(r.code, sites, heads, bs, start, es, Fresh(Pc(d), n))
  <1> DEFINE c == a.code
             e == r.code
             m == Len(d.code)
             base == 2 * m
             tb == Fresh(base, n)
  <1>1. /\ Body(r, X) /\ Extends(c, e) /\ Starts(c, e)
        /\ m \in Nat /\ Len(c) < m /\ m + n + 1 <= Len(e) /\ Len(c) \in Nat
        /\ \A i \in 1 .. Len(e) : i > Len(c) => (e[i].op = "slot" <=> i \in m + 1 .. m + n + 1)
    BY DEF TableMade
  <1>2. Len(e) \in Nat
    BY <1>1, BodyLen
  <1>3. /\ Chains(c, sites, heads) /\ BoundLand(c, bs, SitesIn(sites)) /\ LoopLands(c, start)
        /\ Entries(c, es, NoTable) /\ Slots(c, es, NoTable)
    BY DEF Tracked
  <1> HIDE DEF c, e, m
  <1>4. base \in Nat /\ base > 2 * Len(c)
    BY <1>1
  <1>5. tb.base = base /\ tb.cases = n /\ tb.next = 0 /\ tb.gaps = -1 /\ tb # NoTable
    <2> HIDE DEF base
    <2> QED
      BY <1>4, FreshTable
  <1>6. tb = [base |-> tb.base, cases |-> tb.cases, next |-> tb.next, gaps |-> tb.gaps]
    BY DEF Fresh
  <1> HIDE DEF tb
  <1>7. Chains(e, sites, heads) /\ BoundLand(e, bs, SitesIn(sites)) /\ Entries(e, es, NoTable)
    BY <1>1, <1>2, <1>3, ChainsKept, BoundKept, EntriesKept
  <1>8. LoopLands(e, start)
    BY <1>1, <1>2, <1>3, LandsKept DEF LoopLands
  <1>9. Tabled(e, tb, es)
    <2>1. ASSUME NEW j \in 0 .. tb.cases PROVE SlotIn(e, tb.base + 2 * j)
      <3> DEFINE i == m + 1 + j
      <3>1. i \in 1 .. Len(e) /\ i > Len(c) /\ i \in m + 1 .. m + n + 1 /\ base + 2 * j = 2 * (i - 1)
        <4>1. j \in 0 .. n /\ m \in Nat /\ Len(c) < m /\ m + n + 1 <= Len(e)
              /\ Len(e) \in Nat /\ Len(c) \in Nat
          BY <1>1, <1>2, <1>5
        <4>2. i \in m + 1 .. m + n + 1 /\ i > Len(c)
          BY ONLY n \in Nat, <4>1
        <4>3. i \in 1 .. Len(e)
          BY ONLY n \in Nat, <4>1
        <4>4. base + 2 * j = 2 * (i - 1)
          BY ONLY <4>1
        <4> QED
          BY <4>2, <4>3, <4>4
      <3> HIDE DEF i
      <3>2. e[i].op = "slot"
        BY <1>1, <3>1
      <3> QED
        BY <1>5, <3>1, <3>2 DEF SlotIn
    <2>2. \A j \in 0 .. tb.next - 1 : FALSE
      BY <1>5
    <2>3. GapsOf(tb, es) = {}
      BY <2>2 DEF GapsOf
    <2>4. tb.next \in 0 .. tb.cases
      BY <1>5
    <2> QED
      BY <1>4, <1>5, <1>6, <2>1, <2>3, <2>4 DEF Tabled, HeadOf
  <1>10. Entries(e, es, tb)
    <2>1. SUFFICES ASSUME NEW x \in es
                   PROVE  x[1] # tb.base /\ ~ InTable(tb, x[1] + 2 * x[2])
      BY <1>7 DEF Entries
    <2>2. x[1] \in Nat /\ x[2] \in Nat /\ SlotIn(c, x[1] + 2 * x[2])
      BY <1>3 DEF Entries
    <2>3. PICK i \in 1 .. Len(c) : x[1] + 2 * x[2] = 2 * (i - 1)
      BY <2>2 DEF SlotIn
    <2>4. x[1] + 2 * x[2] < base /\ x[1] < base
      <3>1. x[1] + 2 * x[2] < 2 * Len(c) /\ x[1] \in Nat /\ x[2] \in Nat
        BY <1>1, <2>2, <2>3
      <3>2. base > 2 * Len(c) /\ base \in Nat /\ Len(c) \in Nat
        BY <1>1, <1>4
      <3> HIDE DEF base
      <3> QED
        BY ONLY <3>1, <3>2
    <2>5. ~ InTable(tb, x[1] + 2 * x[2])
      <3>1. SUFFICES ASSUME NEW j \in 0 .. n, x[1] + 2 * x[2] = base + 2 * j PROVE FALSE
        BY <1>5 DEF InTable
      <3> HIDE DEF base
      <3> QED
        BY <1>4, <2>2, <2>4, <3>1
    <2> QED
      BY <1>4, <1>5, <2>2, <2>4, <2>5
  <1>11. Slots(e, es, tb)
    <2>1. SUFFICES ASSUME NEW i \in 1 .. Len(e), e[i].op = "slot"
                   PROVE  \/ \E x \in es : x[1] + 2 * x[2] = 2 * (i - 1)
                          \/ InTable(tb, 2 * (i - 1))
      BY DEF Slots
    <2>2. CASE i \in 1 .. Len(c)
      <3>1. c[i].op = "slot"
        BY <1>1, <2>1, <2>2 DEF Extends
      <3> QED
        BY <1>3, <2>2, <3>1 DEF Slots, InTable
    <2>3. CASE i > Len(c)
      <3>1. i \in m + 1 .. m + n + 1
        BY <1>1, <2>1, <2>3
      <3> DEFINE j == i - m - 1
      <3>2. j \in 0 .. n /\ 2 * (i - 1) = base + 2 * j
        BY <1>1, <3>1
      <3> HIDE DEF j, base
      <3>3. InTable(tb, 2 * (i - 1))
        BY <1>5, <3>2 DEF InTable
      <3> QED
        BY <3>3
    <2> QED
      BY <1>1, <1>2, <2>2, <2>3
  <1> QED
    BY <1>7, <1>8, <1>9, <1>10, <1>11 DEF Tracked, tb, c, e, m, Pc

LEMMA StateInvSwitch ==
  ASSUME StateInv, Switch
  PROVE  StateInv'
  <1> DEFINE X == SitesIn(open)
  <1>1. PICK n \in Cases :
          /\ asm' = EmitTable(EmitDispatch(asm, n), n)
          /\ table' = [base |-> Pc(EmitDispatch(asm, n)), cases |-> n, next |-> 0, gaps |-> -1]
    BY DEF Switch
  <1> DEFINE d == EmitDispatch(asm, n)
             r == EmitTable(d, n)
  <1>2. /\ asm' = r /\ table' = Fresh(Pc(d), n) /\ table = NoTable
        /\ inst' = inst /\ status' = status /\ status # "finished"
        /\ UNCHANGED << chain, loop, open, bound, entries >>
    BY <1>1 DEF Switch, Fresh, Room, Emitting
  <1>3. /\ Body(asm, X) /\ ~ asm.atomic /\ Within(asm, 2) /\ ReachBounds
        /\ Len(asm.code) \in Nat
        /\ Tracked(asm.code, open, chain, bound, loop, entries, table)
    BY InvGives DEF AllBounds
  <1>4. n \in Nat
    BY InvGives DEF AllBounds
  <1> HIDE DEF X
  <1>5. TableMade(asm, d, r, n, X)
    BY <1>3, <1>4, TableBody
  <1> HIDE DEF d, r
  <1>6. Tracked(r.code, open, chain, bound, loop, entries, Fresh(Pc(d), n))
    BY <1>2, <1>3, <1>4, <1>5, TrackedTable
  <1>7. Built(r, open)
    BY <1>5 DEF TableMade, Built, X
  <1>8. ~ BothFromPool => Resuming(r.code)
    <2>1. Extends(asm.code, r.code) /\ NoResume(asm.code, r.code) /\ Len(r.code) \in Nat
      BY <1>5, BodyLen DEF TableMade
    <2>2. ~ BothFromPool => Resuming(asm.code)
      BY DEF StateInv
    <2> QED
      BY <1>3, <2>1, <2>2, ResumingGrown
  <1>9. inst \in Instances
    BY DEF StateInv
  <1> QED
    BY <1>2, <1>6, <1>7, <1>8, <1>9, InvKept

(* The code with some slots of a table set. *)
Filled(c, tb, K, value) ==
  [i \in 1 .. Len(c) |-> IF \E s \in K : tb.base + 2 * s = 2 * (i - 1)
                         THEN [c[i] EXCEPT !.arg = value] ELSE c[i]]
Addresses(tb, K) == { tb.base + 2 * k : k \in K }

Fills(c, d, tb, K, value) ==
  /\ Alters(c, d, Addresses(tb, K)) /\ Repatched(c, d)
  /\ \A i \in 1 .. Len(c) : c[i].op \in BranchOps => d[i] = c[i]
  /\ \A k \in K : At(d, tb.base + 2 * k).arg = value

LEMMA FillAlters ==
  ASSUME NEW c, IsCode(c), NEW tb, tb.base \in Nat, NEW K, NEW value \in Int,
         \A k \in K : k \in Nat /\ SlotIn(c, tb.base + 2 * k)
  PROVE  Fills(c, Filled(c, tb, K, value), tb, K, value)
  <1> DEFINE d == Filled(c, tb, K, value)
             n == Len(c)
             hit(i) == \E s \in K : tb.base + 2 * s = 2 * (i - 1)
             Z == Addresses(tb, K)
  <1>1. n \in Nat /\ IsSeq(c) /\ \A i \in 1 .. n : IsHalf(c[i])
    BY CodeLen DEF IsCode
  <1>2. DOMAIN d = 1 .. n /\ d = [i \in 1 .. n |-> d[i]]
    BY DEF Filled
  <1>3. ASSUME NEW i \in 1 .. n PROVE d[i] = IF hit(i) THEN [c[i] EXCEPT !.arg = value] ELSE c[i]
    BY <1>3 DEF Filled
  <1> HIDE DEF d, n
  <1>4. IsSeq(d) /\ Len(d) = n
    BY <1>1, <1>2, IsSeqFun
  <1>5. ASSUME NEW i \in 1 .. n
        PROVE  /\ IsHalf(d[i]) /\ d[i].op = c[i].op /\ d[i].value = c[i].value
               /\ hit(i) => d[i].arg = value /\ c[i].op = "slot"
               /\ ~ hit(i) => d[i] = c[i]
    <2>1. CASE hit(i)
      <3> DEFINE h == c[i]
      <3>1. IsHalf(h) /\ d[i] = [h EXCEPT !.arg = value]
        BY <1>1, <1>3, <2>1
      <3> HIDE DEF h
      <3>2. d[i] = Halfword(h.op, value, h.value)
        BY <3>1, PatchHalf
      <3>3. IsHalf(d[i]) /\ d[i].op = h.op /\ d[i].value = h.value /\ d[i].arg = value
        BY <3>2, HalfIs
      <3>4. PICK s \in K : tb.base + 2 * s = 2 * (i - 1)
        BY <2>1
      <3>5. SlotIn(c, 2 * (i - 1))
        BY <3>4
      <3>6. PICK k \in 1 .. Len(c) : 2 * (i - 1) = 2 * (k - 1) /\ c[k].op = "slot"
        BY <3>5 DEF SlotIn
      <3>7. k = i
        BY <3>6, <1>1 DEF n
      <3> QED
        BY <2>1, <3>3, <3>6, <3>7 DEF h
    <2>2. CASE ~ hit(i)
      BY <1>1, <1>3, <2>2
    <2> QED
      BY <2>1, <2>2
  <1>6. ASSUME NEW i \in 1 .. n, 2 * (i - 1) \notin Z PROVE d[i] = c[i]
    <2>1. ~ hit(i)
      BY <1>6 DEF Addresses
    <2> QED
      BY <1>5, <2>1
  <1>7. Alters(c, d, Z)
    <2> HIDE DEF Z
    <2> QED
      BY <1>1, <1>4, <1>5, <1>6 DEF Alters, n
  <1>8. Repatched(c, d)
    <2>1. IsCode(d)
      BY <1>4, <1>5 DEF IsCode
    <2>2. ASSUME NEW i \in 1 .. n, c[i].op \notin {"b", "bcc", "slot"} PROVE d[i] = c[i]
      BY <1>5, <2>2
    <2> HIDE DEF hit
    <2> QED
      BY <1>4, <1>5, <2>1, <2>2 DEF Repatched, n
  <1>9. ASSUME NEW k \in K PROVE At(d, tb.base + 2 * k).arg = value
    <2>1. PICK i \in 1 .. n : tb.base + 2 * k = 2 * (i - 1)
      BY DEF SlotIn, n
    <2>2. hit(i) /\ i \in Int
      BY <2>1
    <2>3. At(d, 2 * (i - 1)) = d[i]
      BY <2>2, AtIndex
    <2> QED
      BY <1>5, <2>1, <2>2, <2>3
  <1>10. ASSUME NEW i \in 1 .. n, c[i].op \in BranchOps PROVE d[i] = c[i]
    BY <1>5, <1>10 DEF BranchOps
  <1>11. Fills(c, d, tb, K, value)
    <2> HIDE DEF Z
    <2>1. Alters(c, d, Addresses(tb, K))
      BY <1>7 DEF Z
    <2> QED
      BY <1>8, <1>9, <1>10, <2>1 DEF Fills, n
  <1> QED
    BY <1>11 DEF d

LEMMA FillBody ==
  ASSUME NEW a, NEW X, Body(a, X), NEW d, Repatched(a.code, d),
         \A i \in 1 .. Len(a.code) : a.code[i].op \in BranchOps => d[i] = a.code[i]
  PROVE  Body([a EXCEPT !.code = d], X)
  <1>1. ASSUME NEW i \in 1 .. Len(d), d[i].op \in BranchOps, 2 * (i - 1) \notin X
        PROVE  d[i] = a.code[i]
    <2>1. i \in 1 .. Len(a.code) /\ d[i].op = a.code[i].op
      BY DEF Repatched
    <2> QED
      BY <1>1, <2>1
  <1> QED
    BY <1>1, RepatchBody

(* What patching slots that no case has yet leaves of the state. *)
SlotsSet(b, K, value) ==
  /\ Built(b, open) /\ b.pending = asm.pending /\ Len(b.code) = Len(asm.code)
  /\ ~ BothFromPool => Resuming(b.code)
  /\ Chains(b.code, open, chain) /\ BoundLand(b.code, bound, SitesIn(open))
  /\ LoopLands(b.code, loop) /\ Entries(b.code, entries, table) /\ Slots(b.code, entries, table)
  /\ \A j \in 0 .. table.cases : SlotIn(b.code, table.base + 2 * j)
  /\ \A k \in K : At(b.code, table.base + 2 * k).arg = value
  /\ \A j \in 0 .. table.cases :
       j \notin K => At(b.code, table.base + 2 * j) = At(asm.code, table.base + 2 * j)

LEMMA FillSets ==
  ASSUME StateInv, table # NoTable, NEW K, K \subseteq 0 .. table.cases, NEW value \in Int,
         \A k \in K : ~ Entered(entries, table.base, k)
  PROVE  SlotsSet([asm EXCEPT !.code = Filled(asm.code, table, K, value)], K, value)
  <1> DEFINE c == asm.code
             d == Filled(c, table, K, value)
             b == [asm EXCEPT !.code = d]
             Z == Addresses(table, K)
             X == SitesIn(open)
  <1>1. /\ Body(asm, X) /\ ~ asm.atomic /\ Within(asm, 2) /\ Len(c) \in Nat
        /\ Tracked(c, open, chain, bound, loop, entries, table)
    BY InvGives
  <1>2. /\ Chains(c, open, chain) /\ BoundLand(c, bound, X)
        /\ LoopLands(c, loop) /\ Tabled(c, table, entries) /\ Entries(c, entries, table)
        /\ Slots(c, entries, table)
    BY <1>1 DEF Tracked
  <1>3. /\ table.base \in Nat /\ table.cases \in Nat
        /\ \A j \in 0 .. table.cases : SlotIn(c, table.base + 2 * j)
    BY <1>2 DEF Tabled
  <1>4. IsCode(c) /\ IsAsm(asm)
    BY <1>1 DEF Body, Typed
  <1>5. \A k \in K : k \in Nat /\ SlotIn(c, table.base + 2 * k)
    BY <1>3
  <1> HIDE DEF c
  <1>6. /\ Alters(c, d, Z) /\ Repatched(c, d)
        /\ \A i \in 1 .. Len(c) : c[i].op \in BranchOps => d[i] = c[i]
        /\ \A k \in K : At(d, table.base + 2 * k).arg = value
    <2>1. table.base \in Nat /\ IsCode(c) /\ value \in Int
      BY <1>3, <1>4
    <2>2. Fills(c, Filled(c, table, K, value), table, K, value)
      BY ONLY <1>5, <2>1, FillAlters
    <2> HIDE DEF d, Z
    <2>3. Fills(c, d, table, K, value)
      BY <2>2 DEF d
    <2> QED
      BY <2>3 DEF Fills, Z
  <1> HIDE DEF d
  <1>7. /\ b.code = d /\ b.pending = asm.pending /\ b.atomic = asm.atomic
    BY <1>4, SetCodeMakes
  <1>8. Body(b, X)
    BY <1>1, <1>6, FillBody DEF c
  <1> HIDE DEF b
  <1>9. Len(d) = Len(c)
    BY <1>6 DEF Alters
  <1>10. Built(b, open)
    <2>1. Within(b, 2)
      BY <1>1, <1>7, <1>9 DEF Within, Pc, c
    <2> QED
      BY <1>1, <1>7, <1>8, <2>1 DEF Built
  <1>11. ~ BothFromPool => Resuming(d)
    BY <1>6, ResumingAltered DEF StateInv, c
  <1>12. \A s \in Z : SlotIn(c, s) /\ ~ SiteIn(c, s)
    <2>1. \A s \in Z : SlotIn(c, s)
      BY <1>5 DEF Addresses
    <2> QED
      BY <1>1, <2>1, SlotNoSite
  <1>13. Chains(d, open, chain)
    <2>1. \A l \in Labels : \A s \in open[l] : s \notin Z
      BY <1>2, <1>12 DEF Chains, Chained
    <2>2. \A l \in Labels : Chained(d, open[l], chain[l])
      BY <1>2, <1>6, <2>1, ChainedAltered DEF Chains
    <2> QED
      BY <1>2, <2>2 DEF Chains
  <1>14. BoundLand(d, bound, X)
    <2>1. \A x \in bound : x[1] \notin Z
      BY <1>2, <1>12 DEF BoundLand
    <2>2. X \subseteq X
      OBVIOUS
    <2> HIDE DEF X, Z
    <2> QED
      BY <1>2, <1>6, <2>1, <2>2, BoundAltered
  <1>15. LoopLands(d, loop)
    BY <1>2, <1>6, LandsAltered DEF LoopLands
  <1>16. Entries(d, entries, table)
    <2>1. ASSUME NEW e \in entries PROVE e[1] + 2 * e[2] \notin Z
      <3>1. SUFFICES ASSUME NEW k \in K, e[1] + 2 * e[2] = table.base + 2 * k PROVE FALSE
        BY DEF Addresses
      <3>2. InTable(table, e[1] + 2 * e[2])
        BY <3>1 DEF InTable
      <3>3. e[1] = table.base /\ e[1] \in Nat /\ e[2] \in Nat
        BY <1>2, <3>2 DEF Entries
      <3>4. e[2] = k
        BY <1>3, <3>1, <3>3
      <3> QED
        BY <3>3, <3>4 DEF Entered
    <2> HIDE DEF Z
    <2> QED
      BY <1>2, <1>6, <2>1, EntriesAltered
  <1>17. Slots(d, entries, table)
    BY <1>2, <1>6, SlotsAltered
  <1>18. ASSUME NEW j \in 0 .. table.cases
         PROVE  /\ SlotIn(d, table.base + 2 * j)
                /\ j \notin K => At(d, table.base + 2 * j) = At(c, table.base + 2 * j)
    <2>1. j \notin K => table.base + 2 * j \notin Z
      BY <1>3 DEF Addresses
    <2> HIDE DEF Z
    <2>2. SlotIn(c, table.base + 2 * j)
      BY <1>3
    <2> QED
      BY <1>6, <2>1, <2>2, SlotAltered
  <1> HIDE DEF Z
  <1>19. SlotsSet(b, K, value)
    BY <1>6, <1>7, <1>9, <1>10, <1>11, <1>13, <1>14, <1>15, <1>16, <1>17, <1>18 DEF SlotsSet, c, X
  <1> QED
    BY <1>19 DEF b, d, c

(* The gaps, when one more joins them. *)
LEMMA GapJoins ==
  ASSUME NEW c, NEW d, NEW es, NEW tb, Tabled(c, tb, es), tb # NoTable, tb.next < tb.cases,
         Entries(c, es, tb),
         \A j \in 0 .. tb.cases : SlotIn(d, tb.base + 2 * j),
         At(d, tb.base + 2 * tb.next).arg = tb.gaps,
         \A j \in 0 .. tb.cases : j # tb.next => At(d, tb.base + 2 * j) = At(c, tb.base + 2 * j),
         NEW new, new = [tb EXCEPT !.gaps = tb.next, !.next = tb.next + 1]
  PROVE  Tabled(d, new, es)
  <1> DEFINE n == tb.next
             S == GapsOf(tb, es)
             T == GapsOf(new, es)
  <1>1. /\ tb = [base |-> tb.base, cases |-> tb.cases, next |-> tb.next, gaps |-> tb.gaps]
        /\ tb.base \in Nat /\ tb.cases \in Nat /\ n \in 0 .. tb.cases
        /\ HeadOf(S, tb.gaps)
        /\ \A j \in S : Follows(S, j, At(c, tb.base + 2 * j).arg, -1)
    BY DEF Tabled
  <1>2. /\ new.base = tb.base /\ new.cases = tb.cases /\ new.next = n + 1 /\ new.gaps = n
        /\ new = [base |-> new.base, cases |-> new.cases, next |-> new.next, gaps |-> new.gaps]
    <2>1. PICK b0, c0, n0, g0 : tb = [base |-> b0, cases |-> c0, next |-> n0, gaps |-> g0]
      BY <1>1
    <2>2. tb.base = b0 /\ tb.cases = c0 /\ tb.next = n0
      BY <2>1
    <2> DEFINE m == n + 1
    <2>3. new = [tb EXCEPT !.gaps = n, !.next = m]
      OBVIOUS
    <2> HIDE DEF m
    <2>4. new.next = m /\ new.gaps = n /\ new.base = b0 /\ new.cases = c0
      BY ONLY <2>1, <2>3
    <2>5. new = [base |-> new.base, cases |-> new.cases, next |-> new.next, gaps |-> new.gaps]
      BY ONLY <2>1, <2>3
    <2> QED
      BY <2>2, <2>4, <2>5 DEF m
  <1>3. \A j \in S : j \in 0 .. tb.cases /\ j < n /\ j \in Int
    BY <1>1 DEF GapsOf
  <1>4. ~ Entered(es, tb.base, n)
    <2>1. \A e \in es : e[1] = tb.base => e[2] < n /\ e[2] \in Nat
      BY DEF Entries
    <2> QED
      BY <1>1, <2>1 DEF Entered
  <1>6. T = S \cup {n}
    <2>1. new.next - 1 = n
      BY <1>1, <1>2
    <2>2. \A j : j \in 0 .. n <=> (j \in 0 .. n - 1 \/ j = n)
      BY <1>1
    <2> QED
      BY <1>2, <1>4, <2>1, <2>2 DEF GapsOf
  <1>7. At(d, tb.base + 2 * n).arg = tb.gaps
    OBVIOUS
  <1> HIDE DEF S, T, n
  <1>8. HeadOf(T, n)
    BY <1>1, <1>3, <1>6 DEF HeadOf
  <1>9. ASSUME NEW j \in T PROVE Follows(T, j, At(d, tb.base + 2 * j).arg, -1)
    <2>1. CASE j = n
      <3>1. At(d, tb.base + 2 * j).arg = tb.gaps
        BY <1>7, <2>1
      <3>2. CASE S = {}
        <4>1. tb.gaps = -1
          BY <1>1, <3>2 DEF HeadOf
        <4>2. ~ \E r \in T : r < j
          BY <1>1, <1>6, <2>1, <3>2
        <4> QED
          BY <3>1, <4>1, <4>2 DEF Follows
      <3>3. CASE S # {}
        <4>1. tb.gaps \in S /\ \A s \in S : s <= tb.gaps
          BY <1>1, <3>3 DEF HeadOf
        <4>2. tb.gaps \in T /\ tb.gaps < j /\ \A r \in T : r < j => r <= tb.gaps
          BY <1>1, <1>3, <1>6, <2>1, <4>1
        <4> QED
          BY <3>1, <4>2 DEF Follows
      <3> QED
        BY <3>2, <3>3
    <2>2. CASE j # n
      <3>1. j \in S
        BY <1>6, <2>2
      <3>2. At(d, tb.base + 2 * j) = At(c, tb.base + 2 * j)
        BY <1>3, <2>2, <3>1 DEF n
      <3>3. Follows(S, j, At(d, tb.base + 2 * j).arg, -1)
        BY <1>1, <3>1, <3>2
      <3>4. \A r : r < j => (r \in T <=> r \in S)
        BY <1>1, <1>3, <1>6, <3>1
      <3> DEFINE t == At(d, tb.base + 2 * j).arg
      <3>5. Follows(S, j, t, -1)
        BY <3>3
      <3> HIDE DEF t
      <3>6. Follows(T, j, t, -1)
        BY <3>4, <3>5 DEF Follows
      <3> QED
        BY <3>6 DEF t
    <2> QED
      BY <2>1, <2>2
  <1>10. new # NoTable
    <2>1. new.base # -1
      BY <1>1, <1>2
    <2> QED
      BY <2>1 DEF NoTable
  <1>11. new.next \in 0 .. new.cases
    BY <1>1, <1>2 DEF n
  <1>12. Tabled(d, new, es)
    BY <1>1, <1>2, <1>8, <1>9, <1>10, <1>11 DEF Tabled, T
  <1> QED
    BY <1>12

(* The table, when one more case is done. *)
Nexts(tb, new) ==
  /\ tb # NoTable /\ new # NoTable /\ new.base = tb.base /\ new.cases = tb.cases
  /\ tb.next \in Int /\ new.next = tb.next + 1

LEMMA EntriesNext ==
  ASSUME NEW c, NEW es, NEW tb, NEW new, Entries(c, es, tb), Nexts(tb, new)
  PROVE  Entries(c, es, new)
  <1> SUFFICES ASSUME NEW e \in es
               PROVE  /\ e[1] \in Nat /\ e[2] \in Nat /\ SlotIn(c, e[1] + 2 * e[2])
                      /\ e[1] + At(c, e[1] + 2 * e[2]).arg = e[3] /\ Lands(c, e[3])
                      /\ new # NoTable /\ e[1] = new.base => e[2] < new.next
                      /\ InTable(new, e[1] + 2 * e[2]) => e[1] = new.base
    BY DEF Entries
  <1>1. /\ e[1] \in Nat /\ e[2] \in Nat /\ SlotIn(c, e[1] + 2 * e[2])
        /\ e[1] + At(c, e[1] + 2 * e[2]).arg = e[3] /\ Lands(c, e[3])
        /\ e[1] = tb.base => e[2] < tb.next
        /\ InTable(tb, e[1] + 2 * e[2]) => e[1] = tb.base
    BY DEF Entries, Nexts
  <1>2. InTable(new, e[1] + 2 * e[2]) => e[1] = new.base
    BY <1>1 DEF InTable, Nexts
  <1>3. e[1] = new.base => e[2] < new.next
    BY <1>1 DEF Nexts
  <1> QED
    BY <1>1, <1>2, <1>3

LEMMA SlotsNext ==
  ASSUME NEW c, NEW es, NEW tb, NEW new, Slots(c, es, tb), Nexts(tb, new)
  PROVE  Slots(c, es, new)
  BY DEF Slots, InTable, Nexts

(* The record of a table that goes on to its next case. *)
LEMMA NextTable ==
  ASSUME NEW c, NEW es, NEW tb, Tabled(c, tb, es), tb # NoTable,
         NEW new, new.base = tb.base, new.cases = tb.cases, new.next = tb.next + 1
  PROVE  Nexts(tb, new)
  <1>1. tb.base \in Nat /\ tb.next \in Int
    BY DEF Tabled
  <1>2. new # NoTable
    BY <1>1 DEF NoTable
  <1> QED
    BY <1>1, <1>2 DEF Nexts

LEMMA StateInvGapCase ==
  ASSUME StateInv, GapCase
  PROVE  StateInv'
  <1> DEFINE K == {table.next}
             value == table.gaps
             c == asm.code
             b == [asm EXCEPT !.code = Filled(asm.code, table, K, value)]
             new == [table EXCEPT !.gaps = table.next, !.next = table.next + 1]
  <1>1. /\ asm' = b /\ table' = new /\ table # NoTable /\ table.next < table.cases
        /\ inst' = inst /\ status' = status /\ status # "finished"
        /\ UNCHANGED << chain, loop, open, bound, entries >>
    BY DEF GapCase, PatchSlots, Filled, Slot, Emitting
  <1>2. /\ Tabled(c, table, entries) /\ Entries(c, entries, table)
    BY InvGives DEF Tracked
  <1>3. /\ table = [base |-> table.base, cases |-> table.cases,
                    next |-> table.next, gaps |-> table.gaps]
        /\ table.base \in Nat /\ table.cases \in Nat /\ table.next \in 0 .. table.cases
        /\ HeadOf(GapsOf(table, entries), table.gaps)
    BY <1>1, <1>2 DEF Tabled
  <1>4. value \in Int
    BY <1>3 DEF HeadOf, GapsOf
  <1>5. K \subseteq 0 .. table.cases
    BY <1>3
  <1>6. \A k \in K : ~ Entered(entries, table.base, k)
    <2>1. \A e \in entries : e[1] = table.base => e[2] < table.next /\ e[2] \in Nat
      BY <1>1, <1>2 DEF Entries
    <2> QED
      BY <1>3, <2>1 DEF Entered
  <1> HIDE DEF value, K
  <1>7. SlotsSet(b, K, value)
    BY <1>1, <1>4, <1>5, <1>6, FillSets
  <1> HIDE DEF b, new
  <1> DEFINE d == b.code
  <1>8. /\ Built(b, open) /\ b.pending = asm.pending
        /\ ~ BothFromPool => Resuming(d)
        /\ Chains(d, open, chain) /\ BoundLand(d, bound, SitesIn(open))
        /\ LoopLands(d, loop) /\ Entries(d, entries, table) /\ Slots(d, entries, table)
        /\ \A j \in 0 .. table.cases : SlotIn(d, table.base + 2 * j)
        /\ \A k \in K : At(d, table.base + 2 * k).arg = value
        /\ \A j \in 0 .. table.cases :
             j \notin K => At(d, table.base + 2 * j) = At(c, table.base + 2 * j)
    BY <1>7 DEF SlotsSet
  <1> HIDE DEF d, c
  <1>9. Nexts(table, new)
    <2>1. new.base = table.base /\ new.cases = table.cases /\ new.next = table.next + 1
      <3>1. PICK b0, c0, n0, g0 : table = [base |-> b0, cases |-> c0, next |-> n0, gaps |-> g0]
        BY <1>3
      <3>2. table.base = b0 /\ table.cases = c0 /\ table.next = n0
        BY <3>1
      <3> DEFINE m == table.next + 1
                 n == table.next
      <3>3. new = [table EXCEPT !.gaps = n, !.next = m]
        BY DEF new
      <3> HIDE DEF m, n
      <3>4. new.next = m /\ new.base = b0 /\ new.cases = c0
        BY ONLY <3>1, <3>3
      <3> QED
        BY <3>2, <3>4 DEF m
    <2> QED
      BY <1>1, <1>2, <2>1, NextTable
  <1>10. Tabled(d, new, entries)
    <2>1. At(d, table.base + 2 * table.next).arg = table.gaps
      BY <1>8 DEF K, value
    <2>2. \A j \in 0 .. table.cases :
            j # table.next => At(d, table.base + 2 * j) = At(c, table.base + 2 * j)
      BY <1>8 DEF K
    <2>3. new = [table EXCEPT !.gaps = table.next, !.next = table.next + 1]
      BY DEF new
    <2>4. \A j \in 0 .. table.cases : SlotIn(d, table.base + 2 * j)
      BY <1>8
    <2> QED
      BY <1>1, <1>2, <2>1, <2>2, <2>3, <2>4, GapJoins
  <1>11. Entries(d, entries, new) /\ Slots(d, entries, new)
    BY <1>8, <1>9, EntriesNext, SlotsNext
  <1>12. Tracked(d, open, chain, bound, loop, entries, new)
    BY <1>8, <1>10, <1>11 DEF Tracked
  <1>13. inst \in Instances
    BY DEF StateInv
  <1> QED
    BY <1>1, <1>8, <1>12, <1>13, InvKept DEF d

-----------------------------------------------------------------------------
(* A case whose code starts here, and with the last the default one's gaps. *)

Given(base, K, here) == { << base, k, here >> : k \in K }

LEMMA EntriesGiven ==
  ASSUME NEW d, NEW es, NEW tb, NEW new, Entries(d, es, tb), Nexts(tb, new) \/ new = NoTable,
         tb # NoTable, tb.base \in Nat, tb.next \in Nat, NEW K, K \subseteq Nat, NEW here \in Int,
         \A k \in K : /\ SlotIn(d, tb.base + 2 * k) /\ k <= tb.next
                      /\ At(d, tb.base + 2 * k).arg = here - tb.base,
         Lands(d, here)
  PROVE  Entries(d, es \cup Given(tb.base, K, here), new)
  <1> DEFINE more == Given(tb.base, K, here)
  <1>1. Entries(d, es, new)
    <2>1. CASE Nexts(tb, new)
      BY <2>1, EntriesNext
    <2>2. CASE new = NoTable
      BY <2>2 DEF Entries, InTable
    <2> QED
      BY <2>1, <2>2
  <1>2. ASSUME NEW e \in more
        PROVE  /\ e[1] \in Nat /\ e[2] \in Nat /\ SlotIn(d, e[1] + 2 * e[2])
               /\ e[1] + At(d, e[1] + 2 * e[2]).arg = e[3] /\ Lands(d, e[3])
               /\ new # NoTable /\ e[1] = new.base => e[2] < new.next
               /\ InTable(new, e[1] + 2 * e[2]) => e[1] = new.base
    <2>1. PICK k \in K : e = << tb.base, k, here >>
      BY DEF Given
    <2>2. e[1] = tb.base /\ e[2] = k /\ e[3] = here
      BY <2>1
    <2>3. SlotIn(d, e[1] + 2 * e[2]) /\ At(d, e[1] + 2 * e[2]).arg = here - tb.base /\ k <= tb.next
      BY <2>2
    <2>4. e[1] + At(d, e[1] + 2 * e[2]).arg = e[3]
      BY <2>2, <2>3
    <2>5. new # NoTable => Nexts(tb, new)
      OBVIOUS
    <2>6. new # NoTable => e[2] < new.next /\ e[1] = new.base
      BY <2>2, <2>3, <2>5 DEF Nexts
    <2> QED
      BY <2>2, <2>3, <2>4, <2>6 DEF InTable
  <1> QED
    BY <1>1, <1>2 DEF Entries

LEMMA LandsHere ==
  ASSUME NEW c, Len(c) \in Nat
  PROVE  Lands(c, 2 * Len(c))
  <1> DEFINE n == Len(c)
             t == 2 * n
  <1>1. n \in Nat
    OBVIOUS
  <1> HIDE DEF n
  <1>2. ((2 * n) % 2) = 0
    BY <1>1
  <1>3. t \in Nat /\ t <= 2 * n /\ ~ t < 2 * n
    BY <1>1
  <1>4. (t % 2) = 0
    BY <1>2
  <1> HIDE DEF t
  <1>5. Lands(c, t)
    BY ONLY <1>3, <1>4 DEF Lands, n
  <1> QED
    BY <1>5 DEF t, n

(* The table after a case of its own has started. *)
LEMMA TabledGiven ==
  ASSUME NEW c, NEW d, NEW es, NEW tb, Tabled(c, tb, es), tb # NoTable, tb.next < tb.cases,
         \A j \in 0 .. tb.cases : SlotIn(d, tb.base + 2 * j),
         \A j \in 0 .. tb.cases : j # tb.next => At(d, tb.base + 2 * j) = At(c, tb.base + 2 * j),
         NEW new, new = [tb EXCEPT !.next = tb.next + 1], NEW here
  PROVE  Tabled(d, new, es \cup Given(tb.base, {tb.next}, here)) /\ Nexts(tb, new)
  <1> DEFINE n == tb.next
             S == GapsOf(tb, es)
             more == es \cup Given(tb.base, {n}, here)
             T == GapsOf(new, more)
  <1>1. /\ tb = [base |-> tb.base, cases |-> tb.cases, next |-> tb.next, gaps |-> tb.gaps]
        /\ tb.base \in Nat /\ tb.cases \in Nat /\ n \in 0 .. tb.cases
        /\ HeadOf(S, tb.gaps)
        /\ \A j \in S : Follows(S, j, At(c, tb.base + 2 * j).arg, -1)
    BY DEF Tabled
  <1>2. /\ new.base = tb.base /\ new.cases = tb.cases /\ new.next = n + 1 /\ new.gaps = tb.gaps
        /\ new = [base |-> new.base, cases |-> new.cases, next |-> new.next, gaps |-> new.gaps]
    <2>1. PICK b0, c0, n0, g0 : tb = [base |-> b0, cases |-> c0, next |-> n0, gaps |-> g0]
      BY <1>1
    <2>2. tb.base = b0 /\ tb.cases = c0 /\ tb.next = n0 /\ tb.gaps = g0
      BY <2>1
    <2> DEFINE m == n + 1
    <2>3. new = [tb EXCEPT !.next = m]
      OBVIOUS
    <2> HIDE DEF m
    <2>4. new.next = m /\ new.gaps = g0 /\ new.base = b0 /\ new.cases = c0
      BY ONLY <2>1, <2>3
    <2>5. new = [base |-> new.base, cases |-> new.cases, next |-> new.next, gaps |-> new.gaps]
      BY ONLY <2>1, <2>3
    <2> QED
      BY <2>2, <2>4, <2>5 DEF m
  <1>3. Nexts(tb, new)
    BY <1>2, NextTable
  <1>4. \A j \in S : j \in 0 .. tb.cases /\ j < n
    BY <1>1 DEF GapsOf
  <1>5. T = S
    <2>1. \A j \in Int : Entered(more, tb.base, j) <=> (Entered(es, tb.base, j) \/ j = n)
      <3>1. ASSUME NEW j \in Int
            PROVE  Entered(Given(tb.base, {n}, here), tb.base, j) <=> j = n
        <4>1. Given(tb.base, {n}, here) = { << tb.base, n, here >> }
          BY DEF Given
        <4>2. << tb.base, n, here >>[1] = tb.base /\ << tb.base, n, here >>[2] = n
          OBVIOUS
        <4> QED
          BY <4>1, <4>2 DEF Entered
      <3> QED
        BY <3>1 DEF Entered
    <2>2. \A j \in 0 .. n : j \in 0 .. n - 1 \/ j = n
      BY <1>1
    <2>3. new.next - 1 = n /\ \A j \in 0 .. n - 1 : j # n /\ j \in 0 .. n /\ j \in Int
      BY <1>1, <1>2
    <2> HIDE DEF more, n
    <2>4. T = { j \in 0 .. n : ~ Entered(more, tb.base, j) }
      BY <1>2, <2>3 DEF GapsOf
    <2>5. S = { j \in 0 .. n - 1 : ~ Entered(es, tb.base, j) }
      BY DEF GapsOf, n
    <2> HIDE DEF T, S
    <2> QED
      BY <2>1, <2>2, <2>3, <2>4, <2>5
  <1> HIDE DEF S, T
  <1>6. \A j \in T : At(d, tb.base + 2 * j) = At(c, tb.base + 2 * j)
    <2>1. ASSUME NEW j \in T PROVE At(d, tb.base + 2 * j) = At(c, tb.base + 2 * j)
      <3>1. j \in 0 .. tb.cases /\ j # tb.next
        BY <1>1, <1>4, <1>5
      <3> QED
        BY <3>1
    <2> QED
      BY <2>1
  <1>7. \A j \in T : Follows(T, j, At(d, tb.base + 2 * j).arg, -1)
    BY <1>1, <1>5, <1>6
  <1>8. new.next \in 0 .. new.cases
    BY <1>1, <1>2
  <1>9. Tabled(d, new, more)
    <2> HIDE DEF more
    <2>1. new.base \in Nat /\ new.cases \in Nat /\ HeadOf(T, new.gaps)
      BY <1>1, <1>2, <1>5
    <2>2. \A j \in 0 .. new.cases : SlotIn(d, new.base + 2 * j)
      BY <1>2
    <2>3. \A j \in T : Follows(T, j, At(d, new.base + 2 * j).arg, -1)
      BY <1>2, <1>7
    <2> QED
      BY <1>2, <1>8, <2>1, <2>2, <2>3 DEF Tabled, T
  <1> QED
    BY <1>3, <1>9 DEF more, n

(* Each slot is spoken for still: of the last case's table all are. *)
LEMMA SlotsGiven ==
  ASSUME NEW d, NEW es, NEW tb, Slots(d, es, tb), NEW new, NEW K, NEW here,
         \/ Nexts(tb, new)
         \/ \A j \in 0 .. tb.cases : j \in K \/ Entered(es, tb.base, j)
  PROVE  Slots(d, es \cup Given(tb.base, K, here), new)
  <1> DEFINE more == es \cup Given(tb.base, K, here)
  <1> SUFFICES ASSUME NEW i \in 1 .. Len(d), d[i].op = "slot"
               PROVE  \/ \E e \in more : e[1] + 2 * e[2] = 2 * (i - 1)
                      \/ InTable(new, 2 * (i - 1))
    BY DEF Slots
  <1>1. \/ \E e \in es : e[1] + 2 * e[2] = 2 * (i - 1)
        \/ InTable(tb, 2 * (i - 1))
    BY DEF Slots
  <1>2. CASE \E e \in es : e[1] + 2 * e[2] = 2 * (i - 1)
    BY <1>2
  <1>3. CASE InTable(tb, 2 * (i - 1))
    <2>1. CASE Nexts(tb, new)
      BY <1>3, <2>1 DEF InTable, Nexts
    <2>2. CASE \A j \in 0 .. tb.cases : j \in K \/ Entered(es, tb.base, j)
      <3>1. PICK j \in 0 .. tb.cases : 2 * (i - 1) = tb.base + 2 * j
        BY <1>3 DEF InTable
      <3>2. CASE j \in K
        <4> DEFINE e == << tb.base, j, here >>
        <4>1. e \in more /\ e[1] = tb.base /\ e[2] = j
          BY <3>2 DEF Given
        <4> HIDE DEF e, more
        <4> QED
          BY <3>1, <4>1
      <3>3. CASE Entered(es, tb.base, j)
        <4>1. PICK e \in es : e[1] = tb.base /\ e[2] = j
          BY <3>3 DEF Entered
        <4> QED
          BY <3>1, <4>1
      <3> QED
        BY <2>2, <3>1, <3>2, <3>3
    <2> QED
      BY <2>1, <2>2
  <1> QED
    BY <1>1, <1>2, <1>3

LEMMA StateInvStartCase ==
  ASSUME StateInv, StartCase
  PROVE  StateInv'
  <1> DEFINE c == asm.code
             base == table.base
             n == table.next
             last == n = table.cases
             here == Pc(asm)
             value == here - base
             G == IF last THEN GapsOf(table, entries) ELSE {}
             K == {n} \cup G
             b == [asm EXCEPT !.code = Filled(asm.code, table, K, value)]
             d == b.code
             more == entries \cup Given(base, K, here)
             new == table'
  <1>1. /\ Body(asm, SitesIn(open)) /\ Len(c) \in Nat /\ here = 2 * Len(c)
        /\ Tabled(c, table, entries) /\ Entries(c, entries, table)
    BY InvGives DEF Tracked
  <1>2. table # NoTable /\ status # "finished"
    BY DEF StartCase, Emitting
  <1>3. /\ base \in Nat /\ table.cases \in Nat /\ n \in 0 .. table.cases
        /\ \A j \in 0 .. table.cases : SlotIn(c, base + 2 * j)
    BY <1>1, <1>2 DEF Tabled
  <1>4. Gaps = GapsOf(table, entries)
    BY <1>1, <1>2, GapsFound
  <1>5. PatchSlots(K, value)
    BY <1>4 DEF StartCase
  <1>6. asm' = b
    BY <1>5 DEF PatchSlots, Filled, Slot
  <1>7. entries' = more
    <2>1. entries' = entries \cup
            { << table.base, i, Pc(asm) >> :
                i \in {table.next} \cup
                  (IF last THEN { j \in 0 .. table.cases - 1 :
                                    ~ \E e \in entries : e[1] = table.base /\ e[2] = j }
                   ELSE {}) }
      BY DEF StartCase
    <2>2. last => GapsOf(table, entries) = { j \in 0 .. table.cases - 1 :
                                    ~ \E e \in entries : e[1] = table.base /\ e[2] = j }
      BY DEF GapsOf, Entered
    <2>3. K = {table.next} \cup
                  (IF last THEN { j \in 0 .. table.cases - 1 :
                                    ~ \E e \in entries : e[1] = table.base /\ e[2] = j }
                   ELSE {})
      BY <2>2
    <2> HIDE DEF K
    <2> QED
      BY <2>1, <2>3 DEF Given
  <1>8. /\ table' = IF last THEN NoTable ELSE [table EXCEPT !.next = table.next + 1]
        /\ inst' = inst /\ status' = status
        /\ UNCHANGED << chain, loop, open, bound >>
    BY DEF StartCase
  <1>9. value \in Int /\ here \in Int /\ n \in Nat
    BY <1>1, <1>3
  <1>10. \A j \in GapsOf(table, entries) : j \in 0 .. n - 1 /\ ~ Entered(entries, base, j)
    BY DEF GapsOf
  <1>11. K \subseteq 0 .. table.cases /\ \A k \in K : k <= n /\ k \in Nat
    BY <1>3, <1>10
  <1>12. \A k \in K : ~ Entered(entries, base, k)
    <2>1. \A e \in entries : e[1] = base => e[2] < n /\ e[2] \in Nat
      BY <1>1, <1>2 DEF Entries
    <2>2. ~ Entered(entries, base, n)
      BY <1>3, <2>1 DEF Entered
    <2> QED
      BY <1>10, <2>2
  <1>13. ~ last => K = {n} /\ n < table.cases
    BY <1>3
  <1>14. last => \A j \in 0 .. table.cases : j \in K \/ Entered(entries, base, j)
    <2>1. \A j \in 0 .. table.cases : last => j = n \/ j \in 0 .. n - 1
      BY <1>3
    <2> QED
      BY <2>1 DEF GapsOf
  <1> HIDE DEF K, value
  <1>15. SlotsSet(b, K, value)
    BY <1>2, <1>9, <1>11, <1>12, FillSets
  <1> HIDE DEF b
  <1>16. /\ Built(b, open) /\ b.pending = asm.pending /\ Len(d) = Len(c)
         /\ ~ BothFromPool => Resuming(d)
         /\ Chains(d, open, chain) /\ BoundLand(d, bound, SitesIn(open))
         /\ LoopLands(d, loop) /\ Entries(d, entries, table) /\ Slots(d, entries, table)
         /\ \A j \in 0 .. table.cases : SlotIn(d, base + 2 * j)
         /\ \A k \in K : At(d, base + 2 * k).arg = value
         /\ \A j \in 0 .. table.cases :
              j \notin K => At(d, base + 2 * j) = At(c, base + 2 * j)
    BY <1>15 DEF SlotsSet
  <1>17. Lands(d, here)
    <2>1. Len(d) \in Nat /\ here = 2 * Len(d)
      BY <1>1, <1>16
    <2> HIDE DEF here, d
    <2> QED
      BY <2>1, LandsHere
  <1> HIDE DEF d, c, here
  <1>18. CASE last
    <2>1. new = NoTable
      BY <1>8, <1>18
    <2> QED
      <3>1. Tabled(d, new, more)
        BY <2>1 DEF Tabled
      <3>2. Entries(d, more, new)
        <4>1. \A k \in K : /\ SlotIn(d, base + 2 * k) /\ k <= n
                           /\ At(d, base + 2 * k).arg = here - base
          BY <1>11, <1>16 DEF value
        <4>2. K \subseteq Nat
          BY <1>11
        <4> QED
          BY <1>2, <1>3, <1>9, <1>16, <1>17, <2>1, <4>1, <4>2, EntriesGiven
      <3>3. Slots(d, more, new)
        BY <1>14, <1>16, <1>18, SlotsGiven
      <3>4. Tracked(d, open, chain, bound, loop, more, new)
        BY <1>16, <3>1, <3>2, <3>3 DEF Tracked
      <3> QED
        BY <1>2, <1>6, <1>7, <1>8, <1>16, <3>4, InvKept DEF StateInv, d
  <1>19. CASE ~ last
    <2>1. new = [table EXCEPT !.next = table.next + 1] /\ K = {table.next} /\ table.next < table.cases
      BY <1>8, <1>13, <1>19
    <2>2. Tabled(d, new, more) /\ Nexts(table, new)
      <3>1. \A j \in 0 .. table.cases :
              j # table.next => At(d, table.base + 2 * j) = At(c, table.base + 2 * j)
        BY <1>16, <2>1
      <3>2. \A j \in 0 .. table.cases : SlotIn(d, table.base + 2 * j)
        BY <1>16
      <3> HIDE DEF more
      <3>3. /\ Tabled(d, new, entries \cup Given(table.base, {table.next}, here))
            /\ Nexts(table, new)
        BY <1>1, <1>2, <2>1, <3>1, <3>2, TabledGiven
      <3> QED
        BY <2>1, <3>3 DEF more
    <2> QED
      <3>2. Entries(d, more, new)
        <4>1. \A k \in K : /\ SlotIn(d, base + 2 * k) /\ k <= n
                           /\ At(d, base + 2 * k).arg = here - base
          BY <1>11, <1>16 DEF value
        <4>2. K \subseteq Nat
          BY <1>11
        <4> QED
          BY <1>2, <1>3, <1>9, <1>16, <1>17, <2>2, <4>1, <4>2, EntriesGiven
      <3>3. Slots(d, more, new)
        BY <1>16, <2>2, SlotsGiven
      <3>4. Tracked(d, open, chain, bound, loop, more, new)
        BY <1>16, <2>2, <3>2, <3>3 DEF Tracked
      <3> QED
        BY <1>2, <1>6, <1>7, <1>8, <1>16, <3>4, InvKept DEF StateInv, d
  <1> QED
    BY <1>18, <1>19

LEMMA StateInvStep ==
  StateInv /\ [Next]_vars => StateInv'
  <1> SUFFICES ASSUME StateInv, [Next]_vars PROVE StateInv'
    OBVIOUS
  <1>1. CASE UNCHANGED vars
    <2>1. /\ inst' = inst /\ asm' = asm /\ open' = open /\ chain' = chain /\ bound' = bound
          /\ loop' = loop /\ entries' = entries /\ table' = table /\ status' = status
      BY <1>1 DEF vars
    <2> QED
      BY <2>1, InvKept DEF StateInv
  <1>2. CASE Plain
    BY <1>2, StateInvPlain
  <1>3. CASE Load
    BY <1>3, StateInvLoad
  <1>4. CASE Call
    BY <1>4, StateInvCall
  <1>5. CASE Leave
    BY <1>5, StateInvLeave
  <1>6. ASSUME NEW l \in Labels, Bind(l) PROVE StateInv'
    BY <1>6, StateInvBind
  <1>7. ASSUME NEW l \in Labels, BranchWide(l) PROVE StateInv'
    BY <1>7, StateInvBranchWide
  <1>8. ASSUME NEW l \in Labels, NEW op \in {"b", "bcc"}, Branch(l, op) PROVE StateInv'
    <2>1. op \in BranchOps
      BY DEF BranchOps
    <2> QED
      BY <1>8, <2>1, StateInvBranch
  <1>9. CASE LoopBody
    BY <1>9, StateInvLoopBody
  <1>10. CASE BackBranch
    BY <1>10, StateInvBackBranch
  <1>11. CASE Switch
    BY <1>11, StateInvSwitch
  <1>12. CASE GapCase
    BY <1>12, StateInvGapCase
  <1>13. CASE StartCase
    BY <1>13, StateInvStartCase
  <1> QED
    BY <1>1, <1>2, <1>3, <1>4, <1>5, <1>6, <1>7, <1>8, <1>9, <1>10, <1>11, <1>12, <1>13 DEF Next

(* The invariant of a body under construction, of every program and whatever
   its limits. *)
THEOREM BodyInvariant == Spec => []StateInv
  <1>1. Init => StateInv
    BY StateInvInit
  <1>2. StateInv /\ [Next]_vars => StateInv'
    BY StateInvStep
  <1> QED
    BY <1>1, <1>2, PTL DEF Spec

(* What an address to land on is not. *)
LEMMA LandsOnCode ==
  ASSUME NEW t, Lands(asm.code, t), Len(asm.code) \in Nat
  PROVE  ~ NotCode(t)
  BY DEF Lands, NotCode, DataOps, Code, Pc

LEMMA InvLoads == StateInv => LoadsReach
  <1> SUFFICES ASSUME StateInv PROVE LoadsReach
    OBVIOUS
  <1>1. Loaded(asm) /\ (status = "finished" => asm.pending = << >>)
    BY InvGives DEF StateInv, Body
  <1>2. ASSUME NEW i \in 1 .. Len(asm.code), 2 * (i - 1) \notin PendingSites PROVE ~ Waits(asm, i)
    BY <1>2 DEF Waits, PendingSites
  <1>3. ASSUME NEW i \in Index, Code[i].op = "ldr", 2 * (i - 1) \notin PendingSites
        PROVE  LET word == 4 * ((2 * i + 2) \div 4) + Code[i].arg
               IN  /\ word % 4 = 0 /\ word + 2 < Pc(asm)
                   /\ \A half \in 0 .. 1 : At(Code, word + 2 * half)
                                             = Halfword("word", half, Code[i].value)
    <2>1. LoadedAt(asm.code, i)
      BY <1>1, <1>2, <1>3 DEF Loaded, Index, Code
    <2> QED
      BY <2>1 DEF LoadedAt, Code, Pc
  <1> QED
    BY <1>1, <1>3 DEF LoadsReach

LEMMA InvNothing == StateInv => NothingRunsIntoData
  <1> SUFFICES ASSUME StateInv PROVE NothingRunsIntoData
    OBVIOUS
  <1>1. /\ Walled(asm.code) /\ Resolved(asm.code, SitesIn(open)) /\ Len(asm.code) \in Nat
        /\ Entries(asm.code, entries, table)
    BY InvGives DEF Body, Tracked
  <1>2. \A i \in Index : Data(i) =>
          /\ i > 1
          /\ \/ Data(i - 1)
             \/ Code[i - 1].op \in {"b", "bx", "blx"}
             \/ Code[i - 1].op = "nop" /\ i > 2
                  /\ (Data(i - 2) \/ Code[i - 2].op \in {"b", "bx"})
    BY <1>1 DEF Walled, Wall, Data, Index, Code
  <1>3. ASSUME NEW i \in Index, Code[i].op \in {"b", "bcc"}, 2 * (i - 1) \notin ChainedSites
        PROVE  ~ NotCode(Target(Code, 2 * (i - 1)))
    <2>1. Lands(asm.code, Target(asm.code, 2 * (i - 1)))
      BY <1>1, <1>3 DEF Resolved, ChainedSites, SitesIn, Index, Code, BranchOps
    <2> QED
      BY <1>1, <2>1, LandsOnCode DEF Code
  <1>4. \A e \in entries : ~ NotCode(e[3])
    BY <1>1, LandsOnCode DEF Entries
  <1> QED
    BY <1>2, <1>3, <1>4 DEF NothingRunsIntoData

LEMMA InvBranches == StateInv => BranchesLand
  <1> SUFFICES ASSUME StateInv PROVE BranchesLand
    OBVIOUS
  <1>1. /\ Chains(asm.code, open, chain) /\ BoundLand(asm.code, bound, SitesIn(open))
        /\ Len(asm.code) \in Nat
    BY InvGives DEF Tracked
  <1>2. ASSUME NEW l \in Labels PROVE open[l] = SitesOf(asm.code, chain[l])
    <2>1. Chained(asm.code, open[l], chain[l])
      BY <1>1 DEF Chains
    <2> QED
      BY <1>1, <2>1, SitesFound
  <1> QED
    BY <1>1, <1>2 DEF BranchesLand, BoundLand, Code

LEMMA InvSlots == StateInv => SlotsLeadToCases
  <1> SUFFICES ASSUME StateInv PROVE SlotsLeadToCases
    OBVIOUS
  <1>1. /\ Entries(asm.code, entries, table) /\ Slots(asm.code, entries, table)
        /\ Tabled(asm.code, table, entries)
    BY InvGives DEF Tracked
  <1>2. \A e \in entries : e[1] + At(Code, e[1] + 2 * e[2]).arg = e[3]
    BY <1>1 DEF Entries, Code
  <1>3. ASSUME NEW i \in Index, Code[i].op = "slot"
        PROVE  \/ \E e \in entries : e[1] + 2 * e[2] = 2 * (i - 1)
               \/ table # NoTable /\ 2 * (i - 1) >= table.base
    <2>1. \/ \E e \in entries : e[1] + 2 * e[2] = 2 * (i - 1)
          \/ InTable(table, 2 * (i - 1))
      BY <1>1, <1>3 DEF Slots, Index, Code
    <2>2. CASE InTable(table, 2 * (i - 1))
      <3>1. PICK j \in 0 .. table.cases : 2 * (i - 1) = table.base + 2 * j
        BY <2>2 DEF InTable
      <3>2. table # NoTable /\ table.base \in Nat
        BY <1>1, <2>2 DEF InTable, Tabled
      <3> QED
        BY <3>1, <3>2
    <2> QED
      BY <2>1, <2>2
  <1> QED
    BY <1>2, <1>3 DEF SlotsLeadToCases

LEMMA InvResumes == StateInv /\ ~ BothFromPool => ResumeAtEnd
  <1> SUFFICES ASSUME StateInv, ~ BothFromPool PROVE ResumeAtEnd
    OBVIOUS
  <1>1. Resuming(asm.code) /\ Len(asm.code) \in Nat
    BY InvGives DEF StateInv
  <1>2. ASSUME NEW i \in Index, Code[i].op \in {"ldr", "movs"}, Code[i].value.kind = "resume"
        PROVE  LET last == Code[i].value.of \div 2
               IN  /\ last <= Len(Code) /\ Code[last].op = "bx"
                   /\ \A j \in i .. last - 1 : Code[j].op # "bx"
    <2> DEFINE last == asm.code[i].value.of \div 2
    <2>1. /\ last \in i + 1 .. Len(asm.code) /\ asm.code[last].op = "bx"
          /\ \A j \in i .. last - 1 : asm.code[j].op # "bx"
      BY <1>1, <1>2 DEF Resuming, Index, Code
    <2> HIDE DEF last
    <2>2. last <= Len(asm.code)
      BY <1>1, <2>1
    <2> QED
      BY <2>1, <2>2 DEF Code, last
  <1> QED
    BY <1>2 DEF ResumeAtEnd

(* A load whose pool is out reads its own constant, in every program and
   whatever the limits of the pool: a pool's word never drifts past the reach
   of the oldest load that waits for it. *)
THEOREM LoadsAlwaysReach == Spec => []LoadsReach
  BY BodyInvariant, InvLoads, PTL

(* Nothing falls through, branches or switches into a pool, a jump table or
   the padding before them. *)
THEOREM NothingEverRunsIntoData == Spec => []NothingRunsIntoData
  BY BodyInvariant, InvNothing, PTL

(* Every branch lands where its label was bound, and the chain that runs
   through the unbound ones' displacement fields holds them all. *)
THEOREM BranchesAlwaysLand == Spec => []BranchesLand
  BY BodyInvariant, InvBranches, PTL

(* Every slot of a jump table leads to its own case, a gap's to the default. *)
THEOREM SlotsAlwaysLeadToCases == Spec => []SlotsLeadToCases
  BY BodyInvariant, InvSlots, PTL

(* A call's record resumes after the call's own jump, unless a procedure's
   calls may draw both the record and the callee from the pool: there the
   second load can spill the pool in between. *)
THEOREM CallsResumeAtTheirEnd ==
  Spec => [](~ ("pool" \in Records /\ "pool" \in Callees) => ResumeAtEnd)
  <1>1. StateInv => (~ ("pool" \in Records /\ "pool" \in Callees) => ResumeAtEnd)
    BY InvResumes DEF BothFromPool
  <1> QED
    BY <1>1, BodyInvariant, PTL
===============================================================================
