------------------------------ MODULE Assembler ------------------------------
(***************************************************************************)
(* The one-pass assembler and the sequences the emitters build with it:    *)
(* halfwords appended in order, literals collected into pools that an      *)
(* emission may spill at any halfword, forward branches chained through    *)
(* their own displacement fields, call records holding the address to      *)
(* resume at, and jump tables patched case by case.                        *)
(*                                                                         *)
(* Addresses are bytes from the start of the body, which the arena keeps   *)
(* word-aligned.  A halfword is what it does: its operand in arg, and in   *)
(* value the constant it loads, or for half a pool word the word it is of. *)
(***************************************************************************)
EXTENDS Integers, Sequences, FiniteSets

CONSTANT
  Instances       (* the programs translated, each with the limits it meets:
                     records of the fields named below                     *)

VARIABLE
  inst            (* the instance this behaviour is of                     *)

MaxPending  == inst.maxPending    (* POOL_MAX_PENDING                      *)
MaxReach    == inst.maxReach      (* LITERAL_POOL_MAX_REACH                *)
ReachMargin == inst.reachMargin   (* LITERAL_POOL_REACH_MARGIN             *)
CondReach   == inst.condReach     (* farthest displacement of a
                                     conditional branch                    *)
BranchReach == inst.branchReach   (* the same of an unconditional one      *)
Literals    == inst.literals      (* constants only a pool can hold        *)
Records     == inst.records       (* how a call loads its record: a subset
                                     of {"imm8", "pool"}, empty for a
                                     procedure that makes no call          *)
Callees     == inst.callees       (* the same for the callee's index       *)
Labels      == inst.labels        (* labels in use at once                 *)
Loops       == inst.loops         (* whether the program has loops         *)
Cases       == inst.cases         (* the indexed cases of the switches     *)
MaxBytes    == inst.maxBytes      (* bound: bytes emitted when an
                                     operation starts                      *)

ASSUME AssemblerConstants ==
  \A i \in Instances :
    /\ {i.maxPending, i.maxReach, i.reachMargin, i.condReach, i.branchReach,
        i.maxBytes} \cup i.cases \subseteq Nat
    /\ i.maxPending > 0 /\ i.maxReach % 4 = 0 /\ i.loops \in BOOLEAN
    /\ i.maxReach >= 12 /\ i.reachMargin >= 4
    /\ i.records \cup i.callees \subseteq {"imm8", "pool"}

VARIABLES
  asm,      (* [code, pending, atomic]: buf, the pool's sites and values,
               and suppressPoolCheck                                       *)
  chain,    (* Label::chain of each label, -1 when nothing is chained      *)
  table,    (* the switch being translated: base, cases, next case, gaps   *)
  status,   (* the width of this attempt, "Narrow" or "Wide", and then
               "finished" or "refused"                                     *)
  loop,     (* bodyStart of the loop being translated, or -1               *)
  open,     (* history: the sites that branch to each unbound label        *)
  bound,    (* history: <<site, target>> for each branch meant to land     *)
  entries   (* history: <<base, case, where its code starts>>              *)

vars == << inst, asm, chain, table, status, loop, open, bound, entries >>

NoTable == [base |-> -1, cases |-> 0, next |-> 0, gaps |-> -1]

Nothing == [kind |-> "none", of |-> 0]
Literal(v) == [kind |-> "literal", of |-> v]
Resume(addr) == [kind |-> "resume", of |-> addr]

Halfword(op, arg, value) == [op |-> op, arg |-> arg, value |-> value]
Isn(op) == Halfword(op, 0, Nothing)

At(code, addr) == code[addr \div 2 + 1]
Pc(a) == 2 * Len(a.code)
RoundUpToWord(n) == 4 * ((n + 3) \div 4)

(* What a Thumb branch at a site does with its displacement. *)
Target(code, site) == site + 4 + At(code, site).arg

InReach(code, site, target) ==
  LET reach == IF At(code, site).op = "bcc" THEN CondReach ELSE BranchReach
  IN  target - (site + 4) \in -(reach + 2) .. reach

PatchBranch(code, sites, target) ==
  [i \in 1 .. Len(code) |-> IF 2 * (i - 1) \in sites
                            THEN [code[i] EXCEPT !.arg = target - (2 * i + 2)]
                            ELSE code[i]]

DoEmit(a, isn) == [a EXCEPT !.code = Append(@, isn)]

-----------------------------------------------------------------------------
(* The literal pool. *)

(* Equal values share a word: the pending loads that bring a new one. *)
FirstOccurrences(pending) ==
  { i \in 1 .. Len(pending) :
      \A j \in 1 .. i - 1 : pending[j].value # pending[i].value }

(* The word, counted from the start of the pool, that holds a value. *)
WordOf(pending, value) ==
  LET first == CHOOSE i \in FirstOccurrences(pending) :
                        pending[i].value = value
  IN  Cardinality({ j \in FirstOccurrences(pending) : j < first })

PoolHalfwords(pending) ==
  [h \in 1 .. 2 * Cardinality(FirstOccurrences(pending)) |->
     LET i == CHOOSE i \in FirstOccurrences(pending) :
                WordOf(pending, pending[i].value) = (h - 1) \div 2
     IN  Halfword("word", (h - 1) % 2, pending[i].value)]

\* Faulty form: measures from the load itself, not from its aligned pc.
PatchLoads_Unaligned(code, pending, pool) ==
  [i \in 1 .. Len(code) |->
     IF \E p \in 1 .. Len(pending) : pending[p].site = 2 * (i - 1)
     THEN [code[i] EXCEPT !.arg =
             (pool + 4 * WordOf(pending, code[i].value) - (2 * i + 2))
               % (MaxReach + 4)]
     ELSE code[i]]

(* patchPoolSite: an 8-bit count of words from the load's own aligned pc. *)
PatchLoads(code, pending, pool) ==
  [i \in 1 .. Len(code) |->
     IF \E p \in 1 .. Len(pending) : pending[p].site = 2 * (i - 1)
     THEN [code[i] EXCEPT !.arg =
             (pool + 4 * WordOf(pending, code[i].value) - 4 * ((2 * i + 2) \div 4))
               % (MaxReach + 4)]
     ELSE code[i]]

\* Faulty form: the branch over the pool stops short of its last word.
FlushPool_GuardShort(a, guard) ==
  IF a.pending = << >> THEN a
  ELSE LET g    == IF guard THEN Append(a.code, Isn("b")) ELSE a.code
           pad  == IF Len(g) % 2 = 0 THEN g ELSE Append(g, Isn("nop"))
           full == PatchLoads(pad, a.pending, 2 * Len(pad))
                     \o PoolHalfwords(a.pending)
       IN  [a EXCEPT !.code = IF guard
                              THEN PatchBranch(full, {Pc(a)}, 2 * Len(full) - 4)
                              ELSE full,
                     !.pending = << >>]

FlushPool(a, guard) ==
  IF a.pending = << >> THEN a
  ELSE LET g    == IF guard THEN Append(a.code, Isn("b")) ELSE a.code
           pad  == IF Len(g) % 2 = 0 THEN g ELSE Append(g, Isn("nop"))
           full == PatchLoads(pad, a.pending, 2 * Len(pad))
                     \o PoolHalfwords(a.pending)
       IN  [a EXCEPT !.code = IF guard
                              THEN PatchBranch(full, {Pc(a)}, 2 * Len(full))
                              ELSE full,
                     !.pending = << >>]

(* Whether the next halfword, extraBytes more and a pool with poolEntries more
   would put the end of that pool out of the oldest load's reach. *)
ReachAtRisk(a, poolEntries, extraBytes) ==
  RoundUpToWord(Pc(a) + 2 + extraBytes) + 4 * (Len(a.pending) + poolEntries)
    - a.pending[1].site + ReachMargin > MaxReach

\* Faulty form: counts the literals there are, not the ones to come.
CountAtRisk_Late(a, poolEntries) == Len(a.pending) > MaxPending

CountAtRisk(a, poolEntries) == Len(a.pending) + poolEntries > MaxPending

EnsurePoolRoom(a, poolEntries, extraBytes) ==
  IF /\ a.pending # << >>
     /\ ReachAtRisk(a, poolEntries, extraBytes) \/ CountAtRisk(a, poolEntries)
  THEN FlushPool(a, TRUE)
  ELSE a

Emit(a, isn) ==
  IF a.atomic THEN DoEmit(a, isn) ELSE EnsurePoolRoom(DoEmit(a, isn), 0, 0)

(* AtomicBlock: reserve, then suppress the check until the block closes. *)
OpenAtomic(a, poolEntries, extraBytes) ==
  [EnsurePoolRoom(a, poolEntries, extraBytes) EXCEPT !.atomic = TRUE]

CloseAtomic(a) == [a EXCEPT !.atomic = FALSE]

ParkPoolSite(a, value) ==
  [Emit(a, Halfword("ldr", 0, value)) EXCEPT
     !.pending = Append(@, [site |-> Pc(a), value |-> value])]

(* materializeImm32: what a MOVS can hold, and what only the pool can. *)
Materialize(a, value, how) ==
  IF how = "imm8" THEN Emit(a, Halfword("movs", 0, value))
  ELSE ParkPoolSite(EnsurePoolRoom(a, 1, 0), value)

(* mov r3, r10; ldr r3, [r3, #helper]; bx r3 or blx r3. *)
JumpToHelper(a, jump) ==
  Emit(Emit(Emit(a, Isn("mov")), Isn("mov")), Isn(jump))

(* CALL_SEQUENCE_HALFWORDS, counted from preCallPc. *)
CallSequenceBytes == 10

\* Faulty form: preCallPc read before the block is opened.
EmitCall_PcFirst(a, record, calleeHow, callee) ==
  LET b      == OpenAtomic(a, 2, 0)
      resume == Resume(Pc(a) + CallSequenceBytes)
      c      == Materialize(b, resume, record)
      d      == Materialize(c, Literal(callee), calleeHow)
  IN  CloseAtomic(JumpToHelper(d, "bx"))

EmitCall(a, record, calleeHow, callee) ==
  LET b      == OpenAtomic(a, 2, 0)
      resume == Resume(Pc(b) + CallSequenceBytes)
      c      == Materialize(b, resume, record)
      d      == Materialize(c, Literal(callee), calleeHow)
  IN  CloseAtomic(JumpToHelper(d, "bx"))

(* abiEmitReturn with words to reclaim, and without; abiEmitTrap is the latter
   but for a reservation of no entry. *)
EmitReturn(a, reclaim) ==
  LET b == OpenAtomic(a, 1, 0)
  IN  CloseAtomic(JumpToHelper(
        IF reclaim = {} THEN b
        ELSE Materialize(b, Literal(CHOOSE v \in reclaim : TRUE), "pool"),
        "bx"))
EmitTrap(a) == CloseAtomic(JumpToHelper(OpenAtomic(a, 0, 0), "bx"))

(* The dispatch of a switch, up to its base, and a slot for each case. *)

TableBytes(n) == 6 + (n + 1) * 2

EmitDispatch(a, n) ==
  JumpToHelper(OpenAtomic(Emit(a, Isn("mov")), 0, TableBytes(n)), "blx")
EmitTable(a, n) ==
  LET slots == [i \in 1 .. n + 1 |-> Halfword("slot", 0, Nothing)]
  IN  FlushPool(CloseAtomic([a EXCEPT !.code = @ \o slots]), FALSE)

-----------------------------------------------------------------------------
(* Branch chains. *)

(* What a linked list that ends in -1 holds, when it has no more than n. *)
Listed(next, head, n) ==
  LET at[k \in 0 .. n] == IF k = 0 THEN head
                          ELSE LET last == at[k - 1]
                               IN  IF last = -1 THEN -1 ELSE next[last]
  IN  { at[k] : k \in 0 .. n } \ {-1}

(* The sites bind walks: each holds the one linked before it as its target,
   the first one itself. *)
SitesOf(code, head) ==
  LET next == [s \in 0 .. 2 * Len(code) |->
                 IF Target(code, s) = s THEN -1 ELSE Target(code, s)]
  IN  Listed(next, head, Len(code))

\* Faulty form: every site ends its chain.
LinkTarget_Unlinked(head, site) == site
LinkTarget(head, site) == IF head = -1 THEN site ELSE head

(* What branchTo emits: the linked placeholder, before any pool. *)
Linked(a, op, head) ==
  [Emit(a, Isn(op)) EXCEPT
     !.code = PatchBranch(@, {Pc(a)}, LinkTarget(head, Pc(a)))]

(* An unconditional branch takes the pool with it, unguarded. *)
BranchTo(a, op, head) ==
  IF op = "b" THEN FlushPool(Linked(a, op, head), FALSE)
  ELSE Linked(a, op, head)

Links(a, op, head) ==
  LET site == Pc(a)
  IN  InReach(Append(a.code, Isn(op)), site, LinkTarget(head, site))

-----------------------------------------------------------------------------
Blank == [code |-> << >>, pending |-> << >>, atomic |-> FALSE]

Init ==
  /\ inst \in Instances
  /\ asm = Blank /\ status = "Narrow"
  /\ chain = [l \in Labels |-> -1]
  /\ table = NoTable /\ loop = -1
  /\ open = [l \in Labels |-> {}] /\ bound = {} /\ entries = {}

Emitting == status \in {"Narrow", "Wide"}
Room == Emitting /\ Pc(asm) < MaxBytes

Straight == UNCHANGED << inst, chain, table, status, loop, open, bound, entries >>

(* Any instruction that is neither a branch nor a load from the pool. *)
Plain ==
  /\ Room /\ Straight
  /\ asm' = Emit(asm, Isn("mov"))

Load ==
  /\ Room /\ Straight
  /\ \E v \in Literals : asm' = Materialize(asm, Literal(v), "pool")

Call ==
  /\ Room /\ Straight
  /\ \E record \in Records, calleeHow \in Callees, callee \in Literals :
       asm' = EmitCall(asm, record, calleeHow, callee)

(* What leaves the procedure: the pool may stay for later code to flush when
   a label is bound next (translateIfThen), goes here when more code follows
   (the other constructs), or goes in finalize. *)
Leave ==
  /\ Room
  /\ \E out \in {EmitTrap(asm)} \cup
                { EmitReturn(asm, r) : r \in {{}} \cup {{v} : v \in Literals} } :
       \/ asm' = out /\ UNCHANGED status
       \/ asm' = FlushPool(out, FALSE) /\ UNCHANGED status
       \/ /\ \A l \in Labels : chain[l] = -1
          /\ loop = -1 /\ table = NoTable
          /\ asm' = FlushPool(out, FALSE) /\ status' = "finished"
  /\ UNCHANGED << inst, chain, table, loop, open, bound, entries >>

(* A branch that does not reach ends the attempt: translateProc starts over
   in Wide, and refuses the program when that does not do either. *)
Abandon ==
  \/ /\ status = "Narrow" /\ status' = "Wide" /\ asm' = Blank
     /\ chain' = [l \in Labels |-> -1] /\ open' = [l \in Labels |-> {}]
     /\ table' = NoTable /\ loop' = -1 /\ bound' = {} /\ entries' = {}
     /\ UNCHANGED inst
  \/ /\ status = "Wide" /\ status' = "refused"
     /\ UNCHANGED << inst, asm, chain, table, loop, open, bound, entries >>

Branch(l, op) ==
  /\ Room
  /\ IF Links(asm, op, chain[l])
     THEN /\ asm' = BranchTo(asm, op, chain[l])
          /\ chain' = [chain EXCEPT ![l] = Pc(asm)]
          /\ open' = [open EXCEPT ![l] = @ \cup {Pc(asm)}]
          /\ UNCHANGED << inst, table, status, loop, bound, entries >>
     ELSE Abandon

(* emitBranch in Wide: a conditional branch over an unconditional one, and
   over the pool that goes with that. *)
BranchWide(l) ==
  /\ Room /\ status = "Wide"
  /\ LET skip  == Linked(asm, "bcc", -1)
         site  == Pc(skip)
         taken == BranchTo(skip, "b", chain[l])
     IN  IF Links(skip, "b", chain[l])
         THEN /\ asm' = [taken EXCEPT !.code =
                           PatchBranch(@, {Pc(asm)}, Pc(taken))]
              /\ chain' = [chain EXCEPT ![l] = site]
              /\ open' = [open EXCEPT ![l] = @ \cup {site}]
              /\ bound' = bound \cup {<< Pc(asm), Pc(taken) >>}
              /\ UNCHANGED << inst, table, status, loop, entries >>
         ELSE Abandon

Bind(l) ==
  /\ Emitting /\ chain[l] # -1
  /\ LET sites == SitesOf(asm.code, chain[l])
     IN  IF \A s \in sites : InReach(asm.code, s, Pc(asm))
         THEN /\ asm' = [asm EXCEPT !.code = PatchBranch(@, sites, Pc(asm))]
              /\ chain' = [chain EXCEPT ![l] = -1]
              /\ open' = [open EXCEPT ![l] = {}]
              /\ bound' = bound \cup { << s, Pc(asm) >> : s \in open[l] }
              /\ UNCHANGED << inst, table, status, loop, entries >>
         ELSE Abandon

LoopBody ==
  /\ Loops /\ Emitting /\ loop = -1
  /\ loop' = Pc(asm)
  /\ UNCHANGED << inst, asm, chain, table, status, open, bound, entries >>

(* emitBackBranch.  Past its range the wide form refuses the program, which
   ends the attempt as well. *)
BackBranch ==
  /\ Room /\ loop # -1
  /\ LET wide == status = "Wide"
         skip == IF wide THEN Linked(asm, "bcc", -1) ELSE asm
         op   == IF wide THEN "b" ELSE "bcc"
         site == Pc(skip)
         back == Emit(skip, Halfword(op, loop - (site + 4), Nothing))
     IN  IF InReach(Append(skip.code, Isn(op)), site, loop)
         THEN /\ asm' = IF wide
                        THEN [back EXCEPT !.code =
                                PatchBranch(@, {Pc(asm)}, Pc(back))]
                        ELSE back
              /\ bound' = bound \cup {<< site, loop >>} \cup
                   (IF wide THEN {<< Pc(asm), Pc(back) >>} ELSE {})
              /\ loop' = -1
              /\ UNCHANGED << inst, chain, table, status, open, entries >>
         ELSE Abandon

-----------------------------------------------------------------------------
(* A switch: cases in order, the default one last. *)

Switch ==
  /\ Room /\ table = NoTable
  /\ \E n \in Cases :
       /\ asm' = EmitTable(EmitDispatch(asm, n), n)
       /\ table' = [base |-> Pc(EmitDispatch(asm, n)), cases |-> n,
                    next |-> 0, gaps |-> -1]
  /\ UNCHANGED << inst, chain, status, loop, open, bound, entries >>

Slot(i) == table.base + 2 * i

PatchSlots(slots, value) ==
  asm' = [asm EXCEPT !.code =
            [i \in 1 .. Len(@) |->
               IF \E s \in slots : Slot(s) = 2 * (i - 1)
               THEN [@[i] EXCEPT !.arg = value] ELSE @[i]]]

(* A case that is nothing but DEFAULT joins the chain of gaps. *)
GapCase ==
  /\ Emitting /\ table # NoTable /\ table.next < table.cases
  /\ PatchSlots({table.next}, table.gaps)
  /\ table' = [table EXCEPT !.gaps = table.next, !.next = @ + 1]
  /\ UNCHANGED << inst, chain, status, loop, open, bound, entries >>

\* Faulty form: patches the last gap and does not follow its link.
Gaps_LastOnly == {table.gaps} \ {-1}

Gaps ==
  LET next == [s \in 0 .. table.cases |-> At(asm.code, Slot(s)).arg]
  IN  Listed(next, table.gaps, table.cases)

StartCase ==
  /\ Emitting /\ table # NoTable
  /\ LET here    == Pc(asm) - table.base
         last    == table.next = table.cases
         default == IF last THEN Gaps ELSE {}
     IN  /\ PatchSlots({table.next} \cup default, here)
         /\ entries' = entries \cup
              { << table.base, i, Pc(asm) >> :
                  i \in {table.next} \cup
                    (IF last
                     THEN { j \in 0 .. table.cases - 1 :
                              ~ \E e \in entries :
                                  e[1] = table.base /\ e[2] = j }
                     ELSE {}) }
         /\ table' = IF last THEN NoTable ELSE [table EXCEPT !.next = @ + 1]
  /\ UNCHANGED << inst, chain, status, loop, open, bound >>

-----------------------------------------------------------------------------
Next ==
  \/ Plain \/ Load \/ Call \/ Leave
  \/ \E l \in Labels : Bind(l) \/ BranchWide(l)
                       \/ \E op \in {"b", "bcc"} : Branch(l, op)
  \/ LoopBody \/ BackBranch
  \/ Switch \/ GapCase \/ StartCase

Spec == Init /\ [][Next]_vars

-----------------------------------------------------------------------------
(* Properties *)

Code == asm.code
Index == 1 .. Len(Code)
PendingSites == { asm.pending[p].site : p \in 1 .. Len(asm.pending) }
ChainedSites == UNION { open[l] : l \in Labels }

(* pendingSites and pendingValues have POOL_MAX_PENDING elements, and
   parkPoolSite does not look: every path to it has to have made room. *)
PendingFits == Len(asm.pending) <= MaxPending

(* A load whose pool is out reads its own constant: the pool was close enough
   for the 8-bit field, its word aligned, and shared only with its equals.
   Nothing is left to flush in a finished body. *)
LoadsReach ==
  /\ \A i \in Index :
       (Code[i].op = "ldr" /\ 2 * (i - 1) \notin PendingSites) =>
         LET word == 4 * ((2 * i + 2) \div 4) + Code[i].arg
         IN  /\ word % 4 = 0 /\ word + 2 < Pc(asm)
             /\ \A half \in 0 .. 1 : At(Code, word + 2 * half)
                                       = Halfword("word", half, Code[i].value)
  /\ status = "finished" => asm.pending = << >>

(* No path runs into a pool or a jump table: what stands before one never
   falls through, and no branch that is resolved, and no case of a switch,
   goes to a word, a slot or the padding before them. *)
Data(i) == Code[i].op \in {"word", "slot"}
NotCode(addr) == addr < Pc(asm) /\ At(Code, addr).op \in {"word", "slot", "nop"}
NothingRunsIntoData ==
  /\ \A i \in Index : Data(i) =>
       /\ i > 1
       /\ \/ Data(i - 1)
          \/ Code[i - 1].op \in {"b", "bx", "blx"}
          \/ Code[i - 1].op = "nop" /\ i > 2
               /\ (Data(i - 2) \/ Code[i - 2].op \in {"b", "bx"})
  /\ \A i \in Index :
       (Code[i].op \in {"b", "bcc"} /\ 2 * (i - 1) \notin ChainedSites) =>
         ~ NotCode(Target(Code, 2 * (i - 1)))
  /\ \A e \in entries : ~ NotCode(e[3])

(* Every branch meant for a label lands where that was bound, whatever pools
   came in between; and the chain of one not bound yet holds them all. *)
BranchesLand ==
  /\ \A b \in bound : Target(Code, b[1]) = b[2]
  /\ \A l \in Labels : open[l] = SitesOf(Code, chain[l])

(* Each slot of a jump table leads to its own case, a gap's to the default
   one, however many pools the cases before them spilled. *)
SlotsLeadToCases ==
  /\ \A e \in entries : e[1] + At(Code, e[1] + 2 * e[2]).arg = e[3]
  /\ \A i \in Index : Code[i].op = "slot" =>
       \/ \E e \in entries : e[1] + 2 * e[2] = 2 * (i - 1)
       \/ table # NoTable /\ 2 * (i - 1) >= table.base

(* The offset a call leaves in its record is that of the instruction after the
   call's own jump: where the callee's return has to come back to. *)
ResumeAtEnd ==
  \A i \in Index :
    (Code[i].op \in {"ldr", "movs"} /\ Code[i].value.kind = "resume") =>
      LET last == Code[i].value.of \div 2
      IN  /\ last <= Len(Code) /\ Code[last].op = "bx"
          /\ \A j \in i .. last - 1 : Code[j].op # "bx"
=============================================================================
