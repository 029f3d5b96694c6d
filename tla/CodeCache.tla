------------------------------ MODULE CodeCache ------------------------------
(***************************************************************************)
(* Compiled code runs, calls and returns through the dispatch table, and   *)
(* is translated, evicted, compacted and translated again underneath the   *)
(* program.  Composes CodeArena and DispatchTable through Runtime with the *)
(* dispatch helpers (runtime.S), the emitting half of the Assembler and    *)
(* translateProc's two attempts, for any number of runs of one Executor.   *)
(*                                                                         *)
(* A halfword of code is [proc, width, off]: which procedure it belongs    *)
(* to, which attempt emitted it and where in the body it stands.  What it  *)
(* does when executed is any of Branch, Call, Return and Trap.             *)
(***************************************************************************)
EXTENDS Runtime, Sequences

CONSTANTS
  NarrowLen, WideLen,   (* [Proc -> Nat]: halfwords an attempt emits before
                           it is complete or finds a branch out of range   *)
  NarrowFits, WideFits, (* the procedures whose attempt completes          *)
  MaxCallDepth,         (* the envelope's max_call_depth                   *)
  SpEntry,              (* sp when the entry procedure is called           *)
  RecordSize,           (* what one open call takes of the stack           *)
  TranslatorEntry,      (* what the translator takes before its first guard *)
  LevelFrame,           (* what one level of its recursion takes           *)
  Margin,               (* TRANSLATE_LEVEL_STACK_MARGIN                    *)
  PrologueLen,          (* halfwords translateBody emits before its guard  *)
  MaxBlocks             (* bound: guarded blocks opened in one attempt     *)

(* The code limit: sp less everything reserved up front. *)
CodeLimit ==
  SpEntry - RecordSize * (MaxCallDepth + 1) - TranslatorEntry - InterruptReserve

ArenaTop == IF OverlapsStack THEN CodeLimit ELSE ArenaEnd

Addr == ArenaStart .. ArenaTop

ASSUME CacheConstants ==
  /\ NarrowLen \in [Proc -> Nat \ {0}] /\ WideLen \in [Proc -> Nat \ {0}]
  /\ NarrowFits \subseteq Proc /\ WideFits \subseteq Proc
  /\ MaxCallDepth \in Nat /\ SpEntry \in Nat /\ RecordSize \in Nat
  /\ TranslatorEntry \in Nat /\ MaxBlocks \in Nat \ {0}
  /\ PrologueLen \in Nat
  /\ \A p \in Proc : PrologueLen <= NarrowLen[p] /\ PrologueLen <= WideLen[p]
  /\ LevelFrame \in Nat /\ Margin \in Nat /\ LevelFrame <= Margin
  /\ StackLimit <= CodeLimit
  /\ OverlapsStack => CodeLimit + InterruptReserve < NoFloor
  /\ Trampoline \notin Addr

VARIABLES
  mode,         (* "idle", "run", "translate", "landed" or "overrun"       *)
  outcome,      (* how the last excursion ended                            *)
  outerCursor,  (* the cursor Excursion saved                              *)
  tick,         (* r11                                                     *)
  pc,           (* address being executed, while mode is "run"             *)
  records,      (* the return records on the operand stack                 *)
  target,       (* what the trampoline enters once it is compiled          *)
  width,        (* translateProc's attempt                                 *)
  buf, count,   (* the Assembler's start of the code and its length        *)
  floors,       (* the outer floors the live stack guards hold             *)
  opened,       (* guarded blocks opened in this attempt                   *)
  trueAge       (* history: dispatches since the last one to i, capped     *)

assemblerVars == << target, width, buf, count, floors, opened >>
controlVars == << outerCursor, tick, pc, records, trueAge >>
vars == << arenaVars, tableVars, mode, outcome, controlVars, assemblerVars >>

Boot == [proc |-> -1, off |-> 0]

FinalWidth(p) == IF p \in NarrowFits THEN "narrow" ELSE "wide"
FinalLen(p) == IF p \in NarrowFits THEN NarrowLen[p] ELSE WideLen[p]
AttemptLen == IF width = "narrow" THEN NarrowLen[target.proc]
                                  ELSE WideLen[target.proc]
AttemptFits == target.proc \in (IF width = "narrow" THEN NarrowFits
                                                    ELSE WideFits)

NoCode == [proc |-> -1, width |-> "none", off |-> 0]
Word(p, w, k) == [proc |-> p, width |-> w, off |-> k]

Init ==
  /\ mem = [a \in Addr |-> NoCode]
  /\ cursor = ArenaStart /\ liveStackFloor = NoFloor
  /\ codePtr = EmptyCodePtr /\ lastUsed = EmptyLastUsed
  /\ mode = "idle" /\ outcome = "none" /\ outerCursor = ArenaStart
  /\ tick = 0 /\ pc = 0 /\ records = << >>
  /\ target = Boot /\ width = "narrow" /\ buf = 0 /\ count = 0
  /\ floors = << >> /\ opened = 0
  /\ trueAge = [i \in Proc |-> 0]

-----------------------------------------------------------------------------
(* Landing: sp goes back to the one parked in the sentinel, so everything
   the excursion had on the stack is gone. *)
LandWith(o) ==
  /\ mode' = "landed" /\ outcome' = o
  /\ records' = << >> /\ floors' = << >>
  /\ target' = Boot /\ width' = "narrow"
  /\ pc' = 0 /\ buf' = 0 /\ count' = 0 /\ opened' = 0
  /\ UNCHANGED << outerCursor, tick, trueAge >>

(* A fresh Ctx, whose Assembler starts where the committed code ends. *)
OpenAttempt(w, start) ==
  /\ width' = w /\ buf' = start /\ count' = 0 /\ opened' = 0

Older(a) == Lesser(a + 1, TickMod)

(* Both helpers: stamp the slot, bump the tick, jump through the slot. *)
Dispatch(p, off) ==
  /\ StampUse(p, tick)
  /\ tick' = (tick + 1) % TickMod
  /\ trueAge' = [i \in Proc |-> IF i = p THEN 1 ELSE Older(trueAge[i])]
  /\ \/ /\ IsResident(p)
        /\ pc' = codePtr[p] + off
        /\ UNCHANGED << mode, assemblerVars >>
     \/ /\ ~IsResident(p)
        /\ mode' = "translate" /\ pc' = 0
        /\ target' = [proc |-> p, off |-> off]
        /\ OpenAttempt("narrow", cursor)
        /\ UNCHANGED floors
  /\ UNCHANGED << arenaVars, codePtr, outcome, outerCursor >>

-----------------------------------------------------------------------------
(* Executor::run past its checks: an Excursion, a Runtime with every slot on
   the trampoline, and enterDispatch calling procedure 0. *)
Start ==
  /\ mode = "idle"
  /\ outerCursor' = cursor
  /\ OpenExcursion(CodeLimit)
  /\ codePtr' = EmptyCodePtr /\ lastUsed' = EmptyLastUsed
  /\ tick' = 1 % TickMod
  /\ trueAge' = [i \in Proc |-> 1]
  /\ mode' = "translate" /\ outcome' = "none"
  /\ records' = << Boot >>
  /\ target' = [proc |-> 0, off |-> 0]
  /\ OpenAttempt("narrow", cursor)
  /\ UNCHANGED << pc, floors >>

(* The excursion is over: the arena goes back to what it was. *)
Leave ==
  /\ mode = "landed"
  /\ mode' = "idle"
  /\ CloseExcursion(outerCursor)
  /\ UNCHANGED << tableVars, outcome, controlVars, assemblerVars >>

-----------------------------------------------------------------------------
(* Compiled code.  A branch is relative to the instruction itself, and so is
   everything else in a body: pc never comes from anywhere but a slot. *)
Branch ==
  /\ mode = "run"
  /\ \E k \in 0 .. FinalLen(mem[pc].proc) - 1 : pc' = pc + (k - mem[pc].off)
  /\ UNCHANGED << arenaVars, tableVars, mode, outcome, outerCursor, tick,
                  records, trueAge, assemblerVars >>

Call(q) ==
  /\ mode = "run"
  /\ Len(records) <= MaxCallDepth
  /\ mem[pc].off + 1 < FinalLen(mem[pc].proc)
  /\ records' = Append(records,
                       [proc |-> mem[pc].proc, off |-> mem[pc].off + 1])
  /\ Dispatch(q, 0)

Return ==
  LET rec == records[Len(records)]
  IN  /\ mode = "run"
      /\ rec.proc # -1
      /\ records' = SubSeq(records, 1, Len(records) - 1)
      /\ Dispatch(rec.proc, rec.off)

(* The record enterDispatch booted with names the sentinel, whose slot holds
   the landing. *)
ReturnToLanding ==
  /\ mode = "run"
  /\ records[Len(records)].proc = -1
  /\ LandWith("returned")
  /\ UNCHANGED << arenaVars, tableVars >>

Trap ==
  /\ mode = "run"
  /\ LandWith("trapped")
  /\ UNCHANGED << arenaVars, tableVars >>

(* Executor::cancel from an interrupt, wherever the excursion is. *)
Cancel ==
  /\ mode \in {"run", "translate"}
  /\ LandWith("cancelled")
  /\ UNCHANGED << arenaVars, tableVars >>

-----------------------------------------------------------------------------
(* doEmit: ensureSpace first, then the write, at an address taken from what
   ensureSpace returned. *)
Emitting ==
  /\ mode = "translate"
  /\ count < (IF opened = 0 THEN PrologueLen ELSE AttemptLen)

NextWord == Word(target.proc, width, count)

(* runtimeBail lands with the resource error it is given. *)
Bail(o) ==
  /\ LandWith(o)
  /\ UNCHANGED << arenaVars, tableVars >>

EmitFits ==
  /\ Emitting
  /\ buf + count < Ceiling
  /\ buf' = cursor
  /\ mem' = [mem EXCEPT ![cursor + count] = NextWord]
  /\ count' = count + 1
  /\ UNCHANGED << cursor, liveStackFloor, tableVars, mode, outcome,
                  controlVars, target, width, floors, opened >>

(* Exactly one victim per halfword, and only when the code being emitted
   has reached the ceiling. *)
EmitEvicting(v) ==
  /\ Emitting
  /\ buf + count = Ceiling
  /\ IsEvictionVictim(v, tick)
  /\ Evict(v)
  /\ buf' = cursor'
  /\ mem' = [MemAfterEvicting(v, buf + count) EXCEPT ![cursor' + count] = NextWord]
  /\ count' = count + 1
  /\ UNCHANGED << liveStackFloor, mode, outcome, controlVars, target, width,
                  floors, opened >>

\* Faulty form: gives up at the ceiling without looking for a victim.
EmitExhausted_NoVictim ==
  /\ Emitting
  /\ buf + count = Ceiling
  /\ Bail("exhausted_arena")

EmitExhausted ==
  /\ Emitting
  /\ buf + count = Ceiling
  /\ Residents = {}
  /\ Bail("exhausted_arena")

(* The assertion that the code is not past the ceiling fires, and where
   assertions are compiled out the comparison for equality never will:
   either way nothing after this step is modelled. *)
EmitPastCeiling ==
  /\ Emitting
  /\ buf + count > Ceiling
  /\ mode' = "overrun"
  /\ UNCHANGED << arenaVars, tableVars, outcome, controlVars, assemblerVars >>

-----------------------------------------------------------------------------
(* GUARDED_processUntilTerminator, once for the body, after its prologue, and
   once more inside it for every nested block.  TranslatorSp is sp where the
   guard's check runs. *)
TranslatorSp ==
  SpEntry - RecordSize * Len(records) - TranslatorEntry - LevelFrame * Len(floors)

OpeningBlock ==
  /\ mode = "translate"
  /\ opened < MaxBlocks
  /\ IF opened = 0 THEN count = PrologueLen ELSE floors # << >>

OpenBlock ==
  /\ OpeningBlock
  /\ TranslatorSp > StackFloorThreshold(Margin)
  /\ PublishStackFloor(TranslatorSp - Margin)
  /\ floors' = Append(floors, liveStackFloor)
  /\ opened' = opened + 1
  /\ UNCHANGED << tableVars, mode, outcome, controlVars, target, width, buf,
                  count >>

OpenBlockTooDeep ==
  /\ OpeningBlock
  /\ TranslatorSp <= StackFloorThreshold(Margin)
  /\ Bail("exhausted_translator_stack")

CloseBlock ==
  /\ mode = "translate"
  /\ floors # << >>
  /\ RetractStackFloor(floors[Len(floors)])
  /\ floors' = SubSeq(floors, 1, Len(floors) - 1)
  /\ UNCHANGED << tableVars, mode, outcome, controlVars, target, width, buf,
                  count, opened >>

-----------------------------------------------------------------------------
(* Every level of the recursion has returned. *)
AttemptOver ==
  /\ mode = "translate"
  /\ count = AttemptLen
  /\ opened > 0 /\ floors = << >>

(* finalize, then the trampoline reloads the slot and enters at the offset
   it was asked for. *)
Finalize ==
  /\ AttemptOver
  /\ AttemptFits
  /\ Commit(buf + count)
  /\ MarkCompiled(target.proc, buf)
  /\ mode' = "run"
  /\ pc' = codePtr'[target.proc] + target.off
  /\ target' = Boot /\ OpenAttempt("narrow", 0)
  /\ UNCHANGED << outcome, outerCursor, tick, records, trueAge, floors >>

\* Faulty form: the second attempt is as narrow as the first.
RetryWide_StillNarrow ==
  /\ AttemptOver
  /\ ~AttemptFits
  /\ OpenAttempt("narrow", cursor)
  /\ UNCHANGED << arenaVars, tableVars, mode, outcome, controlVars, target,
                  floors >>

RetryWide ==
  /\ AttemptOver
  /\ ~AttemptFits
  /\ width = "narrow"
  /\ OpenAttempt("wide", cursor)
  /\ UNCHANGED << arenaVars, tableVars, mode, outcome, controlVars, target,
                  floors >>

BranchRangeLimit ==
  /\ AttemptOver
  /\ ~AttemptFits
  /\ width = "wide"
  /\ Bail("branch_range")

-----------------------------------------------------------------------------
Emit == EmitFits \/ (\E v \in Proc : EmitEvicting(v)) \/ EmitExhausted
                 \/ EmitPastCeiling

Translate == Emit \/ OpenBlock \/ OpenBlockTooDeep \/ CloseBlock
                  \/ Finalize \/ RetryWide \/ BranchRangeLimit

Execute == Branch \/ (\E q \in Proc : Call(q)) \/ Return \/ ReturnToLanding
                  \/ Trap

Next == Start \/ Leave \/ Execute \/ Translate \/ Cancel

(* The translator is straight-line code on the only core there is: once
   entered it keeps running.  A compiled program is under no such promise. *)
Fairness == WF_vars(Translate) /\ WF_vars(Leave)

Spec == Init /\ [][Next]_vars

FairSpec == Spec /\ Fairness

-----------------------------------------------------------------------------
Outcome == {"none", "returned", "trapped", "cancelled", "exhausted_arena",
            "exhausted_translator_stack", "branch_range"}

Record == [proc : -1 .. ProcCount - 1, off : Nat]

TypeOK ==
  /\ mem \in [Addr -> [proc : -1 .. ProcCount - 1,
                       width : {"none", "narrow", "wide"}, off : Nat]]
  /\ cursor \in Nat /\ outerCursor \in Nat /\ liveStackFloor \in Int
  /\ codePtr \in [Proc -> Addr \cup {Trampoline}]
  /\ lastUsed \in [Proc -> Tick] /\ tick \in Tick
  /\ trueAge \in [Proc -> Nat]
  /\ mode \in {"idle", "run", "translate", "landed", "overrun"}
  /\ outcome \in Outcome
  /\ pc \in Nat /\ buf \in Nat /\ count \in Nat /\ opened \in Nat
  /\ records \in Seq(Record) /\ floors \in Seq(Int)
  /\ target \in Record /\ width \in {"narrow", "wide"}

InExcursion == mode \in {"run", "translate", "overrun"}

(* What a slot says is compiled is there in full, whatever has been evicted
   and slid since it was committed: every halfword of it, in order, from the
   attempt that fitted. *)
ResidentsIntact ==
  InExcursion =>
    \A p \in Residents : \A k \in 0 .. FinalLen(p) - 1 :
      mem[codePtr[p] + k] = Word(p, FinalWidth(p), k)

(* Sizes are not stored, so eviction is right only if the bodies lie end to
   end from the start of the arena to the cursor: the distance to the next
   body is then exactly what each one occupies. *)
PackedEndToEnd ==
  InExcursion =>
    /\ \A p \in Residents :
         /\ codePtr[p] >= ArenaStart
         /\ codePtr[p] + OccupiedSizeOf(p) <= cursor
         /\ OccupiedSizeOf(p) = RoundUp(FinalLen(p))
         /\ codePtr[p] % 2 = 0
    /\ NextResidentAbove(ArenaStart - 1, cursor) = ArenaStart

(* What the translator has emitted so far survives the evictions it causes
   itself, at the address it will be committed at. *)
BufferIntact ==
  mode = "translate" =>
    /\ buf = cursor
    /\ ~IsResident(target.proc)
    /\ \A k \in 0 .. count - 1 : mem[buf + k] = Word(target.proc, width, k)

(* ensureSpace's assertion: the code being emitted never is past the line
   the arena may grow to. *)
NeverPastCeiling == mode # "overrun"

(* Committed code stays under every floor published above it, so the stack
   the translator and the program still have to use is not code. *)
CommittedBelowCeiling == InExcursion => cursor <= Ceiling

(* A run hands the arena back as it found it, however it ended. *)
HandsBackArena ==
  mode = "idle" => cursor = ArenaStart /\ liveStackFloor = NoFloor

(* Nothing is evicted while something less recently dispatched stays, as
   long as no resident body has been idle for a whole turn of the tick. *)
VictimIsOldest ==
  [][\A v \in Residents :
       (mode = "translate" /\ mode' = "translate" /\ codePtr'[v] = Trampoline
          /\ \A i \in Residents : trueAge[i] < TickMod)
       => \A i \in Residents : trueAge[i] <= trueAge[v]]_vars

(* The translator gives up for want of room only on code that would not fit
   the arena with nothing else in it. *)
ExhaustedOnlyWhenTooLong ==
  [][(mode = "translate" /\ outcome' = "exhausted_arena")
       => AttemptLen > Ceiling - ArenaStart]_vars

(* Evictions, retries and blocks all come to an end. *)
TranslationEnds == mode = "translate" ~> mode # "translate"

(* The cache is invisible: execution is calls and returns over code that is
   always there. *)
Executing == [proc |-> mem[pc].proc, off |-> mem[pc].off]

Promise == INSTANCE CallReturn WITH
  Procedures <- Proc, Entry <- 0, LengthOf <- [p \in Proc |-> FinalLen(p)],
  status <- IF mode \in {"idle", "landed"} THEN mode ELSE "active",
  here <- IF mode = "run" THEN Executing ELSE target,
  frames <- records

ImplementsCallReturn == Promise!Spec
=============================================================================
