--------------------------- MODULE CodeCache_proofs ---------------------------
(***************************************************************************)
(* Proofs about CodeCache for every program, arena and stack.              *)
(***************************************************************************)
EXTENDS CodeCache, SequenceTheorems, TLAPS

Span(p) == RoundUp(FinalLen(p))

-----------------------------------------------------------------------------
(* Rounding to a word, as the constructor and commit do it. *)
LEMMA RoundUpFacts ==
  ASSUME NEW a \in Nat
  PROVE  RoundUp(a) \in Nat /\ a <= RoundUp(a) /\ RoundUp(a) <= a + 1
         /\ RoundUp(a) % 2 = 0
  BY DEF RoundUp

LEMMA Below ==
  ASSUME NEW a \in Int, NEW b \in Int, NEW c \in Int, NEW n \in Nat, a < b, b <= c
  PROVE  a < c + n /\ ~ (b <= a)
  OBVIOUS

LEMMA EvenDifference ==
  ASSUME NEW a \in Nat, NEW b \in Nat, a % 2 = 0, b % 2 = 0
  PROVE  (a - b) % 2 = 0 /\ (a + b) % 2 = 0
  OBVIOUS

LEMMA RoundUpOfSum ==
  ASSUME NEW a \in Nat, NEW b \in Nat, a % 2 = 0
  PROVE  RoundUp(a + b) = a + RoundUp(b)
  BY DEF RoundUp

LEMMA EvenBound ==
  ASSUME NEW a \in Nat, NEW b \in Nat, b % 2 = 0, a <= b
  PROVE  RoundUp(a) <= b
  BY DEF RoundUp

(* A sequence without its last element. *)
LEMMA DropLast ==
  ASSUME NEW S, NEW s \in Seq(S), s # << >>
  PROVE  /\ SubSeq(s, 1, Len(s) - 1) \in Seq(S)
         /\ Len(SubSeq(s, 1, Len(s) - 1)) = Len(s) - 1
         /\ \A i \in 1 .. Len(s) - 1 : SubSeq(s, 1, Len(s) - 1)[i] = s[i]
  <1>1. PICK n \in Nat : Len(s) = n + 1
    <2>1. Len(s) \in Nat /\ Len(s) # 0
      OBVIOUS
    <2>2. QED
      BY <2>1
  <1> DEFINE t == SubSeq(s, 1, n)
  <1>2. \A i \in 1 .. n : s[i] \in S
    BY <1>1
  <1>3. Len(t) = IF 1 <= n THEN n - 1 + 1 ELSE 0
    BY <1>2, SubSeqProperties
  <1>4. t \in Seq(S) /\ \A i \in 1 .. n : t[i] = s[i]
    BY <1>2, SubSeqProperties
  <1>5. Len(s) - 1 = n
    BY <1>1
  <1>6. QED
    BY <1>3, <1>4, <1>5

-----------------------------------------------------------------------------
(* The inductive invariant.  Sizes are spelled out as spans here, which is
   what makes it inductive: that the distance to the next body is the size
   follows from the layout, and only then does eviction move the right
   halfwords. *)
Placed(p) ==
  /\ codePtr[p] \in Nat
  /\ codePtr[p] % 2 = 0
  /\ ArenaStart <= codePtr[p]
  /\ codePtr[p] + Span(p) <= cursor
  /\ codePtr[p] + FinalLen(p) <= ArenaTop

Apart(p, q) == \/ codePtr[p] + Span(p) <= codePtr[q]
               \/ codePtr[q] + Span(q) <= codePtr[p]

Continued(p) == \/ codePtr[p] + Span(p) = cursor
                \/ \E q \in Residents : codePtr[q] = codePtr[p] + Span(p)

Layout ==
  /\ \A p \in Residents : Placed(p) /\ Continued(p)
  /\ \A p, q \in Residents : p # q => Apart(p, q)
  /\ cursor = ArenaStart \/ \E q \in Residents : codePtr[q] = ArenaStart

Contents ==
  \A p \in Residents : \A k \in 0 .. FinalLen(p) - 1 :
    mem[codePtr[p] + k] = Word(p, FinalWidth(p), k)

FloorBound == CodeLimit + InterruptReserve

FloorsBounded ==
  OverlapsStack =>
    /\ liveStackFloor <= FloorBound
    /\ \A i \in 1 .. Len(floors) : floors[i] <= FloorBound

Pending ==
  /\ target.proc \in Proc
  /\ target.off < FinalLen(target.proc)
  /\ ~IsResident(target.proc)
  /\ width = "wide" => target.proc \notin NarrowFits
  /\ buf = cursor
  /\ count <= AttemptLen
  /\ opened = 0 => count <= PrologueLen
  /\ count > 0 => cursor + count <= ArenaTop
  /\ \A k \in 0 .. count - 1 : mem[cursor + k] = Word(target.proc, width, k)

Running ==
  \E p \in Residents : \E k \in 0 .. FinalLen(p) - 1 : pc = codePtr[p] + k

Resumable(rec) == rec.proc \in Proc /\ rec.off < FinalLen(rec.proc)

Callers ==
  /\ Len(records) > 0
  /\ records[1] = Boot
  /\ \A i \in 2 .. Len(records) : Resumable(records[i])

Inv ==
  /\ TypeOK
  /\ ArenaStart <= cursor /\ cursor % 2 = 0
  /\ outerCursor = ArenaStart
  /\ mode = "idle" => cursor = ArenaStart /\ liveStackFloor = NoFloor
  /\ InExcursion => Layout /\ Contents /\ FloorsBounded /\ Callers
  /\ ~InExcursion => floors = << >> /\ records = << >> /\ target = Boot
  /\ mode = "run" => Running /\ target = Boot /\ floors = << >>
  /\ mode = "translate" => Pending

-----------------------------------------------------------------------------
(* Constants and lengths. *)
LEMMA ConstantTypes ==
  /\ CodeLimit \in Nat /\ StackLimit <= CodeLimit
  /\ ArenaStart \in Nat /\ ArenaStart % 2 = 0
  /\ ArenaEnd \in Nat /\ ArenaTop \in Nat
  /\ ~OverlapsStack => ArenaTop = ArenaEnd
  /\ OverlapsStack => ArenaTop = CodeLimit
  <1>1. RecordSize * (MaxCallDepth + 1) \in Nat
    BY CacheConstants
  <1>2. CodeLimit \in Nat /\ StackLimit <= CodeLimit
    BY <1>1, CacheConstants, ArenaConstants DEF CodeLimit
  <1>3. ArenaStart \in Nat /\ ArenaStart % 2 = 0
    BY ArenaConstants, RoundUpFacts DEF ArenaStart
  <1>4. ArenaEnd \in Nat
    BY ArenaConstants DEF ArenaEnd, RoundDown
  <1>5. QED
    BY <1>2, <1>3, <1>4 DEF ArenaTop

LEMMA LengthTypes ==
  ASSUME NEW p \in Proc
  PROVE  /\ NarrowLen[p] \in Nat \ {0} /\ WideLen[p] \in Nat \ {0}
         /\ FinalLen(p) \in Nat \ {0}
         /\ Span(p) \in Nat \ {0} /\ FinalLen(p) <= Span(p)
         /\ Span(p) % 2 = 0
         /\ PrologueLen <= NarrowLen[p] /\ PrologueLen <= WideLen[p]
  <1>1. NarrowLen[p] \in Nat \ {0} /\ WideLen[p] \in Nat \ {0}
    BY CacheConstants
  <1>2. FinalLen(p) \in Nat \ {0}
    BY <1>1 DEF FinalLen
  <1>3. QED
    BY <1>1, <1>2, RoundUpFacts, CacheConstants DEF Span

LEMMA CeilingWithinArena ==
  ASSUME Inv, InExcursion
  PROVE  Ceiling \in Int /\ Ceiling <= ArenaTop
  BY ConstantTypes, ArenaConstants
     DEF Inv, TypeOK, Ceiling, Lesser, FloorsBounded, FloorBound

(* Nothing below a step that leaves the arena and the slots alone. *)
LEMMA StableLayout ==
  ASSUME UNCHANGED << cursor, codePtr >>
  PROVE  (Layout' <=> Layout) /\ Residents' = Residents
  BY DEF Layout, Placed, Continued, Apart, Residents, IsResident

LEMMA StableContents ==
  ASSUME UNCHANGED << mem, codePtr >>
  PROVE  Contents' <=> Contents
  BY DEF Contents, Residents, IsResident

-----------------------------------------------------------------------------
(* Eviction.  The distance to the next body is what the victim occupies. *)
LEMMA OccupiedIsSpan ==
  ASSUME Inv, InExcursion, NEW v \in Residents
  PROVE  OccupiedSizeOf(v) = Span(v)
  <1> DEFINE e == codePtr[v] + Span(v)
             S == BoundsAbove(codePtr[v], cursor)
  <1>0. v \in Proc /\ Layout /\ cursor \in Nat
    BY DEF Residents, Inv, TypeOK
  <1>1. codePtr[v] \in Nat /\ Span(v) \in Nat \ {0} /\ e <= cursor
    BY <1>0, LengthTypes DEF Layout, Placed
  <1>2. S \subseteq Int
    BY <1>0 DEF Layout, Placed, BoundsAbove
  <1>3. e \in S
    <2>1. CASE e = cursor
      BY <2>1 DEF BoundsAbove
    <2>2. CASE e # cursor
      <3>1. PICK q \in Residents : codePtr[q] = e
        BY <1>0, <2>2 DEF Layout, Continued
      <3>2. codePtr[q] > codePtr[v]
        BY <3>1, <1>1
      <3>3. QED
        BY <3>1, <3>2 DEF BoundsAbove
    <2>3. QED
      BY <2>1, <2>2
  <1>4. ASSUME NEW c \in S PROVE e <= c
    <2>1. CASE c = cursor
      BY <2>1, <1>1
    <2>2. CASE c # cursor
      <3>1. PICK j \in Residents : codePtr[j] = c /\ codePtr[j] > codePtr[v]
        BY <1>4, <2>2 DEF BoundsAbove
      <3>2. j # v
        BY <3>1, <1>1
      <3>3. j \in Proc /\ codePtr[j] \in Nat /\ Span(j) \in Nat \ {0}
        BY <1>0, LengthTypes DEF Residents, Layout, Placed
      <3>4. Apart(v, j)
        BY <1>0, <3>2 DEF Layout
      <3>5. QED
        BY <3>1, <3>3, <3>4, <1>1 DEF Apart
    <2>3. QED
      BY <2>1, <2>2
  <1>5. NextResidentAbove(codePtr[v], cursor) = e
    BY <1>2, <1>3, <1>4 DEF NextResidentAbove
  <1>6. QED
    BY <1>1, <1>5 DEF OccupiedSizeOf

(* Where everything is after an eviction. *)
LEMMA EvictMoves ==
  ASSUME Inv, mode = "translate", NEW v \in Residents, Evict(v)
  PROVE  /\ cursor' = cursor - Span(v) /\ cursor' \in Nat
         /\ codePtr[v] <= cursor' /\ codePtr[v] \in Nat /\ Span(v) \in Nat \ {0}
         /\ Residents' = Residents \ {v}
         /\ \A i \in Residents' :
              \/ /\ codePtr[i] >= codePtr[v] + Span(v)
                 /\ codePtr'[i] = codePtr[i] - Span(v)
              \/ /\ codePtr[i] + Span(i) <= codePtr[v]
                 /\ codePtr'[i] = codePtr[i]
         /\ codePtr' \in [Proc -> Addr \cup {Trampoline}]
         /\ codePtr'[v] = Trampoline
         /\ \A i \in Proc \ Residents : codePtr'[i] = Trampoline
  <1>0. /\ InExcursion /\ Layout /\ v \in Proc /\ cursor \in Nat
        /\ codePtr \in [Proc -> Addr \cup {Trampoline}]
    BY DEF Inv, InExcursion, Residents, TypeOK
  <1> DEFINE s == Span(v)
             g == codePtr[v] + s
  <1>1. OccupiedSizeOf(v) = s
    BY <1>0, OccupiedIsSpan
  <1>2. /\ codePtr[v] \in Nat /\ s \in Nat \ {0} /\ g <= cursor
        /\ ArenaStart <= codePtr[v]
    BY <1>0, LengthTypes DEF Layout, Placed
  <1>3. cursor' = cursor - s
    BY <1>1 DEF Evict
  <1>4. codePtr' = [i \in Proc |->
                     IF i = v THEN Trampoline
                     ELSE IF IsResident(i) /\ codePtr[i] >= g
                       THEN codePtr[i] - s ELSE codePtr[i]]
    BY <1>1 DEF Evict, Retire
  <1>5. ASSUME NEW i \in Residents, i # v
        PROVE  /\ codePtr'[i] \in Addr
               /\ codePtr'[i] # Trampoline
               /\ \/ codePtr[i] >= g /\ codePtr'[i] = codePtr[i] - s
                  \/ codePtr[i] + Span(i) <= codePtr[v] /\ codePtr'[i] = codePtr[i]
    <2>1. /\ i \in Proc /\ codePtr[i] \in Nat /\ Span(i) \in Nat \ {0}
          /\ codePtr[i] \in Addr /\ Apart(i, v) /\ IsResident(i)
      BY <1>0, <1>5, LengthTypes DEF Residents, Layout, Placed, IsResident
    <2>2. \/ codePtr[i] >= g /\ codePtr'[i] = codePtr[i] - s
          \/ codePtr[i] + Span(i) <= codePtr[v] /\ codePtr'[i] = codePtr[i]
      BY <2>1, <1>2, <1>4, <1>5 DEF Apart
    <2>3. codePtr'[i] \in Addr
      BY <2>1, <2>2, <1>2, ConstantTypes DEF Addr
    <2>4. QED
      BY <2>2, <2>3, CacheConstants
  <1>6. codePtr'[v] = Trampoline
    BY <1>0, <1>4
  <1>7. ASSUME NEW i \in Proc \ Residents PROVE codePtr'[i] = Trampoline
    BY <1>4, <1>7 DEF Residents, IsResident
  <1>8. Residents' = Residents \ {v}
    BY <1>5, <1>6, <1>7 DEF Residents, IsResident
  <1>9. codePtr' \in [Proc -> Addr \cup {Trampoline}]
    BY <1>4, <1>5, <1>6, <1>7 DEF Residents
  <1>10. QED
    BY <1>0, <1>2, <1>3, <1>5, <1>6, <1>7, <1>8, <1>9

-----------------------------------------------------------------------------
(* One lemma per step. *)
LEMMA InitInv == Init => Inv
  <1> SUFFICES ASSUME Init PROVE Inv
    OBVIOUS
  <1>1. TypeOK
    <2>1. mem \in [Addr -> [proc : -1 .. ProcCount - 1,
                           width : {"none", "narrow", "wide"}, off : Nat]]
      BY TableConstants DEF Init, NoCode
    <2>2. Boot \in Record
      BY TableConstants DEF Boot, Record
    <2>3. QED
      BY <2>1, <2>2, ConstantTypes, ArenaConstants, TableConstants
         DEF Init, TypeOK, EmptyCodePtr, EmptyLastUsed, Tick, Outcome
  <1>2. QED
    BY <1>1, ConstantTypes DEF Init, Inv, InExcursion

(* Every way of landing: what the excursion had on the stack is gone. *)
LEMMA LandInv ==
  ASSUME Inv, mode \in {"run", "translate"}, NEW o \in Outcome, LandWith(o),
         UNCHANGED << arenaVars, tableVars >>
  PROVE  Inv'
  <1>1. TypeOK'
    <2>1. Boot \in Record
      BY TableConstants DEF Boot, Record
    <2>2. QED
      BY <2>1 DEF Inv, TypeOK, LandWith, arenaVars, tableVars
  <1>2. QED
    BY <1>1 DEF Inv, LandWith, arenaVars, InExcursion

LEMMA StartInv == Inv /\ Start => Inv'
  <1> SUFFICES ASSUME Inv, Start PROVE Inv'
    OBVIOUS
  <1>1. /\ mode = "idle" /\ mode' = "translate" /\ cursor = ArenaStart
        /\ cursor' = cursor /\ mem' = mem /\ outerCursor' = ArenaStart
        /\ records' = << Boot >> /\ floors' = << >> /\ opened' = 0
        /\ target' = [proc |-> 0, off |-> 0]
        /\ width' = "narrow" /\ buf' = cursor /\ count' = 0
        /\ codePtr' = EmptyCodePtr /\ lastUsed' = EmptyLastUsed
        /\ tick' = 1 % TickMod /\ pc' = pc /\ outcome' = "none"
        /\ trueAge' = [i \in Proc |-> 1]
    BY DEF Start, Inv, OpenExcursion, OpenAttempt, InExcursion
  <1>2. 0 \in Proc
    BY TableConstants DEF Proc
  <1>3. Boot \in Record /\ [proc |-> 0, off |-> 0] \in Record
    BY <1>2, TableConstants DEF Boot, Record, Proc
  <1>4. /\ liveStackFloor' = IF OverlapsStack THEN FloorBound ELSE liveStackFloor
        /\ FloorBound \in Nat
    BY ConstantTypes, ArenaConstants DEF Start, OpenExcursion, FloorBound
  <1>5. TypeOK'
    <2>1. tick' \in Tick
      BY <1>1, TableConstants DEF Tick
    <2>2. codePtr' \in [Proc -> Addr \cup {Trampoline}] /\ lastUsed' \in [Proc -> Tick]
      BY <1>1, TableConstants DEF EmptyCodePtr, EmptyLastUsed, Tick
    <2>3. liveStackFloor' \in Int
      BY <1>4 DEF Inv, TypeOK
    <2>4. records' \in Seq(Record)
      BY <1>1, <1>3
    <2>5. QED
      BY <1>1, <1>3, <2>1, <2>2, <2>3, <2>4, ConstantTypes DEF Inv, TypeOK, Outcome
  <1>6. Residents' = {}
    BY <1>1 DEF Residents, IsResident, EmptyCodePtr
  <1>7. Layout' /\ Contents'
    BY <1>1, <1>6 DEF Layout, Contents
  <1>8. FloorsBounded'
    BY <1>1, <1>4 DEF FloorsBounded, FloorBound
  <1>9. Callers'
    BY <1>1 DEF Callers
  <1>10. Pending'
    <2>1. 0 < FinalLen(0) /\ AttemptLen' \in Nat
      BY <1>1, <1>2, LengthTypes DEF AttemptLen
    <2>2. ~IsResident(0)'
      BY <1>1, <1>2 DEF IsResident, EmptyCodePtr
    <2>3. QED
      BY <1>1, <1>2, <2>1, <2>2, CacheConstants DEF Pending, IsResident
  <1>11. QED
    BY <1>1, <1>5, <1>7, <1>8, <1>9, <1>10, ConstantTypes DEF Inv, InExcursion

LEMMA LeaveInv == Inv /\ Leave => Inv'
  <1> SUFFICES ASSUME Inv, Leave PROVE Inv'
    OBVIOUS
  <1>1. /\ mode = "landed" /\ mode' = "idle" /\ cursor' = ArenaStart
        /\ liveStackFloor' = NoFloor
        /\ UNCHANGED << mem, codePtr, lastUsed, outcome, outerCursor, tick, pc,
                        records, trueAge, target, width, buf, count, floors,
                        opened >>
    BY DEF Leave, Inv, CloseExcursion, tableVars, controlVars, assemblerVars
  <1>2. TypeOK'
    BY <1>1, ConstantTypes, ArenaConstants DEF Inv, TypeOK
  <1>3. QED
    BY <1>1, <1>2, ConstantTypes DEF Inv, InExcursion

-----------------------------------------------------------------------------
(* Compiled code: pc is at a halfword of a resident body. *)
LEMMA AtResidentCode ==
  ASSUME Inv, mode = "run"
  PROVE  \E p \in Residents : \E k \in 0 .. FinalLen(p) - 1 :
           /\ pc = codePtr[p] + k
           /\ mem[pc] = Word(p, FinalWidth(p), k)
           /\ p \in Proc /\ codePtr[p] \in Nat /\ k \in Nat
  <1>1. Running /\ Contents /\ Layout
    BY DEF Inv, InExcursion
  <1>2. QED
    BY <1>1 DEF Running, Contents, Layout, Placed, Residents

LEMMA BranchInv == Inv /\ Branch => Inv'
  <1> SUFFICES ASSUME Inv, Branch PROVE Inv'
    OBVIOUS
  <1>1. /\ mode = "run" /\ InExcursion
        /\ UNCHANGED << mem, cursor, liveStackFloor, codePtr, lastUsed, mode,
                        outcome, outerCursor, tick, records, trueAge, target,
                        width, buf, count, floors, opened >>
    BY DEF Branch, arenaVars, tableVars, assemblerVars, InExcursion
  <1>2. PICK p \in Residents : \E k \in 0 .. FinalLen(p) - 1 :
           /\ pc = codePtr[p] + k
           /\ mem[pc] = Word(p, FinalWidth(p), k)
           /\ p \in Proc /\ codePtr[p] \in Nat /\ k \in Nat
    BY <1>1, AtResidentCode
  <1>3. PICK j \in 0 .. FinalLen(p) - 1 : pc' = codePtr[p] + j
    BY <1>2, LengthTypes DEF Branch, Word
  <1>4. Residents' = Residents /\ (Layout' <=> Layout) /\ (Contents' <=> Contents)
    BY <1>1, StableLayout, StableContents
  <1>5. Running' /\ pc' \in Nat
    BY <1>1, <1>2, <1>3, <1>4, LengthTypes DEF Running
  <1>6. TypeOK'
    BY <1>1, <1>5 DEF Inv, TypeOK
  <1>7. FloorsBounded' /\ Callers'
    BY <1>1 DEF Inv, FloorsBounded, Callers
  <1>8. QED
    BY <1>1, <1>4, <1>5, <1>6, <1>7 DEF Inv, InExcursion

(* Both helpers, given what they leave of the records. *)
LEMMA DispatchInv ==
  ASSUME Inv, mode = "run", NEW p \in Proc, NEW off \in Nat, off < FinalLen(p),
         Dispatch(p, off), records' \in Seq(Record), Callers'
  PROVE  Inv'
  <1>1. /\ InExcursion /\ target = Boot /\ floors = << >>
        /\ UNCHANGED << mem, cursor, liveStackFloor, codePtr, outcome, outerCursor >>
        /\ lastUsed' = [lastUsed EXCEPT ![p] = tick]
        /\ tick' = (tick + 1) % TickMod
    BY DEF Inv, Dispatch, arenaVars, InExcursion, StampUse
  <1>2. tick' \in Tick /\ lastUsed' \in [Proc -> Tick]
    BY <1>1, TableConstants DEF Inv, TypeOK, Tick
  <1>3. trueAge' \in [Proc -> Nat]
    BY TableConstants DEF Dispatch, Older, Lesser, Inv, TypeOK
  <1>4. Residents' = Residents /\ (Layout' <=> Layout) /\ (Contents' <=> Contents)
    BY <1>1, StableLayout, StableContents
  <1>5. CASE IsResident(p)
    <2>1. pc' = codePtr[p] + off /\ UNCHANGED << mode, target, width, buf, count, floors, opened >>
      BY <1>5 DEF Dispatch, assemblerVars
    <2>2. p \in Residents /\ codePtr[p] \in Nat
      BY <1>5, <1>1 DEF Residents, Inv, Layout, Placed
    <2>3. Running' /\ pc' \in Nat
      BY <2>1, <2>2, <1>1, <1>4, LengthTypes DEF Running
    <2>4. TypeOK'
      BY <1>1, <1>2, <1>3, <2>1, <2>3 DEF Inv, TypeOK
    <2>5. FloorsBounded'
      BY <1>1, <2>1 DEF Inv, FloorsBounded
    <2>6. QED
      BY <1>1, <1>4, <2>1, <2>3, <2>4, <2>5 DEF Inv, InExcursion
  <1>6. CASE ~IsResident(p)
    <2>1. /\ mode' = "translate" /\ pc' = 0
          /\ target' = [proc |-> p, off |-> off]
          /\ width' = "narrow" /\ buf' = cursor /\ count' = 0 /\ opened' = 0
          /\ floors' = floors
      BY <1>6 DEF Dispatch, OpenAttempt
    <2>2. target' \in Record
      BY <2>1, TableConstants DEF Record, Proc
    <2>3. TypeOK'
      BY <1>1, <1>2, <1>3, <2>1, <2>2 DEF Inv, TypeOK
    <2>4. FloorsBounded'
      BY <1>1, <2>1 DEF Inv, FloorsBounded
    <2>5. AttemptLen' \in Nat
      BY <2>1, LengthTypes DEF AttemptLen
    <2>6. Pending'
      BY <1>1, <1>6, <2>1, <2>5, CacheConstants DEF Pending, IsResident
    <2>7. QED
      BY <1>1, <1>4, <2>1, <2>3, <2>4, <2>6 DEF Inv, InExcursion
  <1>7. QED
    BY <1>5, <1>6

LEMMA CallInv == ASSUME NEW q \in Proc PROVE Inv /\ Call(q) => Inv'
  <1> SUFFICES ASSUME Inv, Call(q) PROVE Inv'
    OBVIOUS
  <1>1. mode = "run" /\ InExcursion /\ records \in Seq(Record) /\ Callers
    BY DEF Call, Inv, InExcursion, TypeOK
  <1>2. PICK p \in Residents : \E k \in 0 .. FinalLen(p) - 1 :
           /\ pc = codePtr[p] + k
           /\ mem[pc] = Word(p, FinalWidth(p), k)
           /\ p \in Proc /\ codePtr[p] \in Nat /\ k \in Nat
    BY <1>1, AtResidentCode
  <1> DEFINE rec == [proc |-> mem[pc].proc, off |-> mem[pc].off + 1]
  <1>3. rec \in Record /\ Resumable(rec) /\ records' = Append(records, rec)
    BY <1>2, TableConstants DEF Call, Word, Record, Resumable, Proc
  <1>4. records' \in Seq(Record) /\ Callers'
    <2>1. /\ Len(records') = Len(records) + 1 /\ records'[Len(records) + 1] = rec
          /\ \A i \in 1 .. Len(records) : records'[i] = records[i]
          /\ records' \in Seq(Record)
      BY <1>1, <1>3
    <2>2. QED
      BY <1>1, <1>3, <2>1 DEF Callers, Resumable
  <1>5. 0 < FinalLen(q) /\ Dispatch(q, 0)
    BY LengthTypes DEF Call
  <1>6. QED
    BY <1>1, <1>4, <1>5, DispatchInv

LEMMA ReturnInv == Inv /\ Return => Inv'
  <1> SUFFICES ASSUME Inv, Return PROVE Inv'
    OBVIOUS
  <1> DEFINE n == Len(records)
             rec == records[n]
  <1>1. mode = "run" /\ InExcursion /\ records \in Seq(Record) /\ Callers
    BY DEF Return, Inv, InExcursion, TypeOK
  <1>2. n \in Nat /\ n > 1 /\ Resumable(rec) /\ rec \in Record
    BY <1>1 DEF Return, Callers, Boot
  <1>3. records' = SubSeq(records, 1, n - 1)
    BY DEF Return
  <1>4. records' \in Seq(Record) /\ Callers'
    <2>1. /\ Len(records') = n - 1
          /\ \A i \in 1 .. n - 1 : records'[i] = records[i]
          /\ records' \in Seq(Record)
      BY <1>1, <1>2, <1>3
    <2>2. QED
      BY <1>1, <1>2, <2>1 DEF Callers, Resumable
  <1>5. /\ rec.proc \in Proc /\ rec.off \in Nat /\ rec.off < FinalLen(rec.proc)
        /\ Dispatch(rec.proc, rec.off)
    BY <1>2 DEF Resumable, Return, Record
  <1>6. QED
    BY <1>1, <1>4, <1>5, DispatchInv

-----------------------------------------------------------------------------
(* Emission. *)
LEMMA AttemptLenType ==
  ASSUME Inv, mode = "translate"
  PROVE  AttemptLen \in Nat \ {0} /\ PrologueLen <= AttemptLen
  BY LengthTypes DEF Inv, Pending, AttemptLen

LEMMA WordType ==
  ASSUME NEW p \in Proc, NEW w \in {"narrow", "wide"}, NEW k \in Nat
  PROVE  Word(p, w, k) \in [proc : -1 .. ProcCount - 1,
                            width : {"none", "narrow", "wide"}, off : Nat]
  BY TableConstants DEF Word, Proc

LEMMA EmitFitsInv == Inv /\ EmitFits => Inv'
  <1> SUFFICES ASSUME Inv, EmitFits PROVE Inv'
    OBVIOUS
  <1>1. /\ mode = "translate" /\ InExcursion /\ Pending /\ buf + count < Ceiling
        /\ buf' = cursor /\ count' = count + 1
        /\ mem' = [mem EXCEPT ![cursor + count] = NextWord]
        /\ UNCHANGED << cursor, liveStackFloor, codePtr, lastUsed, mode, outcome,
                        outerCursor, tick, pc, records, trueAge, target, width,
                        floors, opened >>
        /\ count < (IF opened = 0 THEN PrologueLen ELSE AttemptLen)
    BY DEF EmitFits, Emitting, Inv, InExcursion, tableVars, controlVars
  <1>2. /\ count \in Nat /\ cursor \in Nat /\ buf = cursor /\ opened \in Nat
        /\ ArenaStart <= cursor /\ target.proc \in Proc
        /\ PrologueLen \in Nat
    BY <1>1, CacheConstants DEF Inv, TypeOK, Pending
  <1>3. cursor + count \in Addr /\ cursor + count + 1 <= ArenaTop
    BY <1>1, <1>2, CeilingWithinArena, ConstantTypes DEF Addr
  <1>4. NextWord \in [proc : -1 .. ProcCount - 1,
                      width : {"none", "narrow", "wide"}, off : Nat]
    BY <1>1, <1>2, WordType DEF NextWord, Inv, TypeOK
  <1>5. TypeOK'
    BY <1>1, <1>2, <1>3, <1>4 DEF Inv, TypeOK
  <1>6. Residents' = Residents /\ (Layout' <=> Layout) /\ Layout
    BY <1>1, StableLayout DEF Inv
  <1>7. Contents'
    <2>1. SUFFICES ASSUME NEW p \in Residents, NEW k \in 0 .. FinalLen(p) - 1
                   PROVE  mem'[codePtr[p] + k] = Word(p, FinalWidth(p), k)
      BY <1>1, <1>6 DEF Contents
    <2>2. /\ codePtr[p] \in Nat /\ p \in Proc /\ codePtr[p] + FinalLen(p) <= cursor
          /\ ArenaStart <= codePtr[p]
      BY <1>2, <1>6, LengthTypes DEF Layout, Placed, Residents
    <2>3. codePtr[p] + k < cursor
      BY <1>2, <2>2, LengthTypes
    <2>4. mem[codePtr[p] + k] = Word(p, FinalWidth(p), k)
      BY <1>1 DEF Inv, Contents
    <2>5. codePtr[p] + k # cursor + count
      BY <2>2, <2>3, <1>2
    <2>6. codePtr[p] + k \in Addr
      BY <2>2, <2>3, <1>2, <1>3, ConstantTypes DEF Addr
    <2>7. mem \in [Addr -> [proc : -1 .. ProcCount - 1,
                            width : {"none", "narrow", "wide"}, off : Nat]]
      BY DEF Inv, TypeOK
    <2>8. QED
      BY <1>1, <2>4, <2>5, <2>6, <2>7
  <1>8. Pending'
    <2>1. AttemptLen' = AttemptLen /\ AttemptLen \in Nat /\ PrologueLen <= AttemptLen
      BY <1>1, AttemptLenType DEF AttemptLen
    <2>2. count' <= AttemptLen /\ (opened = 0 => count' <= PrologueLen)
      BY <1>1, <1>2, <2>1
    <2>3. ASSUME NEW k \in 0 .. count' - 1
          PROVE  mem'[cursor + k] = Word(target.proc, width, k)
      <3>1. cursor + k \in Addr /\ cursor + count \in Addr
        BY <1>1, <1>2, <1>3, ConstantTypes DEF Addr
      <3>2. mem \in [Addr -> [proc : -1 .. ProcCount - 1,
                              width : {"none", "narrow", "wide"}, off : Nat]]
        BY DEF Inv, TypeOK
      <3>3. CASE k = count
        BY <1>1, <3>1, <3>2, <3>3 DEF NextWord
      <3>4. CASE k # count
        <4>1. k \in 0 .. count - 1 /\ cursor + k # cursor + count
          BY <1>1, <1>2, <3>4
        <4>2. QED
          BY <1>1, <3>1, <3>2, <4>1 DEF Pending
      <3>5. QED
        BY <3>3, <3>4
    <2>4. QED
      BY <1>1, <1>2, <1>3, <2>1, <2>2, <2>3 DEF Pending, IsResident
  <1>9. FloorsBounded' /\ Callers'
    BY <1>1 DEF Inv, FloorsBounded, Callers
  <1>10. QED
    BY <1>1, <1>5, <1>6, <1>7, <1>8, <1>9 DEF Inv, InExcursion

(* The arena after the compaction and the halfword written into it. *)
LEMMA EvictedMem ==
  ASSUME Inv, NEW v \in Residents, EmitEvicting(v)
  PROVE  /\ cursor' + count \in Addr
         /\ mem'[cursor' + count] = NextWord
         /\ \A a \in Addr : a < codePtr[v] => mem'[a] = mem[a]
         /\ \A a \in Addr : codePtr[v] <= a /\ a < cursor' + count
                            => mem'[a] = mem[a + Span(v)]
         /\ mem' \in [Addr -> [proc : -1 .. ProcCount - 1,
                              width : {"none", "narrow", "wide"}, off : Nat]]
  <1> DEFINE s == Span(v)
             b == codePtr[v]
             Words == [proc : -1 .. ProcCount - 1,
                       width : {"none", "narrow", "wide"}, off : Nat]
             moved == MemAfterEvicting(v, buf + count)
  <1>1. /\ mode = "translate" /\ InExcursion /\ Pending /\ Evict(v)
        /\ buf = cursor /\ cursor + count = Ceiling
        /\ mem' = [moved EXCEPT ![cursor' + count] = NextWord]
    BY DEF EmitEvicting, Emitting, Inv, InExcursion, Pending
  <1>2. /\ count \in Nat /\ cursor \in Nat /\ target.proc \in Proc
        /\ mem \in [Addr -> Words] /\ width \in {"narrow", "wide"}
    BY <1>1 DEF Inv, TypeOK, Pending
  <1>3. /\ cursor' = cursor - s /\ codePtr[v] <= cursor' /\ codePtr[v] \in Nat
        /\ s \in Nat \ {0} /\ cursor' \in Nat
    BY <1>1, EvictMoves
  <1>4. ArenaStart <= codePtr[v] /\ ArenaStart \in Nat /\ ArenaTop \in Nat
        /\ cursor + count <= ArenaTop
    BY <1>1, ConstantTypes, CeilingWithinArena DEF Inv, Layout, Placed
  <1>5. cursor' + count \in Addr
    <2> DEFINE place == codePtr[v]
    <2>1. /\ place \in Nat /\ cursor' \in Nat /\ count \in Nat /\ cursor \in Nat
          /\ s \in Nat /\ ArenaStart \in Nat /\ ArenaTop \in Nat
          /\ ArenaStart <= place /\ place <= cursor' /\ cursor' = cursor - s
          /\ cursor + count <= ArenaTop /\ s > 0
      BY <1>2, <1>3, <1>4
    <2> HIDE DEF place, s
    <2>2. /\ cursor' + count \in Int /\ ArenaStart <= cursor' + count
          /\ cursor' + count < ArenaTop
      BY ONLY <2>1
    <2>3. QED
      BY <2>1, <2>2 DEF Addr
  <1>6. /\ moved = Compacted(mem, b, b + s, cursor + count)
        /\ b + (cursor + count - (b + s)) = cursor' + count
        /\ b + s - b = s
    <2>1. OccupiedSizeOf(v) = s
      BY <1>1, OccupiedIsSpan
    <2>2. moved = Compacted(mem, b, b + s, cursor + count)
      BY <1>1, <2>1 DEF MemAfterEvicting
    <2>3. QED
      BY <1>2, <1>3, <2>2
  <1>7. ASSUME NEW a \in Addr, b <= a, a < cursor' + count
        PROVE  a + s \in Addr
    <2>1. count \in Nat /\ cursor \in Nat
      BY <1>2
    <2>2. a \in Int /\ ArenaStart <= a
      BY <1>4 DEF Addr
    <2>3. a + s <= ArenaTop
      BY <2>1, <2>2, <1>3, <1>4, <1>7
    <2>4. QED
      BY <2>2, <2>3, <1>3, <1>4 DEF Addr
  <1>8. /\ moved \in [Addr -> Words]
        /\ \A a \in Addr : b <= a /\ a < cursor' + count => moved[a] = mem[a + s]
        /\ \A a \in Addr : a < b => moved[a] = mem[a]
    <2>1. cursor \in Nat /\ count \in Nat /\ b \in Nat /\ s \in Nat
      BY <1>2, <1>3
    <2>2. PICK e \in Nat, g \in Nat : /\ e = cursor + count /\ g = b + s
      BY <2>1
    <2>3. /\ b + (e - g) = cursor' + count /\ g - b = s
          /\ moved = Compacted(mem, b, g, e)
      <3>1. b + (e - g) = cursor' + count /\ g - b = s
        BY <2>1, <2>2, <1>3
      <3>2. moved = Compacted(mem, b, g, e)
        BY <1>6, <2>2, Zenon
      <3>3. QED
        BY <3>1, <3>2
    <2>4. Addr \subseteq Int
      BY ConstantTypes DEF Addr
    <2>5. mem \in [Addr -> Words]
      BY <1>2
    <2> HIDE DEF b, s, Words, moved
    <2>6. \A a \in Addr : b <= a /\ a < b + (e - g) => a + (g - b) \in Addr
      BY <2>3, <1>7
    <2>7. /\ Compacted(mem, b, g, e) \in [Addr -> Words]
          /\ \A a \in Addr : b <= a /\ a < b + (e - g)
                => Compacted(mem, b, g, e)[a] = mem[a + (g - b)]
          /\ \A a \in Addr : a < b => Compacted(mem, b, g, e)[a] = mem[a]
      BY <2>1, <2>4, <2>5, <2>6 DEF Compacted
    <2>8. QED
      BY <2>3, <2>7
  <1>9. NextWord \in Words
    BY <1>2, WordType DEF NextWord
  <1>10. mem' \in [Addr -> Words] /\ mem'[cursor' + count] = NextWord
    BY <1>1, <1>5, <1>8, <1>9
  <1>11. ASSUME NEW a \in Addr, a < cursor' + count PROVE mem'[a] = moved[a]
    BY <1>1, <1>2, <1>3, <1>8, <1>11 DEF Addr
  <1>12. ASSUME NEW a \in Addr, a < codePtr[v] PROVE mem'[a] = mem[a]
    <2>1. /\ a \in Int /\ cursor' \in Int /\ count \in Nat
          /\ codePtr[v] \in Int /\ codePtr[v] <= cursor' /\ a < codePtr[v]
      BY <1>2, <1>3, <1>4, <1>12 DEF Addr
    <2>2. a < cursor' + count /\ ~ (codePtr[v] <= a)
      BY <2>1, Below
    <2>3. moved[a] = mem[a]
      BY <1>8, <1>12
    <2>4. QED
      BY <2>2, <2>3, <1>11
  <1>13. ASSUME NEW a \in Addr, codePtr[v] <= a, a < cursor' + count
         PROVE  mem'[a] = mem[a + s]
    BY <1>8, <1>11, <1>13
  <1>14. QED
    BY <1>5, <1>10, <1>12, <1>13

(* The bodies that stay lie end to end again once the gap is closed. *)
LEMMA EvictedLayout ==
  ASSUME Inv, mode = "translate", NEW v \in Residents, Evict(v)
  PROVE  Layout'
  <1> DEFINE s == Span(v)
             b == codePtr[v]
  <1>1. /\ Layout /\ cursor \in Nat /\ ArenaStart \in Nat /\ ArenaTop \in Nat
    BY ConstantTypes DEF Inv, InExcursion, TypeOK
  <1>2. /\ cursor' = cursor - s /\ b <= cursor' /\ b \in Nat /\ s \in Nat \ {0}
        /\ Residents' = Residents \ {v}
    BY EvictMoves
  <1>3. ASSUME NEW i \in Residents'
        PROVE  /\ i \in Proc /\ i \in Residents /\ i # v
               /\ codePtr[i] \in Nat /\ Span(i) \in Nat \ {0}
               /\ FinalLen(i) \in Nat /\ Span(i) % 2 = 0
               /\ Placed(i) /\ Continued(i)
               /\ \/ codePtr[i] >= b + s /\ codePtr'[i] = codePtr[i] - s
                  \/ codePtr[i] + Span(i) <= b /\ codePtr'[i] = codePtr[i]
    <2>1. i \in Residents /\ i # v /\ i \in Proc
      BY <1>2 DEF Residents
    <2>2. QED
      BY <1>1, <2>1, LengthTypes, EvictMoves DEF Layout, Placed
  <1>4. b % 2 = 0 /\ s % 2 = 0 /\ v \in Proc /\ ArenaStart <= b /\ b + s <= cursor
        /\ Continued(v)
    BY <1>1, LengthTypes DEF Layout, Placed, Residents
  <1>5. ASSUME NEW i \in Residents' PROVE Placed(i)'
    <2>1. codePtr'[i] \in Nat /\ ArenaStart <= codePtr'[i]
          /\ codePtr'[i] + Span(i) <= cursor'
          /\ codePtr'[i] + FinalLen(i) <= ArenaTop
      BY <1>1, <1>2, <1>3, <1>4 DEF Placed
    <2>2. codePtr'[i] % 2 = 0
      BY <1>2, <1>3, <1>4, EvenDifference DEF Placed
    <2>3. QED
      BY <2>1, <2>2 DEF Placed, Span, FinalLen
  <1>6. ASSUME NEW i \in Residents', NEW j \in Residents', i # j PROVE Apart(i, j)'
    <2>1. Apart(i, j)
      BY <1>1, <1>3, <1>6 DEF Layout
    <2>2. \/ codePtr'[i] + Span(i) <= codePtr'[j]
          \/ codePtr'[j] + Span(j) <= codePtr'[i]
      BY <2>1, <1>2, <1>3 DEF Apart
    <2>3. QED
      BY <2>2 DEF Apart, Span, FinalLen
  <1> DEFINE Down(e) == IF e >= b + s THEN e - s ELSE e
             Starts(e) == e = cursor \/ \E q \in Residents : codePtr[q] = e
             StartsNow(e) == e = cursor' \/ \E q \in Residents' : codePtr'[q] = e
  <1>7. ASSUME NEW e \in Nat, e # b, Starts(e) PROVE StartsNow(Down(e))
    <2>1. CASE e = cursor
      BY <2>1, <1>1, <1>2, <1>4
    <2>2. CASE \E q \in Residents : codePtr[q] = e
      <3>1. PICK q \in Residents : codePtr[q] = e
        BY <2>2
      <3>2. q \in Residents'
        BY <3>1, <1>2, <1>7
      <3>3. /\ e \in Nat /\ Span(q) \in Nat
            /\ \/ e >= b + s /\ codePtr'[q] = e - s
               \/ e + Span(q) <= b /\ codePtr'[q] = e
        BY <3>1, <3>2, <1>3
      <3>4. codePtr'[q] = Down(e)
        BY <3>3, <1>2
      <3>5. QED
        BY <3>2, <3>4
    <2>3. QED
      BY <1>7, <2>1, <2>2
  <1>8. StartsNow(b)
    <2>1. Starts(b + s)
      BY <1>4 DEF Continued
    <2>2. b + s \in Nat /\ b + s # b /\ Down(b + s) = b
      BY <1>2
    <2>3. QED
      BY <2>1, <2>2, <1>7
  <1>9. ASSUME NEW e \in Nat, Starts(e) PROVE StartsNow(Down(e))
    <2>1. Down(b) = b
      BY <1>2
    <2>2. QED
      BY <2>1, <1>7, <1>8, <1>9
  <1>10. ASSUME NEW i \in Residents' PROVE Continued(i)'
    <2>1. Starts(codePtr[i] + Span(i)) /\ codePtr[i] + Span(i) \in Nat
      BY <1>3 DEF Continued
    <2>2. codePtr'[i] + Span(i) = Down(codePtr[i] + Span(i))
      BY <1>2, <1>3
    <2> HIDE DEF Down
    <2>3. StartsNow(codePtr'[i] + Span(i))
      BY <1>9, <2>1, <2>2
    <2>4. QED
      BY <2>3 DEF Continued, Span, FinalLen
  <1>11. StartsNow(ArenaStart)
    <2>1. Starts(ArenaStart)
      BY <1>1 DEF Layout
    <2>2. Down(ArenaStart) = ArenaStart
      BY <1>1, <1>2, <1>4
    <2>3. QED
      BY <1>1, <1>9, <2>1, <2>2
  <1>12. QED
    BY <1>5, <1>6, <1>10, <1>11 DEF Layout

LEMMA EmitEvictingInv ==
  ASSUME NEW v \in Proc PROVE Inv /\ EmitEvicting(v) => Inv'
  <1> SUFFICES ASSUME Inv, EmitEvicting(v) PROVE Inv'
    OBVIOUS
  <1> DEFINE s == Span(v)
             b == codePtr[v]
             Words == [proc : -1 .. ProcCount - 1,
                       width : {"none", "narrow", "wide"}, off : Nat]
  <1>1. /\ mode = "translate" /\ InExcursion /\ Pending /\ Evict(v)
        /\ v \in Residents /\ cursor + count = Ceiling
        /\ buf = cursor /\ buf' = cursor' /\ count' = count + 1
        /\ count < (IF opened = 0 THEN PrologueLen ELSE AttemptLen)
        /\ UNCHANGED << liveStackFloor, mode, outcome, outerCursor, tick, pc,
                        records, trueAge, target, width, floors, opened >>
    BY DEF EmitEvicting, Emitting, Inv, InExcursion, Pending,
           IsEvictionVictim, controlVars
  <1>2. /\ count \in Nat /\ cursor \in Nat /\ target.proc \in Proc
        /\ opened \in Nat /\ PrologueLen \in Nat
        /\ width \in {"narrow", "wide"} /\ cursor % 2 = 0
        /\ ArenaStart \in Nat /\ ArenaTop \in Nat
    BY <1>1, CacheConstants, ConstantTypes DEF Inv, TypeOK, Pending
  <1>3. /\ cursor' = cursor - s /\ b <= cursor' /\ b \in Nat
        /\ s \in Nat \ {0} /\ cursor' \in Nat /\ Residents' = Residents \ {v}
        /\ codePtr' \in [Proc -> Addr \cup {Trampoline}]
        /\ codePtr'[v] = Trampoline
        /\ \A i \in Proc \ Residents : codePtr'[i] = Trampoline
    BY <1>1, EvictMoves
  <1>4. /\ cursor' + count \in Addr
        /\ mem'[cursor' + count] = NextWord
        /\ \A a \in Addr : a < b => mem'[a] = mem[a]
        /\ \A a \in Addr : b <= a /\ a < cursor' + count => mem'[a] = mem[a + s]
        /\ mem' \in [Addr -> Words]
    BY <1>1, EvictedMem
  <1>5. Layout /\ Layout' /\ Contents
    BY <1>1, EvictedLayout DEF Inv
  <1>6. ArenaStart <= b /\ s % 2 = 0
    BY <1>1, <1>5, LengthTypes DEF Layout, Placed
  <1>7. TypeOK'
    <2>1. lastUsed' \in [Proc -> Tick]
      BY <1>1, TableConstants DEF Evict, Retire, Inv, TypeOK, Tick
    <2>2. count' \in Nat /\ buf' \in Nat
      BY <1>1, <1>2, <1>3
    <2>3. QED
      BY <1>1, <1>3, <1>4, <2>1, <2>2 DEF Inv, TypeOK
  <1>8. Contents'
    <2>1. SUFFICES ASSUME NEW p \in Residents', NEW k \in 0 .. FinalLen(p) - 1
                   PROVE  mem'[codePtr'[p] + k] = Word(p, FinalWidth(p), k)
      BY DEF Contents, FinalLen, FinalWidth, Word
    <2>2. p \in Residents /\ p \in Proc /\ k \in Nat /\ k < FinalLen(p)
          /\ FinalLen(p) \in Nat /\ FinalLen(p) <= Span(p) /\ Span(p) \in Nat
      BY <1>3, LengthTypes DEF Residents
    <2>3. mem[codePtr[p] + k] = Word(p, FinalWidth(p), k) /\ codePtr[p] \in Nat
      BY <1>5, <2>2 DEF Contents, Layout, Placed
    <2>4. /\ codePtr'[p] \in Nat /\ ArenaStart <= codePtr'[p]
          /\ codePtr'[p] + Span(p) <= cursor'
          /\ codePtr'[p] + FinalLen(p) <= ArenaTop
      BY <1>5 DEF Layout, Placed, Span, FinalLen
    <2>5. codePtr'[p] + k \in Addr /\ codePtr'[p] + k < cursor'
      BY <1>2, <1>3, <2>2, <2>4 DEF Addr
    <2>6. \/ codePtr[p] >= b + s /\ codePtr'[p] = codePtr[p] - s
          \/ codePtr[p] + Span(p) <= b /\ codePtr'[p] = codePtr[p]
      BY <1>1, EvictMoves
    <2>7. CASE codePtr[p] >= b + s /\ codePtr'[p] = codePtr[p] - s
      <3>1. /\ b <= codePtr'[p] + k /\ codePtr'[p] + k < cursor' + count
            /\ codePtr'[p] + k + s = codePtr[p] + k
        BY <2>2, <2>3, <2>4, <2>5, <2>7, <1>2, <1>3
      <3>2. mem'[codePtr'[p] + k] = mem[codePtr'[p] + k + s]
        BY <3>1, <2>5, <1>4
      <3>3. QED
        BY <3>1, <3>2, <2>3
    <2>8. CASE codePtr[p] + Span(p) <= b /\ codePtr'[p] = codePtr[p]
      <3>1. codePtr'[p] + k < b
        BY <2>2, <2>3, <2>8, <1>3
      <3>2. mem'[codePtr'[p] + k] = mem[codePtr'[p] + k]
        BY <3>1, <2>5, <1>4
      <3>3. QED
        BY <3>2, <2>3, <2>8
    <2>9. QED
      BY <2>6, <2>7, <2>8
  <1>9. Pending'
    <2>1. AttemptLen' = AttemptLen /\ AttemptLen \in Nat /\ PrologueLen <= AttemptLen
      BY <1>1, AttemptLenType DEF AttemptLen
    <2>2. count' <= AttemptLen /\ (opened = 0 => count' <= PrologueLen)
      BY <1>1, <1>2, <2>1
    <2>3. cursor' + count' <= ArenaTop
      <3>1. cursor + count <= ArenaTop
        BY <1>1, CeilingWithinArena
      <3>2. QED
        BY <3>1, <1>1, <1>2, <1>3
    <2>4. ASSUME NEW k \in 0 .. count' - 1
          PROVE  mem'[cursor' + k] = Word(target.proc, width, k)
      <3>1. CASE k = count
        BY <1>1, <1>4, <3>1 DEF NextWord
      <3>2. CASE k # count
        <4>1. k \in 0 .. count - 1 /\ k \in Nat
          BY <1>1, <1>2, <3>2
        <4>2. /\ b <= cursor' + k /\ cursor' + k < cursor' + count
              /\ cursor' + k + s = cursor + k
          BY <1>2, <1>3, <4>1
        <4>3. cursor' + k \in Addr
          <5>1. cursor' + count \in Nat /\ cursor' + count <= ArenaTop
            BY <1>2, <1>3, <1>4 DEF Addr
          <5>2. QED
            BY <5>1, <1>2, <1>3, <1>6, <4>1, <4>2 DEF Addr
        <4>4. mem'[cursor' + k] = mem[cursor' + k + s]
          BY <1>4, <4>2, <4>3
        <4>5. QED
          BY <1>1, <4>1, <4>2, <4>4 DEF Pending
      <3>3. QED
        BY <3>1, <3>2
    <2>5. ~IsResident(target.proc)'
      <3>1. target.proc \in Proc \ Residents
        BY <1>1 DEF Pending, Residents
      <3>2. QED
        BY <1>1, <1>3, <3>1 DEF IsResident
    <2>6. QED
      BY <1>1, <1>2, <2>1, <2>2, <2>3, <2>4, <2>5 DEF Pending, FinalLen
  <1>10. FloorsBounded' /\ Callers'
    BY <1>1 DEF Inv, FloorsBounded, Callers
  <1>11. cursor' % 2 = 0 /\ ArenaStart <= cursor'
    BY <1>2, <1>3, <1>6
  <1>12. QED
    BY <1>1, <1>5, <1>7, <1>8, <1>9, <1>10, <1>11 DEF Inv, InExcursion

LEMMA EmitPastCeilingInv == Inv /\ EmitPastCeiling => Inv'
  <1> SUFFICES ASSUME Inv, EmitPastCeiling PROVE Inv'
    OBVIOUS
  <1>1. /\ mode = "translate" /\ mode' = "overrun"
        /\ UNCHANGED << mem, cursor, liveStackFloor, codePtr, lastUsed, outcome,
                        outerCursor, tick, pc, records, trueAge, target, width,
                        buf, count, floors, opened >>
    BY DEF EmitPastCeiling, Emitting, arenaVars, tableVars, controlVars, assemblerVars
  <1>2. TypeOK' /\ FloorsBounded' /\ Callers'
    BY <1>1 DEF Inv, TypeOK, InExcursion, FloorsBounded, Callers
  <1>3. (Layout' <=> Layout) /\ (Contents' <=> Contents)
    BY <1>1, StableLayout, StableContents
  <1>4. QED
    BY <1>1, <1>2, <1>3 DEF Inv, InExcursion

-----------------------------------------------------------------------------
(* Guarded blocks. *)
LEMMA OpenBlockInv == Inv /\ OpenBlock => Inv'
  <1> SUFFICES ASSUME Inv, OpenBlock PROVE Inv'
    OBVIOUS
  <1>1. /\ mode = "translate" /\ InExcursion /\ Pending
        /\ floors' = Append(floors, liveStackFloor) /\ opened' = opened + 1
        /\ liveStackFloor' = Lesser(TranslatorSp - Margin, liveStackFloor)
        /\ UNCHANGED << mem, cursor, codePtr, lastUsed, mode, outcome,
                        outerCursor, tick, pc, records, trueAge, target, width,
                        buf, count >>
    BY DEF OpenBlock, OpeningBlock, PublishStackFloor, Inv, InExcursion,
           tableVars, controlVars
  <1>2. floors \in Seq(Int) /\ liveStackFloor \in Int /\ opened \in Nat
    BY DEF Inv, TypeOK
  <1>3. TranslatorSp - Margin \in Int
    <2>1. /\ RecordSize * Len(records) \in Int
          /\ LevelFrame * Len(floors) \in Int
      BY <1>2, CacheConstants DEF Inv, TypeOK
    <2>2. QED
      BY <2>1, CacheConstants DEF TranslatorSp
  <1>4. liveStackFloor' \in Int /\ liveStackFloor' <= liveStackFloor
    BY <1>1, <1>2, <1>3 DEF Lesser
  <1>5. /\ floors' \in Seq(Int) /\ Len(floors') = Len(floors) + 1
        /\ \A i \in 1 .. Len(floors) : floors'[i] = floors[i]
        /\ floors'[Len(floors) + 1] = liveStackFloor
    BY <1>1, <1>2
  <1>6. TypeOK'
    BY <1>1, <1>2, <1>4, <1>5 DEF Inv, TypeOK
  <1>7. FloorsBounded'
    <2>1. SUFFICES ASSUME OverlapsStack
                   PROVE  /\ liveStackFloor' <= FloorBound
                          /\ \A i \in 1 .. Len(floors') : floors'[i] <= FloorBound
      BY DEF FloorsBounded, FloorBound
    <2>2. /\ liveStackFloor <= FloorBound /\ FloorBound \in Int
          /\ \A i \in 1 .. Len(floors) : floors[i] <= FloorBound
      BY <1>1, <2>1, ConstantTypes, ArenaConstants DEF Inv, FloorsBounded, FloorBound
    <2>3. liveStackFloor' <= FloorBound
      BY <1>2, <1>4, <2>2
    <2>4. ASSUME NEW i \in 1 .. Len(floors') PROVE floors'[i] <= FloorBound
      <3>1. i \in 1 .. Len(floors) \/ i = Len(floors) + 1
        BY <1>2, <1>5
      <3>2. QED
        BY <1>5, <2>2, <3>1
    <2>5. QED
      BY <2>3, <2>4
  <1>8. (Layout' <=> Layout) /\ (Contents' <=> Contents) /\ Callers'
    BY <1>1, StableLayout, StableContents DEF Inv, Callers
  <1>9. Pending'
    BY <1>1, <1>2 DEF Pending, AttemptLen, IsResident, Word, FinalLen
  <1>10. QED
    BY <1>1, <1>6, <1>7, <1>8, <1>9 DEF Inv, InExcursion

LEMMA CloseBlockInv == Inv /\ CloseBlock => Inv'
  <1> SUFFICES ASSUME Inv, CloseBlock PROVE Inv'
    OBVIOUS
  <1> DEFINE n == Len(floors)
  <1>1. /\ mode = "translate" /\ InExcursion /\ Pending /\ floors # << >>
        /\ floors' = SubSeq(floors, 1, n - 1) /\ liveStackFloor' = floors[n]
        /\ UNCHANGED << mem, cursor, codePtr, lastUsed, mode, outcome,
                        outerCursor, tick, pc, records, trueAge, target, width,
                        buf, count, opened >>
    BY DEF CloseBlock, RetractStackFloor, Inv, InExcursion, tableVars, controlVars
  <1>2. floors \in Seq(Int) /\ n \in Nat /\ n >= 1 /\ floors[n] \in Int
    BY <1>1 DEF Inv, TypeOK
  <1>3. /\ floors' \in Seq(Int) /\ Len(floors') = n - 1
        /\ \A i \in 1 .. n - 1 : floors'[i] = floors[i]
    <2>1. /\ SubSeq(floors, 1, n - 1) \in Seq(Int)
          /\ Len(SubSeq(floors, 1, n - 1)) = n - 1
          /\ \A i \in 1 .. n - 1 : SubSeq(floors, 1, n - 1)[i] = floors[i]
      BY <1>1, <1>2, DropLast
    <2>2. QED
      BY <1>1, <2>1
  <1>4. TypeOK'
    BY <1>1, <1>2, <1>3 DEF Inv, TypeOK
  <1>5. FloorsBounded'
    BY <1>1, <1>2, <1>3 DEF Inv, FloorsBounded, FloorBound
  <1>6. (Layout' <=> Layout) /\ (Contents' <=> Contents) /\ Callers'
    BY <1>1, StableLayout, StableContents DEF Inv, Callers
  <1>7. Pending'
    BY <1>1 DEF Pending, AttemptLen, IsResident, Word, FinalLen
  <1>8. QED
    BY <1>1, <1>4, <1>5, <1>6, <1>7 DEF Inv, InExcursion

-----------------------------------------------------------------------------
(* The end of an attempt. *)
LEMMA FinalizeInv == Inv /\ Finalize => Inv'
  <1> SUFFICES ASSUME Inv, Finalize PROVE Inv'
    OBVIOUS
  <1>0. PICK p \in Proc : p = target.proc
    BY DEF Finalize, AttemptOver, Inv, Pending
  <1>1. /\ mode = "translate" /\ mode' = "run" /\ InExcursion /\ Pending
        /\ Layout /\ Contents /\ Callers
        /\ count = AttemptLen /\ AttemptFits /\ floors = << >>
        /\ cursor' = RoundUp(cursor + count) /\ buf = cursor
        /\ codePtr' = [codePtr EXCEPT ![p] = cursor]
        /\ pc' = codePtr'[p] + target.off
        /\ target' = Boot /\ width' = "narrow" /\ buf' = 0 /\ count' = 0
        /\ opened' = 0
        /\ UNCHANGED << mem, liveStackFloor, lastUsed, outcome, outerCursor,
                        tick, records, trueAge, floors >>
    BY <1>0 DEF Finalize, AttemptOver, Commit, MarkCompiled, OpenAttempt, Inv,
           InExcursion, Pending
  <1>2. /\ p \in Proc /\ cursor \in Nat /\ cursor % 2 = 0 /\ ArenaStart <= cursor
        /\ codePtr \in [Proc -> Addr \cup {Trampoline}]
        /\ ArenaStart \in Nat /\ ArenaTop \in Nat
        /\ target.off \in Nat /\ target.off < FinalLen(p)
        /\ p \notin Residents
    BY <1>0, <1>1, ConstantTypes DEF Inv, TypeOK, Pending, Residents, Record
  <1>3. /\ width = FinalWidth(p) /\ AttemptLen = FinalLen(p)
    BY <1>0, <1>1, <1>2 DEF AttemptFits, AttemptLen, FinalWidth, FinalLen, Pending,
                      Inv, TypeOK
  <1>4. /\ FinalLen(p) \in Nat \ {0} /\ Span(p) \in Nat \ {0}
        /\ FinalLen(p) <= Span(p) /\ Span(p) % 2 = 0
    BY <1>2, LengthTypes
  <1>5. cursor' = cursor + Span(p)
    BY <1>1, <1>2, <1>3, <1>4, RoundUpOfSum DEF Span
  <1>6. cursor' \in Nat /\ cursor' % 2 = 0 /\ ArenaStart <= cursor'
    BY <1>2, <1>4, <1>5, EvenDifference
  <1>7. cursor + FinalLen(p) <= ArenaTop
    BY <1>1, <1>3, <1>4 DEF Pending
  <1>8. cursor \in Addr /\ cursor # Trampoline
    <2>1. cursor \in Addr
      BY <1>2, <1>4, <1>7 DEF Addr
    <2>2. QED
      BY <2>1, CacheConstants
  <1>9. /\ codePtr'[p] = cursor
        /\ \A q \in Residents : q # p /\ codePtr'[q] = codePtr[q]
        /\ Residents' = Residents \cup {p}
    <2>1. codePtr'[p] = cursor
      BY <1>1, <1>2
    <2>2. \A q \in Proc : q # p => codePtr'[q] = codePtr[q]
      BY <1>1, <1>2
    <2>3. Residents' = Residents \cup {p}
      BY <2>1, <2>2, <1>2, <1>8 DEF Residents, IsResident
    <2>4. QED
      BY <2>1, <2>2, <2>3, <1>2 DEF Residents
  <1>10. codePtr' \in [Proc -> Addr \cup {Trampoline}]
    BY <1>1, <1>2, <1>8
  <1>11. \A q \in Residents :
           /\ q \in Proc /\ codePtr[q] \in Nat /\ Span(q) \in Nat \ {0}
           /\ FinalLen(q) \in Nat
           /\ codePtr[q] + Span(q) <= cursor
           /\ Placed(q) /\ Continued(q)
    BY <1>1, LengthTypes DEF Layout, Placed, Residents
  <1>12. Layout'
    <2>1. Placed(p)'
      BY <1>1, <1>2, <1>4, <1>5, <1>7, <1>9 DEF Placed, Span, FinalLen
    <2>2. Continued(p)'
      BY <1>5, <1>9 DEF Continued, Span, FinalLen
    <2>3. ASSUME NEW q \in Residents PROVE Placed(q)' /\ Continued(q)'
      <3>1. codePtr'[q] = codePtr[q] /\ cursor <= cursor'
        BY <1>2, <1>4, <1>5, <1>9
      <3>2. Placed(q)'
        BY <3>1, <1>2, <1>6, <1>11 DEF Placed, Span, FinalLen
      <3>3. CASE codePtr[q] + Span(q) = cursor
        BY <3>1, <3>2, <3>3, <1>9 DEF Continued, Span, FinalLen
      <3>4. CASE \E r \in Residents : codePtr[r] = codePtr[q] + Span(q)
        <4>1. PICK r \in Residents : codePtr[r] = codePtr[q] + Span(q)
          BY <3>4
        <4>2. r \in Residents' /\ codePtr'[r] = codePtr'[q] + Span(q)
          BY <4>1, <3>1, <1>9
        <4>3. QED
          BY <3>2, <4>2 DEF Continued, Span, FinalLen
      <3>5. QED
        BY <3>2, <3>3, <3>4, <1>11 DEF Continued
    <2>4. ASSUME NEW q \in Residents PROVE Apart(q, p)' /\ Apart(p, q)'
      <3>1. codePtr'[q] + Span(q) <= codePtr'[p]
        BY <1>9, <1>11
      <3>2. QED
        BY <3>1 DEF Apart, Span, FinalLen
    <2>5. ASSUME NEW q \in Residents, NEW r \in Residents, q # r
          PROVE  Apart(q, r)'
      <3>1. Apart(q, r)
        BY <1>1, <2>5 DEF Layout
      <3>2. QED
        BY <3>1, <1>9 DEF Apart, Span, FinalLen
    <2>6. \E q \in Residents' : codePtr'[q] = ArenaStart
      BY <1>1, <1>9 DEF Layout
    <2>7. QED
      BY <2>1, <2>2, <2>3, <2>4, <2>5, <2>6, <1>9 DEF Layout
  <1>13. Contents'
    <2>1. SUFFICES ASSUME NEW q \in Residents', NEW k \in 0 .. FinalLen(q) - 1
                   PROVE  mem[codePtr'[q] + k] = Word(q, FinalWidth(q), k)
      BY <1>1 DEF Contents, FinalLen, FinalWidth, Word
    <2>2. CASE q = p
      BY <1>0, <1>1, <1>3, <1>9, <2>2 DEF Pending
    <2>3. CASE q # p
      BY <1>1, <1>9, <2>3 DEF Contents
    <2>4. QED
      BY <2>2, <2>3
  <1>14. pc' = cursor + target.off /\ pc' \in Nat
    BY <1>1, <1>2, <1>9
  <1>15. Running'
    <2>1. target.off \in 0 .. FinalLen(p) - 1
      BY <1>2, <1>4
    <2>2. QED
      BY <1>9, <1>14, <2>1 DEF Running, FinalLen
  <1>16. TypeOK'
    <2>1. Boot \in Record
      BY TableConstants DEF Boot, Record
    <2>2. QED
      BY <1>1, <1>6, <1>10, <1>14, <2>1 DEF Inv, TypeOK
  <1>17. FloorsBounded' /\ Callers'
    BY <1>1 DEF Inv, FloorsBounded, Callers
  <1>18. QED
    BY <1>1, <1>6, <1>12, <1>13, <1>15, <1>16, <1>17 DEF Inv, InExcursion

LEMMA RetryWideInv == Inv /\ RetryWide => Inv'
  <1> SUFFICES ASSUME Inv, RetryWide PROVE Inv'
    OBVIOUS
  <1>1. /\ mode = "translate" /\ InExcursion /\ Pending
        /\ width = "narrow" /\ ~AttemptFits
        /\ width' = "wide" /\ buf' = cursor /\ count' = 0 /\ opened' = 0
        /\ UNCHANGED << mem, cursor, liveStackFloor, codePtr, lastUsed, mode,
                        outcome, outerCursor, tick, pc, records, trueAge,
                        target, floors >>
    BY DEF RetryWide, AttemptOver, OpenAttempt, Inv, InExcursion,
           arenaVars, tableVars, controlVars
  <1>2. target.proc \in Proc /\ target.proc \notin NarrowFits
    BY <1>1 DEF AttemptFits, Pending
  <1>3. TypeOK'
    BY <1>1 DEF Inv, TypeOK
  <1>4. (Layout' <=> Layout) /\ (Contents' <=> Contents)
    BY <1>1, StableLayout, StableContents
  <1>5. FloorsBounded' /\ Callers'
    BY <1>1 DEF Inv, FloorsBounded, Callers
  <1>6. AttemptLen' \in Nat
    BY <1>1, <1>2, LengthTypes DEF AttemptLen
  <1>7. Pending'
    BY <1>1, <1>2, <1>6, CacheConstants DEF Pending, IsResident, FinalLen
  <1>8. QED
    BY <1>1, <1>3, <1>4, <1>5, <1>7 DEF Inv, InExcursion

(* Every way out of an excursion lands. *)
LEMMA LandingInv ==
  Inv /\ (ReturnToLanding \/ Trap \/ Cancel \/ EmitExhausted
            \/ OpenBlockTooDeep \/ BranchRangeLimit) => Inv'
  <1> SUFFICES ASSUME Inv, ReturnToLanding \/ Trap \/ Cancel \/ EmitExhausted
                             \/ OpenBlockTooDeep \/ BranchRangeLimit
               PROVE  Inv'
    OBVIOUS
  <1>1. mode \in {"run", "translate"} /\ UNCHANGED << arenaVars, tableVars >>
    BY DEF ReturnToLanding, Trap, Cancel, EmitExhausted, Emitting,
           OpenBlockTooDeep, OpeningBlock, BranchRangeLimit, AttemptOver, Bail
  <1>2. \E o \in Outcome : LandWith(o)
    BY DEF ReturnToLanding, Trap, Cancel, EmitExhausted, OpenBlockTooDeep,
           BranchRangeLimit, Bail, Outcome
  <1>3. QED
    BY <1>1, <1>2, LandInv

-----------------------------------------------------------------------------
LEMMA NextInv == Inv /\ [Next]_vars => Inv'
  <1> SUFFICES ASSUME Inv, [Next]_vars PROVE Inv'
    OBVIOUS
  <1>1. CASE Start BY <1>1, StartInv
  <1>2. CASE Leave BY <1>2, LeaveInv
  <1>3. CASE Branch BY <1>3, BranchInv
  <1>4. CASE \E q \in Proc : Call(q) BY <1>4, CallInv
  <1>5. CASE Return BY <1>5, ReturnInv
  <1>6. CASE EmitFits BY <1>6, EmitFitsInv
  <1>7. CASE \E v \in Proc : EmitEvicting(v) BY <1>7, EmitEvictingInv
  <1>8. CASE EmitPastCeiling BY <1>8, EmitPastCeilingInv
  <1>9. CASE OpenBlock BY <1>9, OpenBlockInv
  <1>10. CASE CloseBlock BY <1>10, CloseBlockInv
  <1>11. CASE Finalize BY <1>11, FinalizeInv
  <1>12. CASE RetryWide BY <1>12, RetryWideInv
  <1>13. CASE ReturnToLanding \/ Trap \/ Cancel \/ EmitExhausted
                \/ OpenBlockTooDeep \/ BranchRangeLimit
    BY <1>13, LandingInv
  <1>14. CASE UNCHANGED vars
    <2>1. /\ UNCHANGED << mem, cursor, liveStackFloor, codePtr, lastUsed, mode,
                          outcome, outerCursor, tick, pc, records, trueAge,
                          target, width, buf, count, floors, opened >>
      BY <1>14 DEF vars, arenaVars, tableVars, controlVars, assemblerVars
    <2>2. TypeOK' /\ (InExcursion' <=> InExcursion)
      BY <2>1 DEF Inv, TypeOK, InExcursion
    <2>3. (Layout' <=> Layout) /\ (Contents' <=> Contents)
      BY <2>1, StableLayout, StableContents
    <2>4. (FloorsBounded' <=> FloorsBounded) /\ (Callers' <=> Callers)
      BY <2>1 DEF FloorsBounded, Callers
    <2>5. (Running' <=> Running) /\ (Pending' <=> Pending)
      BY <2>1 DEF Running, Pending, Residents, IsResident, AttemptLen
    <2>6. QED
      BY <2>1, <2>2, <2>3, <2>4, <2>5 DEF Inv
  <1>15. QED
    BY <1>1, <1>2, <1>3, <1>4, <1>5, <1>6, <1>7, <1>8, <1>9, <1>10, <1>11,
       <1>12, <1>13, <1>14 DEF Next, Execute, Translate, Emit

(* The invariant holds of every reachable state. *)
THEOREM Invariance == Spec => []Inv
  BY InitInv, NextInv, PTL DEF Spec

(* Every variable keeps its type; for mem and codePtr this says that nothing
   is ever written, and no slot ever points, outside the arena
   (Assembler::doEmit, DispatchTable). *)
THEOREM TypeCorrect == Spec => []TypeOK
  <1>1. Inv => TypeOK
    BY DEF Inv
  <1>2. QED
    BY <1>1, Invariance, PTL

(* A body the dispatch table calls compiled is in the arena in full, whatever
   has been evicted, slid and recompiled since (Runtime::evict). *)
THEOREM ResidentsStayIntact == Spec => []ResidentsIntact
  <1>1. Inv => ResidentsIntact
    BY DEF Inv, ResidentsIntact, Contents
  <1>2. QED
    BY <1>1, Invariance, PTL

(* Bodies lie end to end from the start of the arena to the cursor, so that
   the size evict computes from the next slot is the size of the body
   (Runtime::occupiedSizeOf, DispatchTable::nextResidentAbove). *)
THEOREM BodiesArePacked == Spec => []PackedEndToEnd
  <1>1. ASSUME Inv, InExcursion PROVE NextResidentAbove(ArenaStart - 1, cursor) = ArenaStart
    <2> DEFINE S == BoundsAbove(ArenaStart - 1, cursor)
    <2>1. Layout /\ cursor \in Nat /\ ArenaStart \in Nat /\ ArenaStart <= cursor
      BY <1>1, ConstantTypes DEF Inv, TypeOK
    <2>2. ArenaStart \in S
      BY <2>1 DEF BoundsAbove, Layout, Placed
    <2>3. ASSUME NEW c \in S PROVE ArenaStart <= c /\ c \in Nat
      BY <2>1 DEF BoundsAbove, Layout, Placed
    <2>4. QED
      BY <2>1, <2>2, <2>3 DEF NextResidentAbove
  <1>2. ASSUME Inv, InExcursion, NEW p \in Residents
        PROVE  /\ codePtr[p] >= ArenaStart
               /\ codePtr[p] + OccupiedSizeOf(p) <= cursor
               /\ OccupiedSizeOf(p) = RoundUp(FinalLen(p))
               /\ codePtr[p] % 2 = 0
    <2>1. OccupiedSizeOf(p) = Span(p)
      BY <1>2, OccupiedIsSpan
    <2>2. Placed(p) /\ ArenaStart \in Nat
      BY <1>2, ConstantTypes DEF Inv, Layout
    <2>3. QED
      BY <2>1, <2>2 DEF Placed, Span
  <1>3. Inv => PackedEndToEnd
    BY <1>1, <1>2 DEF PackedEndToEnd
  <1>4. QED
    BY <1>3, Invariance, PTL

(* What is being emitted survives the evictions it causes, where it will be
   committed (Assembler::ensureSpace). *)
THEOREM BufferStaysIntact == Spec => []BufferIntact
  <1>1. Inv => BufferIntact
    BY DEF Inv, BufferIntact, Pending
  <1>2. QED
    BY <1>1, Invariance, PTL

(* Between runs the arena is as the first run found it, however the last one
   ended (CodeArena::Excursion). *)
THEOREM ArenaHandedBack == Spec => []HandsBackArena
  <1>1. Inv => HandsBackArena
    BY DEF Inv, HandsBackArena
  <1>2. QED
    BY <1>1, Invariance, PTL

-----------------------------------------------------------------------------
(* The refinement: what is being executed is never lost, and every step is a
   call, a return, a branch, an entry, a landing, a departure or nothing. *)
Here == IF mode = "run" THEN Executing ELSE target

LEMMA DispatchArrives ==
  ASSUME Inv, mode = "run", NEW p \in Proc, NEW off \in Nat, off < FinalLen(p),
         Dispatch(p, off)
  PROVE  /\ Here' = [proc |-> p, off |-> off]
         /\ mode' \in {"run", "translate"} /\ outcome' = outcome
  <1>1. Contents /\ Layout /\ UNCHANGED << mem, codePtr, outcome >>
    BY DEF Inv, InExcursion, Dispatch, arenaVars
  <1>2. CASE IsResident(p)
    <2>1. pc' = codePtr[p] + off /\ mode' = "run"
      BY <1>2 DEF Dispatch
    <2>2. p \in Residents /\ off \in 0 .. FinalLen(p) - 1
      BY <1>2, LengthTypes DEF Residents
    <2>3. mem[codePtr[p] + off] = Word(p, FinalWidth(p), off)
      BY <1>1, <2>2 DEF Contents
    <2>4. QED
      BY <1>1, <2>1, <2>3 DEF Here, Executing, Word
  <1>3. CASE ~IsResident(p)
    BY <1>1, <1>3 DEF Dispatch, Here
  <1>4. QED
    BY <1>2, <1>3

LEMMA BranchRefines == Inv /\ Branch => Promise!Branch
  <1> SUFFICES ASSUME Inv, Branch PROVE Promise!Branch
    OBVIOUS
  <1>1. /\ mode = "run" /\ Contents
        /\ UNCHANGED << mem, mode, records, outcome >>
    BY DEF Branch, Inv, InExcursion, arenaVars
  <1>2. PICK p \in Residents : \E k \in 0 .. FinalLen(p) - 1 :
           /\ pc = codePtr[p] + k
           /\ mem[pc] = Word(p, FinalWidth(p), k)
           /\ p \in Proc /\ codePtr[p] \in Nat /\ k \in Nat
    BY <1>1, AtResidentCode
  <1>3. PICK j \in 0 .. FinalLen(p) - 1 : pc' = codePtr[p] + j
    BY <1>2, LengthTypes DEF Branch, Word
  <1>4. Executing.proc = p /\ Executing' = [proc |-> p, off |-> j]
    <2>1. mem[codePtr[p] + j] = Word(p, FinalWidth(p), j)
      BY <1>1 DEF Contents
    <2>2. Executing' = [proc |-> p, off |-> j]
      BY <1>1, <1>3, <2>1 DEF Executing, Word
    <2>3. Executing.proc = p
      BY <1>2 DEF Executing, Word
    <2>4. QED
      BY <2>2, <2>3
  <1>5. Executing' = [Executing EXCEPT !.off = j]
    BY <1>2, <1>4 DEF Executing, Word
  <1>6. QED
    BY <1>1, <1>2, <1>3, <1>4, <1>5 DEF Promise!Branch

LEMMA CallRefines == ASSUME NEW q \in Proc PROVE Inv /\ Call(q) => Promise!Call
  <1> SUFFICES ASSUME Inv, Call(q) PROVE Promise!Call
    OBVIOUS
  <1>1. /\ mode = "run" /\ Len(records) <= MaxCallDepth /\ Dispatch(q, 0)
        /\ mem[pc].off + 1 < FinalLen(mem[pc].proc)
        /\ records' = Append(records, [proc |-> mem[pc].proc, off |-> mem[pc].off + 1])
    BY DEF Call
  <1>2. /\ Here' = [proc |-> q, off |-> 0]
        /\ mode' \in {"run", "translate"} /\ outcome' = outcome
    BY <1>1, LengthTypes, DispatchArrives
  <1>3. PICK p \in Proc : Executing.proc = p
    <2>1. PICK r \in Residents, k \in Nat :
             mem[pc] = Word(r, FinalWidth(r), k) /\ r \in Proc
      BY <1>1, AtResidentCode
    <2>2. Executing.proc = r
      BY <2>1 DEF Executing, Word
    <2>3. QED
      BY <2>1, <2>2
  <1>4. /\ Executing.off + 1 < FinalLen(p)
        /\ records' = Append(records, [Executing EXCEPT !.off = @ + 1])
    BY <1>1, <1>3 DEF Executing
  <1>5. QED
    BY <1>1, <1>2, <1>3, <1>4 DEF Promise!Call, Here

LEMMA ReturnRefines == Inv /\ Return => Promise!Return
  <1> SUFFICES ASSUME Inv, Return PROVE Promise!Return
    OBVIOUS
  <1> DEFINE n == Len(records)
             rec == records[n]
  <1>1. /\ mode = "run" /\ Callers /\ records \in Seq(Record) /\ rec.proc # -1
        /\ records' = SubSeq(records, 1, n - 1) /\ Dispatch(rec.proc, rec.off)
    BY DEF Return, Inv, InExcursion, TypeOK
  <1>2. n > 1 /\ Resumable(rec) /\ rec \in Record
    BY <1>1 DEF Callers, Boot
  <1>3. /\ Here' = [proc |-> rec.proc, off |-> rec.off]
        /\ mode' \in {"run", "translate"} /\ outcome' = outcome
    BY <1>1, <1>2, DispatchArrives DEF Resumable, Record
  <1>4. Here' = rec
    BY <1>2, <1>3 DEF Record
  <1>5. QED
    BY <1>1, <1>2, <1>3, <1>4 DEF Promise!Return, Here

LEMMA LandRefines ==
  ASSUME Inv, mode \in {"run", "translate"},
         NEW o \in {"returned", "trapped", "cancelled", "exhausted_arena",
                    "exhausted_translator_stack", "branch_range"},
         LandWith(o), o = "returned" => Len(records) = 1
  PROVE  Promise!Land
  <1>1. /\ mode' = "landed" /\ target' = Boot /\ records' = << >> /\ outcome' = o
    BY DEF LandWith
  <1>2. QED
    BY <1>1 DEF Promise!Land, Promise!Nowhere, Boot

LEMMA LandingRefines ==
  Inv /\ (ReturnToLanding \/ Trap \/ Cancel \/ EmitExhausted
            \/ OpenBlockTooDeep \/ BranchRangeLimit) => Promise!Land
  <1>1. ASSUME Inv, ReturnToLanding PROVE Promise!Land
    <2>1. mode = "run" /\ LandWith("returned") /\ records[Len(records)].proc = -1
      BY <1>1 DEF ReturnToLanding
    <2>2. Callers /\ records \in Seq(Record)
      BY <1>1, <2>1 DEF Inv, InExcursion, TypeOK
    <2>3. Len(records) = 1
      <3>1. Len(records) \in Nat /\ Len(records) > 0
        BY <2>2 DEF Callers
      <3>2. ASSUME Len(records) > 1 PROVE FALSE
        <4>1. records[Len(records)].proc \in Proc
          BY <2>2, <3>1, <3>2 DEF Callers, Resumable
        <4>2. QED
          BY <2>1, <4>1, TableConstants DEF Proc
      <3>3. QED
        BY <3>1, <3>2
    <2>4. QED
      BY <1>1, <2>1, <2>3, LandRefines
  <1>2. ASSUME Inv, Trap \/ Cancel \/ EmitExhausted \/ OpenBlockTooDeep
                      \/ BranchRangeLimit
        PROVE  Promise!Land
    <2>1. mode \in {"run", "translate"}
      BY <1>2 DEF Trap, Cancel, EmitExhausted, Emitting, OpenBlockTooDeep,
                  OpeningBlock, BranchRangeLimit, AttemptOver
    <2>2. PICK o \in {"trapped", "cancelled", "exhausted_arena",
                      "exhausted_translator_stack", "branch_range"} : LandWith(o)
      BY <1>2 DEF Trap, Cancel, EmitExhausted, OpenBlockTooDeep,
                  BranchRangeLimit, Bail
    <2>3. QED
      BY <1>2, <2>1, <2>2, LandRefines
  <1>3. QED
    BY <1>1, <1>2

LEMMA TranslatingStutters ==
  Inv /\ (EmitFits \/ (\E v \in Proc : EmitEvicting(v)) \/ EmitPastCeiling
            \/ OpenBlock \/ CloseBlock \/ RetryWide) => UNCHANGED Promise!vars
  <1> SUFFICES ASSUME Inv, EmitFits \/ (\E v \in Proc : EmitEvicting(v))
                             \/ EmitPastCeiling \/ OpenBlock \/ CloseBlock
                             \/ RetryWide
               PROVE  UNCHANGED Promise!vars
    OBVIOUS
  <1>1. /\ mode = "translate" /\ mode' \in {"translate", "overrun"}
        /\ UNCHANGED << target, records, outcome >>
    BY DEF EmitFits, EmitEvicting, EmitPastCeiling, OpenBlock, CloseBlock,
           RetryWide, Emitting, OpeningBlock, AttemptOver, controlVars,
           assemblerVars
  <1>2. QED
    BY <1>1 DEF Promise!vars

LEMMA FinalizeStutters == Inv /\ Finalize => UNCHANGED Promise!vars
  <1> SUFFICES ASSUME Inv, Finalize PROVE UNCHANGED Promise!vars
    OBVIOUS
  <1>1. PICK p \in Proc : p = target.proc
    BY DEF Finalize, AttemptOver, Inv, Pending
  <1>2. /\ mode = "translate" /\ mode' = "run" /\ Pending
        /\ codePtr' = [codePtr EXCEPT ![p] = cursor]
        /\ pc' = codePtr'[p] + target.off
        /\ UNCHANGED << mem, records, outcome >>
        /\ count = AttemptLen /\ AttemptFits
    BY <1>1 DEF Finalize, AttemptOver, Commit, MarkCompiled, Inv, Pending
  <1>3. /\ codePtr'[p] = cursor /\ target \in Record
        /\ target.off \in Nat /\ target.off < FinalLen(p)
    BY <1>1, <1>2 DEF Inv, TypeOK, Pending, Record
  <1>4. AttemptLen = FinalLen(p)
    BY <1>1, <1>2 DEF AttemptFits, AttemptLen, FinalLen, Pending, Inv, TypeOK
  <1>5. mem[cursor + target.off] = Word(p, width, target.off)
    <2>1. target.off \in 0 .. count - 1
      BY <1>2, <1>3, <1>4, <1>1, LengthTypes
    <2>2. QED
      BY <1>1, <1>2, <2>1 DEF Pending
  <1>6. Executing' = target
    BY <1>1, <1>2, <1>3, <1>5 DEF Executing, Word, Record
  <1>7. QED
    BY <1>2, <1>6 DEF Promise!vars

LEMMA NextRefines == Inv /\ [Next]_vars => [Promise!Next]_(Promise!vars)
  <1> SUFFICES ASSUME Inv, [Next]_vars
               PROVE  Promise!Next \/ UNCHANGED Promise!vars
    OBVIOUS
  <1>1. CASE Start
    <2>1. /\ mode = "idle" /\ mode' = "translate" /\ records' = << Boot >>
          /\ target' = [proc |-> 0, off |-> 0] /\ outcome' = "none"
      BY <1>1 DEF Start
    <2>2. Promise!Enter
      BY <2>1 DEF Promise!Enter, Promise!Nowhere, Boot
    <2>3. QED
      BY <2>2 DEF Promise!Next
  <1>2. CASE Leave
    <2>1. /\ mode = "landed" /\ mode' = "idle"
          /\ UNCHANGED << target, records, outcome >>
      BY <1>2 DEF Leave, controlVars, assemblerVars
    <2>2. Promise!Leave
      BY <2>1 DEF Promise!Leave
    <2>3. QED
      BY <2>2 DEF Promise!Next
  <1>3. CASE Branch
    BY <1>3, BranchRefines DEF Promise!Next
  <1>4. CASE \E q \in Proc : Call(q)
    BY <1>4, CallRefines DEF Promise!Next
  <1>5. CASE Return
    BY <1>5, ReturnRefines DEF Promise!Next
  <1>6. CASE ReturnToLanding \/ Trap \/ Cancel \/ EmitExhausted
               \/ OpenBlockTooDeep \/ BranchRangeLimit
    BY <1>6, LandingRefines DEF Promise!Next
  <1>7. CASE EmitFits \/ (\E v \in Proc : EmitEvicting(v)) \/ EmitPastCeiling
               \/ OpenBlock \/ CloseBlock \/ RetryWide
    BY <1>7, TranslatingStutters
  <1>8. CASE Finalize
    BY <1>8, FinalizeStutters
  <1>9. CASE UNCHANGED vars
    <2>1. UNCHANGED << mem, mode, pc, target, records, outcome >>
      BY <1>9 DEF vars, arenaVars, controlVars, assemblerVars
    <2>2. QED
      BY <2>1 DEF Promise!vars, Executing
  <1>10. QED
    BY <1>1, <1>2, <1>3, <1>4, <1>5, <1>6, <1>7, <1>8, <1>9
       DEF Next, Execute, Translate, Emit

(* A program cannot tell that its procedures are compiled on demand, evicted,
   slid and compiled again: every execution is one of calls and returns over
   code that is always there (runtime.S, Runtime, translateProc). *)
THEOREM CacheIsInvisible == Spec => ImplementsCallReturn
  <1>1. Init => Promise!Init
    BY DEF Init, Promise!Init, Promise!Nowhere, Boot
  <1>2. QED
    BY <1>1, NextRefines, Invariance, PTL DEF Spec, ImplementsCallReturn, Promise!Spec

-----------------------------------------------------------------------------
(* Room: how far code may come up to meet the stack, and what has to go when
   there is no more.                                                        *)

(* Every floor that is live, or will be put back, leaves the interrupt its
   room above the committed code; the outermost one is the code limit's. *)
FloorsClear ==
  OverlapsStack =>
    /\ cursor + InterruptReserve <= liveStackFloor
    /\ \A i \in 1 .. Len(floors) : cursor + InterruptReserve <= floors[i]
    /\ IF floors = << >> THEN liveStackFloor = FloorBound
                         ELSE floors[1] = FloorBound

Room == InExcursion => cursor <= ArenaEnd /\ FloorsClear

(* A shared arena's top is a word boundary. *)
AlignedTop == OverlapsStack => CodeLimit % 2 = 0

LEMMA ArenaEnds ==
  ASSUME AlignedTop
  PROVE  /\ ArenaEnd \in Nat /\ ArenaEnd % 2 = 0 /\ ArenaTop % 2 = 0
         /\ ArenaTop \in Nat /\ ArenaStart \in Nat
         /\ ArenaStart <= ArenaTop /\ ArenaTop <= ArenaEnd
         /\ OverlapsStack => ArenaTop + InterruptReserve = FloorBound
  <1>1. ArenaEnd \in Nat /\ ArenaEnd % 2 = 0
    BY ArenaConstants DEF ArenaEnd, RoundDown
  <1>2. CASE OverlapsStack
    <2>1. ArenaTop = CodeLimit /\ CodeLimit \in Nat /\ CodeLimit % 2 = 0
          /\ Base <= CodeLimit
      BY <1>2, ConstantTypes, ArenaConstants DEF AlignedTop
    <2>2. ArenaStart <= CodeLimit
      BY <2>1, ArenaConstants, EvenBound DEF ArenaStart
    <2>3. CodeLimit <= ArenaEnd
      <3>1. CodeLimit < NoFloor
        BY <1>2, <2>1, ArenaConstants, CacheConstants
      <3>2. QED
        BY <1>2, <2>1, <3>1, ArenaConstants DEF ArenaEnd, RoundDown
    <2>4. QED
      BY <1>1, <2>1, <2>2, <2>3, ConstantTypes DEF FloorBound
  <1>3. CASE ~OverlapsStack
    <2>1. ArenaTop = ArenaEnd
      BY <1>3, ConstantTypes
    <2>2. ArenaStart <= ArenaEnd
      BY <1>3, ArenaConstants DEF ArenaStart, ArenaEnd, RoundUp, RoundDown
    <2>3. QED
      BY <1>1, <1>3, <2>1, <2>2, ConstantTypes
  <1>4. QED
    BY <1>2, <1>3

LEMMA RoomSteps ==
  ASSUME AlignedTop, Inv, Room, [Next]_vars
  PROVE  Room'
  <1>0. /\ cursor \in Nat /\ InterruptReserve \in Nat /\ liveStackFloor \in Int
        /\ floors \in Seq(Int) /\ FloorBound \in Nat
    BY ConstantTypes, ArenaConstants DEF Inv, TypeOK, FloorBound
  <1>1. CASE Start
    <2>1. /\ cursor' = ArenaStart /\ floors' = << >>
          /\ OverlapsStack => liveStackFloor' = FloorBound
      BY <1>1 DEF Start, OpenExcursion, Inv, InExcursion, FloorBound
    <2>2. QED
      BY <2>1, ArenaEnds, ArenaConstants DEF Room, FloorsClear, FloorBound
  <1>2. CASE UNCHANGED << cursor, liveStackFloor, floors >> /\ InExcursion
    BY <1>2 DEF Room, FloorsClear, FloorBound
  <1>3. CASE ~InExcursion'
    BY <1>3 DEF Room
  <1>4. ASSUME NEW v \in Proc, EmitEvicting(v) PROVE Room'
    <2>1. /\ InExcursion /\ mode = "translate" /\ v \in Residents /\ Evict(v)
          /\ UNCHANGED << liveStackFloor, floors >>
      BY <1>4 DEF EmitEvicting, Emitting, InExcursion, IsEvictionVictim
    <2>2. cursor' \in Nat /\ cursor' <= cursor
      BY <1>0, <2>1, EvictMoves
    <2>3. cursor' <= ArenaEnd
      BY <1>0, <2>1, <2>2, ArenaEnds DEF Room
    <2>4. ASSUME OverlapsStack
          PROVE  /\ cursor' + InterruptReserve <= liveStackFloor'
                 /\ \A i \in 1 .. Len(floors') : cursor' + InterruptReserve <= floors'[i]
      <3>1. ASSUME NEW f \in Int, cursor + InterruptReserve <= f
            PROVE  cursor' + InterruptReserve <= f
        <4>1. PICK c \in Nat, d \in Nat, r \in Nat :
                c = cursor /\ d = cursor' /\ r = InterruptReserve
          BY <1>0, <2>2
        <4>2. d <= c /\ c + r <= f
          BY <2>2, <3>1, <4>1
        <4>3. d + r <= f
          BY <4>2
        <4>4. QED
          BY <4>1, <4>3
      <3>2. cursor + InterruptReserve <= liveStackFloor
        BY <2>1, <2>4 DEF Room, FloorsClear
      <3>3. \A i \in 1 .. Len(floors) : cursor + InterruptReserve <= floors[i]
        BY <2>1, <2>4 DEF Room, FloorsClear
      <3>4. \A i \in 1 .. Len(floors) : floors[i] \in Int
        BY <1>0
      <3>5. liveStackFloor \in Int
        BY <1>0
      <3>6. QED
        BY <2>1, <3>1, <3>2, <3>3, <3>4, <3>5
    <2>5. QED
      BY <2>1, <2>3, <2>4 DEF Room, FloorsClear, FloorBound
  <1>5. CASE OpenBlock
    <2>1. /\ InExcursion /\ UNCHANGED cursor
          /\ floors' = Append(floors, liveStackFloor)
          /\ liveStackFloor' = Lesser(TranslatorSp - Margin, liveStackFloor)
          /\ TranslatorSp > StackFloorThreshold(Margin)
      BY <1>5 DEF OpenBlock, OpeningBlock, InExcursion, PublishStackFloor
    <2>2. /\ Len(floors') = Len(floors) + 1 /\ Len(floors) \in Nat
          /\ \A i \in 1 .. Len(floors) : floors'[i] = floors[i]
          /\ floors'[Len(floors) + 1] = liveStackFloor
      BY <1>0, <2>1
    <2>3. TranslatorSp \in Int
      <3>1. RecordSize * Len(records) \in Int /\ LevelFrame * Len(floors) \in Int
        BY <1>0, CacheConstants DEF Inv, TypeOK
      <3>2. QED
        BY <3>1, CacheConstants DEF TranslatorSp
    <2>4. SUFFICES ASSUME OverlapsStack PROVE FloorsClear'
      BY <2>1 DEF Room, FloorsClear
    <2>5. /\ cursor + InterruptReserve <= liveStackFloor
          /\ \A i \in 1 .. Len(floors) : cursor + InterruptReserve <= floors[i]
          /\ IF floors = << >> THEN liveStackFloor = FloorBound
                               ELSE floors[1] = FloorBound
      BY <2>1, <2>4 DEF Room, FloorsClear
    <2>6. cursor <= HardFloor /\ HardFloor \in Nat
      BY <1>0, <2>4, ArenaConstants DEF HardFloor
    <2>7. cursor + InterruptReserve <= liveStackFloor'
      BY <1>0, <2>1, <2>3, <2>5, <2>6, CacheConstants DEF StackFloorThreshold, Lesser
    <2>8. ASSUME NEW i \in 1 .. Len(floors')
          PROVE  cursor + InterruptReserve <= floors'[i]
      <3>1. i \in 1 .. Len(floors) \/ i = Len(floors) + 1
        BY <2>2
      <3>2. QED
        BY <2>2, <2>5, <3>1
    <2>9. floors' # << >> /\ floors'[1] = FloorBound
      <3>1. CASE floors = << >>
        BY <2>1, <2>5, <3>1
      <3>2. CASE floors # << >>
        <4>1. 1 \in 1 .. Len(floors)
          BY <1>0, <3>2
        <4>2. QED
          BY <2>2, <2>5, <3>2, <4>1
      <3>3. QED
        BY <3>1, <3>2
    <2>10. QED
      BY <2>1, <2>7, <2>8, <2>9 DEF FloorsClear, FloorBound
  <1>6. CASE CloseBlock
    <2> DEFINE n == Len(floors)
    <2>1. /\ InExcursion /\ UNCHANGED cursor /\ floors # << >>
          /\ floors' = SubSeq(floors, 1, n - 1) /\ liveStackFloor' = floors[n]
      BY <1>6 DEF CloseBlock, InExcursion, RetractStackFloor
    <2>2. SUFFICES ASSUME OverlapsStack PROVE FloorsClear'
      BY <2>1 DEF Room, FloorsClear
    <2>3. /\ \A i \in 1 .. Len(floors) : cursor + InterruptReserve <= floors[i]
          /\ floors[1] = FloorBound
      BY <2>1, <2>2 DEF Room, FloorsClear
    <2>4. n \in Nat /\ n >= 1
      BY <1>0, <2>1
    <2>5. Len(floors') = n - 1 /\ \A i \in 1 .. n - 1 : floors'[i] = floors[i]
      <3>1. /\ Len(SubSeq(floors, 1, n - 1)) = n - 1
            /\ \A i \in 1 .. n - 1 : SubSeq(floors, 1, n - 1)[i] = floors[i]
        BY <1>0, <2>1, DropLast
      <3>2. QED
        BY <2>1, <3>1
    <2>6. cursor + InterruptReserve <= liveStackFloor'
      BY <2>1, <2>3, <2>4
    <2>7. \A i \in 1 .. Len(floors') : cursor + InterruptReserve <= floors'[i]
      BY <2>3, <2>4, <2>5
    <2>8. IF floors' = << >> THEN liveStackFloor' = FloorBound
                             ELSE floors'[1] = FloorBound
      <3>1. CASE floors' = << >>
        <4>1. n = 1
          BY <2>4, <2>5, <3>1
        <4>2. QED
          BY <2>1, <2>3, <3>1, <4>1
      <3>2. CASE floors' # << >>
        <4>1. floors' \in Seq(Int)
          BY <1>6, CloseBlockInv DEF Inv, TypeOK
        <4>2. 1 \in 1 .. n - 1
          BY <2>4, <2>5, <3>2, <4>1
        <4>3. QED
          BY <2>3, <2>5, <3>2, <4>2
      <3>3. QED
        BY <3>1, <3>2
    <2>9. QED
      BY <2>1, <2>6, <2>7, <2>8 DEF FloorsClear, FloorBound
  <1>7. CASE Finalize
    <2>1. /\ InExcursion /\ Pending /\ floors = << >> /\ floors' = << >>
          /\ cursor' = RoundUp(cursor + count) /\ UNCHANGED liveStackFloor
          /\ count \in Nat /\ count > 0
      BY <1>7, AttemptLenType
         DEF Finalize, AttemptOver, Commit, Inv, InExcursion, Pending
    <2>2. cursor + count <= ArenaTop
      BY <2>1 DEF Pending
    <2>3. cursor' <= ArenaTop /\ cursor' \in Nat
      <3>1. cursor + count \in Nat
        BY <1>0, <2>1
      <3>2. ArenaTop \in Nat /\ ArenaTop % 2 = 0
        BY ArenaEnds
      <3>3. RoundUp(cursor + count) <= ArenaTop
        BY <2>2, <3>1, <3>2, EvenBound
      <3>4. RoundUp(cursor + count) \in Nat
        BY <3>1, RoundUpFacts
      <3>5. QED
        BY <2>1, <3>3, <3>4
    <2>4. cursor' <= ArenaEnd
      BY <2>3, ArenaEnds
    <2>5. ASSUME OverlapsStack
          PROVE  /\ cursor' + InterruptReserve <= liveStackFloor'
                 /\ liveStackFloor' = FloorBound
      <3>1. liveStackFloor = FloorBound
        BY <2>1, <2>5 DEF Room, FloorsClear
      <3>2. QED
        BY <1>0, <2>1, <2>3, <2>5, <3>1, ArenaEnds
    <2>6. QED
      BY <2>1, <2>4, <2>5 DEF Room, FloorsClear, FloorBound
  <1>8. CASE Branch \/ (\E q \in Proc : Call(q)) \/ Return \/ EmitFits
               \/ EmitPastCeiling \/ RetryWide \/ UNCHANGED vars
    <2>1. UNCHANGED << cursor, liveStackFloor, floors >>
      BY <1>8 DEF Branch, Call, Return, Dispatch, EmitFits, EmitPastCeiling,
                  RetryWide, arenaVars, assemblerVars, vars
    <2>2. InExcursion \/ ~InExcursion'
      BY <1>8 DEF Branch, Call, Return, EmitFits, EmitPastCeiling, RetryWide,
                  Emitting, AttemptOver, InExcursion, vars
    <2>3. QED
      BY <2>1, <2>2, <1>2, <1>3
  <1>9. CASE Leave \/ ReturnToLanding \/ Trap \/ Cancel \/ EmitExhausted
               \/ OpenBlockTooDeep \/ BranchRangeLimit
    <2>1. ~InExcursion'
      BY <1>9 DEF Leave, ReturnToLanding, Trap, Cancel, EmitExhausted,
                  OpenBlockTooDeep, BranchRangeLimit, Bail, LandWith, InExcursion
    <2>2. QED
      BY <2>1, <1>3
  <1>10. QED
    BY <1>1, <1>4, <1>5, <1>6, <1>7, <1>8, <1>9 DEF Next, Execute, Translate, Emit

(* Committed code never reaches the line the stack needs it to stay under,
   provided the top of a shared arena is a word boundary: commit rounds up,
   and CodeArena does not round a shared arena's end down. *)
THEOREM CommittedStaysBelow ==
  ASSUME AlignedTop
  PROVE  Spec => []CommittedBelowCeiling
  <1>1. Init => Room
    BY DEF Init, Room, InExcursion
  <1>2. Inv /\ Room /\ [Next]_vars => Room'
    BY RoomSteps
  <1>3. Inv /\ Room => CommittedBelowCeiling
    BY ArenaConstants, ArenaEnds
       DEF Inv, TypeOK, Room, FloorsClear, CommittedBelowCeiling, Ceiling, Lesser
  <1>4. QED
    BY <1>1, <1>2, <1>3, Invariance, PTL DEF Spec

(* In a region of its own, code being emitted never is past the end of the
   arena: ensureSpace's assertion holds (Assembler::ensureSpace). *)
THEOREM RegionNeverOverrun ==
  ASSUME ~OverlapsStack
  PROVE  Spec => []NeverPastCeiling
  <1>1. AlignedTop
    BY DEF AlignedTop
  <1>2. Init => Room /\ NeverPastCeiling
    BY DEF Init, Room, InExcursion, NeverPastCeiling
  <1>3. ASSUME Inv, Room, NeverPastCeiling, [Next]_vars PROVE NeverPastCeiling'
    <2>1. ASSUME EmitPastCeiling PROVE FALSE
      <3>1. /\ Pending /\ buf + count > Ceiling /\ mode = "translate"
            /\ count \in Nat /\ cursor \in Nat
        BY <1>3, <2>1 DEF EmitPastCeiling, Emitting, Inv, TypeOK
      <3>2. Ceiling = ArenaEnd /\ ArenaTop = ArenaEnd /\ cursor <= ArenaEnd
        BY <1>3, <3>1, ConstantTypes DEF Ceiling, Room, InExcursion
      <3>3. QED
        BY <3>1, <3>2, ConstantTypes DEF Pending
    <2>2. CASE UNCHANGED vars
      BY <1>3, <2>2 DEF vars, NeverPastCeiling
    <2>3. CASE Next /\ ~EmitPastCeiling
      BY <1>3, <2>3
         DEF Next, Execute, Translate, Emit, Start, Leave, Branch, Call, Return,
             ReturnToLanding, Trap, Cancel, EmitFits, EmitEvicting,
             EmitExhausted, OpenBlock, OpenBlockTooDeep, CloseBlock, Finalize,
             RetryWide, BranchRangeLimit, Bail, LandWith, Dispatch,
             NeverPastCeiling
    <2>4. QED
      BY <1>3, <2>1, <2>2, <2>3
  <1>4. Inv /\ Room /\ [Next]_vars => Room'
    BY <1>1, RoomSteps
  <1>5. QED
    BY <1>2, <1>3, <1>4, Invariance, PTL DEF Spec

-----------------------------------------------------------------------------
(* Ages are differences of ticks, and a tick wraps. *)
LEMMA TickDifference ==
  ASSUME NEW m \in Nat \ {0}, NEW t \in 0 .. m - 1, NEW u \in 0 .. m - 1
  PROVE  ((t - u) % m) = IF u <= t THEN t - u ELSE (t - u) + m
  <1> DEFINE d == t - u
             r == (d % m)
             q == d \div m
  <1>1. d \in Int /\ d < m /\ d > 0 - m /\ (u <= t <=> d >= 0)
    OBVIOUS
  <1> HIDE DEF d
  <1>2. r \in 0 .. m - 1 /\ q \in Int /\ d = m * q + r
    BY <1>1
  <1> HIDE DEF r, q
  <1>3. ~ q >= 1
    <2> SUFFICES ASSUME q >= 1 PROVE FALSE
      OBVIOUS
    <2>1. m * q >= m * 1
      BY <1>2
    <2> QED
      BY <1>1, <1>2, <2>1
  <1>4. ~ q <= 0 - 2
    <2> SUFFICES ASSUME q <= 0 - 2 PROVE FALSE
      OBVIOUS
    <2>1. m * q <= m * (0 - 2)
      BY <1>2
    <2>2. m * (0 - 2) = 0 - (m + m)
      OBVIOUS
    <2> QED
      BY <1>1, <1>2, <2>1, <2>2
  <1>5. q = 0 \/ q = 0 - 1
    BY <1>2, <1>3, <1>4
  <1>6. CASE q = 0
    <2>1. m * q = 0
      BY <1>6
    <2> QED
      BY <1>1, <1>2, <2>1 DEF d, r
  <1>7. CASE q = 0 - 1
    <2>1. m * q = 0 - m
      BY <1>7
    <2> QED
      BY <1>1, <1>2, <2>1 DEF d, r
  <1> QED
    BY <1>5, <1>6, <1>7

LEMMA TickAdvances ==
  ASSUME NEW m \in Nat \ {0}, NEW t \in 0 .. m - 1
  PROVE  ((t + 1) % m) = IF t + 1 < m THEN t + 1 ELSE 0
  <1>1. CASE t + 1 < m
    BY <1>1
  <1>2. CASE ~ t + 1 < m
    <2>1. t + 1 = m
      BY <1>2
    <2> QED
      BY <1>2, <2>1
  <1> QED
    BY <1>1, <1>2

LEMMA AgeAdvances ==
  ASSUME NEW m \in Nat \ {0}, NEW t \in 0 .. m - 1, NEW u \in 0 .. m - 1
  PROVE  /\ ((t - u) % m) + 1 < m => ((((t + 1) % m) - u) % m) = ((t - u) % m) + 1
         /\ 1 < m => ((((t + 1) % m) - t) % m) = 1
  <1> DEFINE n == ((t + 1) % m)
  <1>1. n = IF t + 1 < m THEN t + 1 ELSE 0
    BY TickAdvances
  <1>2. n \in 0 .. m - 1
    BY <1>1
  <1> HIDE DEF n
  <1>3. ((n - u) % m) = IF u <= n THEN n - u ELSE (n - u) + m
    BY <1>2, TickDifference
  <1>4. ((n - t) % m) = IF t <= n THEN n - t ELSE (n - t) + m
    BY <1>2, TickDifference
  <1>5. ((t - u) % m) = IF u <= t THEN t - u ELSE (t - u) + m
    BY TickDifference
  <1> QED
    BY <1>1, <1>2, <1>3, <1>4, <1>5 DEF n


(* Until a whole turn of the tick has passed, the age the victim search sees is
   the number of dispatches since the last one to that procedure. *)
Aged(i) == /\ trueAge[i] <= TickMod
           /\ trueAge[i] < TickMod => Age(i, tick) = trueAge[i]

InUse(i) == IsResident(i) \/ target.proc = i

Ages == InExcursion => \A i \in Proc : InUse(i) => Aged(i)

LEMMA AgedType ==
  ASSUME Inv, NEW i \in Proc
  PROVE  /\ TickMod \in Nat \ {0} /\ tick \in 0 .. TickMod - 1
         /\ lastUsed[i] \in 0 .. TickMod - 1 /\ trueAge[i] \in Nat
  BY TableConstants DEF Inv, TypeOK, Tick

(* Steps that stamp nothing. *)
LEMMA AgesKept ==
  ASSUME Ages, InExcursion, UNCHANGED << tick, lastUsed, trueAge >>,
         \A i \in Proc : InUse(i)' => InUse(i)
  PROVE  Ages'
  BY DEF Ages, Aged, Age

LEMMA AgesDispatched ==
  ASSUME Inv, Ages, InExcursion, NEW p \in Proc, NEW off \in Nat, Dispatch(p, off),
         target.proc \notin Proc
  PROVE  Ages'
  <1>1. /\ lastUsed' = [lastUsed EXCEPT ![p] = tick]
        /\ tick' = (tick + 1) % TickMod
        /\ trueAge' = [i \in Proc |-> IF i = p THEN 1 ELSE Older(trueAge[i])]
        /\ codePtr' = codePtr
        /\ target' = target \/ target'.proc = p
    BY DEF Dispatch, StampUse, assemblerVars
  <1>2. SUFFICES ASSUME NEW i \in Proc, InUse(i)' PROVE Aged(i)'
    BY DEF Ages
  <1>3. /\ TickMod \in Nat \ {0} /\ tick \in 0 .. TickMod - 1
        /\ lastUsed[i] \in 0 .. TickMod - 1 /\ trueAge[i] \in Nat
    BY AgedType
  <1>4. lastUsed \in [Proc -> Tick]
    BY DEF Inv, TypeOK
  <1>5. CASE i = p
    <2>1. lastUsed'[i] = tick /\ trueAge'[i] = 1
      BY <1>1, <1>4, <1>5
    <2>2. 1 < TickMod => (((tick + 1) % TickMod) - tick) % TickMod = 1
      BY <1>3, AgeAdvances
    <2> QED
      BY <1>1, <1>3, <2>1, <2>2 DEF Aged, Age
  <1>6. CASE i # p
    <2>1. lastUsed'[i] = lastUsed[i] /\ trueAge'[i] = Older(trueAge[i])
      BY <1>1, <1>4, <1>6
    <2>2. InUse(i)
      BY <1>1, <1>2, <1>6 DEF InUse, IsResident
    <2>3. Aged(i)
      BY <2>2 DEF Ages
    <2>4. ((tick - lastUsed[i]) % TickMod) + 1 < TickMod
            => (((tick + 1) % TickMod) - lastUsed[i]) % TickMod
               = ((tick - lastUsed[i]) % TickMod) + 1
      BY <1>3, AgeAdvances
    <2> DEFINE a == trueAge[i]
               old == (tick - lastUsed[i]) % TickMod
               new == ((((tick + 1) % TickMod) - lastUsed[i]) % TickMod)
    <2>5. /\ a \in Nat /\ a <= TickMod /\ (a < TickMod => old = a)
          /\ (old + 1 < TickMod => new = old + 1)
      BY <1>3, <2>3, <2>4 DEF Aged, Age
    <2>6. Age(i, tick)' = new /\ trueAge'[i] = IF a + 1 < TickMod THEN a + 1 ELSE TickMod
      BY <1>1, <2>1 DEF Age, Older, Lesser
    <2> HIDE DEF a, old, new
    <2>7. a + 1 < TickMod => new = a + 1
      BY <1>3, <2>5
    <2> QED
      BY <1>3, <2>5, <2>6, <2>7 DEF Aged
  <1> QED
    BY <1>5, <1>6

LEMMA AgesStart == Inv /\ Start => Ages'
  <1> SUFFICES ASSUME Inv, Start PROVE Ages'
    OBVIOUS
  <1>1. /\ lastUsed' = [i \in Proc |-> 0] /\ tick' = (0 + 1) % TickMod
        /\ trueAge' = [i \in Proc |-> 1]
    BY DEF Start, EmptyLastUsed
  <1>2. SUFFICES ASSUME NEW i \in Proc PROVE Aged(i)'
    BY DEF Ages
  <1>3. TickMod \in Nat \ {0} /\ 0 \in 0 .. TickMod - 1
    BY TableConstants
  <1>4. 1 < TickMod => (((0 + 1) % TickMod) - 0) % TickMod = 1
    BY <1>3, AgeAdvances
  <1> QED
    BY <1>1, <1>3, <1>4 DEF Aged, Age

LEMMA AgesEvicted ==
  ASSUME Inv, Ages, NEW v \in Proc, EmitEvicting(v)
  PROVE  Ages'
  <1>1. /\ mode = "translate" /\ InExcursion /\ v \in Residents /\ Evict(v)
        /\ UNCHANGED << tick, trueAge, target >>
    BY DEF EmitEvicting, Emitting, IsEvictionVictim, InExcursion, controlVars
  <1>2. Residents' = Residents \ {v}
    BY <1>1, EvictMoves
  <1>3. lastUsed' = [lastUsed EXCEPT ![v] = 0] /\ lastUsed \in [Proc -> Tick]
    BY <1>1 DEF Evict, Retire, Inv, TypeOK
  <1>4. target.proc # v
    BY <1>1 DEF Inv, Pending, Residents
  <1>5. ASSUME NEW i \in Proc, InUse(i)' PROVE Aged(i)'
    <2>1. i # v /\ InUse(i)
      BY <1>1, <1>2, <1>4, <1>5 DEF InUse, Residents, IsResident
    <2>2. Aged(i) /\ lastUsed'[i] = lastUsed[i]
      BY <1>1, <1>3, <2>1 DEF Ages
    <2> QED
      BY <1>1, <2>2 DEF Aged, Age
  <1> QED
    BY <1>5 DEF Ages

LEMMA AgesSteps ==
  ASSUME Inv, Ages, [Next]_vars
  PROVE  Ages'
  <1>1. CASE Start
    BY <1>1, AgesStart
  <1>2. CASE Leave \/ ReturnToLanding \/ Trap \/ Cancel \/ EmitExhausted
               \/ OpenBlockTooDeep \/ BranchRangeLimit
    BY <1>2 DEF Leave, ReturnToLanding, Trap, Cancel, EmitExhausted,
                OpenBlockTooDeep, BranchRangeLimit, Bail, LandWith, InExcursion, Ages
  <1>3. CASE EmitFits \/ EmitPastCeiling \/ OpenBlock \/ CloseBlock \/ RetryWide \/ Branch
    <2>1. /\ InExcursion /\ UNCHANGED << tick, lastUsed, trueAge, codePtr >>
          /\ target' = target
      BY <1>3 DEF EmitFits, EmitPastCeiling, OpenBlock, CloseBlock, RetryWide, Branch,
                  Emitting, OpeningBlock, AttemptOver, OpenAttempt, tableVars,
                  controlVars, assemblerVars, InExcursion
    <2> QED
      BY <2>1, AgesKept DEF InUse, IsResident
  <1>4. CASE Finalize
    <2>1. /\ InExcursion /\ UNCHANGED << tick, lastUsed, trueAge >> /\ target' = Boot
          /\ codePtr' = [codePtr EXCEPT ![target.proc] = buf]
          /\ codePtr \in [Proc -> Addr \cup {Trampoline}]
      BY <1>4 DEF Finalize, AttemptOver, MarkCompiled, InExcursion, Inv, TypeOK
    <2>2. \A i \in Proc : InUse(i)' => InUse(i)
      BY <2>1 DEF InUse, IsResident, Boot, Proc
    <2> QED
      BY <2>1, <2>2, AgesKept
  <1>5. ASSUME NEW v \in Proc, EmitEvicting(v) PROVE Ages'
    BY <1>5, AgesEvicted
  <1>6. CASE (\E q \in Proc : Call(q)) \/ Return
    <2>1. mode = "run" /\ InExcursion /\ target = Boot /\ Callers
      BY <1>6 DEF Call, Return, Inv, InExcursion
    <2>2. target.proc \notin Proc
      BY <2>1 DEF Boot, Proc
    <2>3. ASSUME NEW q \in Proc, Call(q) PROVE Ages'
      BY <2>1, <2>2, <2>3, AgesDispatched, 0 \in Nat DEF Call
    <2>4. ASSUME Return PROVE Ages'
      <3> DEFINE rec == records[Len(records)]
      <3>1. Len(records) \in Nat /\ Len(records) > 0 /\ records[1] = Boot
            /\ records \in Seq(Record)
        BY <2>1 DEF Callers, Inv, TypeOK
      <3>2. rec.proc # -1 /\ Dispatch(rec.proc, rec.off)
        BY <2>4 DEF Return
      <3>3. Len(records) \in 2 .. Len(records)
        BY <3>1, <3>2 DEF Boot
      <3>4. Resumable(rec) /\ rec \in Record
        BY <2>1, <3>1, <3>3 DEF Callers
      <3>5. rec.proc \in Proc /\ rec.off \in Nat
        BY <3>4 DEF Resumable, Record
      <3> QED
        BY <2>1, <2>2, <3>2, <3>5, AgesDispatched
    <2> QED
      BY <1>6, <2>3, <2>4
  <1>7. CASE UNCHANGED vars
    <2>1. UNCHANGED << tick, lastUsed, trueAge, codePtr, target, mode >>
      BY <1>7 DEF vars, tableVars, controlVars, assemblerVars
    <2> QED
      BY <2>1 DEF Ages, InExcursion, InUse, IsResident, Aged, Age
  <1> QED
    BY <1>1, <1>2, <1>3, <1>4, <1>5, <1>6, <1>7 DEF Next, Execute, Translate, Emit

(* The body that goes is one that was dispatched to no later than any other,
   although the tick wraps, as long as none has been idle for a whole turn of
   it (DispatchTable::evictionVictim). *)
THEOREM OldestGoesFirst == Spec => VictimIsOldest
  <1> DEFINE Choice ==
        \A v \in Residents :
          (mode = "translate" /\ mode' = "translate" /\ codePtr'[v] = Trampoline
             /\ \A i \in Residents : trueAge[i] < TickMod)
            => \A i \in Residents : trueAge[i] <= trueAge[v]
  <1>1. Init => Ages
    BY DEF Init, Ages, InExcursion
  <1>2. Inv /\ Ages /\ [Next]_vars => Ages'
    BY AgesSteps
  <1>3. ASSUME Inv, Ages, [Next]_vars PROVE [Choice]_vars
    <2>1. SUFFICES ASSUME NEW v \in Residents, mode = "translate", mode' = "translate",
                          codePtr'[v] = Trampoline,
                          \A i \in Residents : trueAge[i] < TickMod,
                          NEW i \in Residents
                   PROVE  trueAge[i] <= trueAge[v]
      OBVIOUS
    <2>2. InExcursion /\ v \in Proc /\ i \in Proc /\ codePtr[v] # Trampoline
      BY <2>1 DEF InExcursion, Residents, IsResident
    <2>3. PICK w \in Proc : EmitEvicting(w)
      <3>1. codePtr' # codePtr
        BY <2>1, <2>2
      <3> QED
        BY <1>3, <2>1, <3>1
           DEF Next, Execute, Translate, Emit, Start, Leave, Branch, Call, Return,
               ReturnToLanding, Trap, Cancel, EmitFits, EmitExhausted,
               EmitPastCeiling, OpenBlock, OpenBlockTooDeep, CloseBlock, Finalize,
               RetryWide, BranchRangeLimit, Bail, LandWith, vars, tableVars
    <2>4. IsEvictionVictim(w, tick) /\ Evict(w) /\ w \in Residents
      BY <2>3 DEF EmitEvicting, IsEvictionVictim
    <2>5. Residents' = Residents \ {w}
      BY <1>3, <2>1, <2>4, EvictMoves
    <2>6. v = w
      BY <2>1, <2>2, <2>5 DEF Residents, IsResident
    <2>7. Age(i, tick) < Age(v, tick) \/ Age(i, tick) = Age(v, tick)
      BY <2>1, <2>4, <2>6 DEF IsEvictionVictim
    <2>8. Age(i, tick) = trueAge[i] /\ Age(v, tick) = trueAge[v]
      BY <1>3, <2>1, <2>2 DEF Ages, InUse, Aged, Residents
    <2>9. trueAge[i] \in Nat /\ trueAge[v] \in Nat
      BY <1>3, <2>2, AgedType
    <2> QED
      BY <2>7, <2>8, <2>9
  <1> QED
    BY <1>1, <1>2, <1>3, Invariance, PTL DEF Spec, VictimIsOldest

(* An excursion ends on the first resource error there is. *)
Undecided == InExcursion => outcome = "none"

(* The translator gives up for want of room only on code that would not fit
   the arena with nothing else in it (Runtime::ensureSpace). *)
THEOREM GivesUpOnlyWhenTooLong == Spec => ExhaustedOnlyWhenTooLong
  <1> DEFINE TooLong == (mode = "translate" /\ outcome' = "exhausted_arena")
                          => AttemptLen > Ceiling - ArenaStart
  <1>1. Init => Undecided
    BY DEF Init, Undecided, InExcursion
  <1>2. ASSUME Undecided, [Next]_vars PROVE Undecided'
    <2>1. CASE Start
      BY <2>1 DEF Start, Undecided
    <2>2. CASE Leave \/ ReturnToLanding \/ Trap \/ Cancel \/ EmitExhausted
                 \/ OpenBlockTooDeep \/ BranchRangeLimit
      BY <2>2 DEF Leave, ReturnToLanding, Trap, Cancel, EmitExhausted,
                  OpenBlockTooDeep, BranchRangeLimit, Bail, LandWith, InExcursion,
                  Undecided
    <2>3. CASE EmitFits \/ (\E v \in Proc : EmitEvicting(v)) \/ EmitPastCeiling
                 \/ OpenBlock \/ CloseBlock \/ RetryWide \/ Branch \/ Finalize
                 \/ (\E q \in Proc : Call(q)) \/ Return
      <3>1. InExcursion /\ outcome' = outcome
        BY <2>3 DEF EmitFits, EmitEvicting, EmitPastCeiling, OpenBlock, CloseBlock,
                    RetryWide, Branch, Finalize, Call, Return, Dispatch, Emitting,
                    OpeningBlock, AttemptOver, InExcursion
      <3> QED
        BY <1>2, <3>1 DEF Undecided
    <2>4. CASE UNCHANGED vars
      BY <1>2, <2>4 DEF vars, Undecided, InExcursion
    <2> QED
      BY <1>2, <2>1, <2>2, <2>3, <2>4 DEF Next, Execute, Translate, Emit
  <1>3. ASSUME Inv, Undecided, [Next]_vars PROVE [TooLong]_vars
    <2>1. SUFFICES ASSUME mode = "translate", outcome' = "exhausted_arena"
                   PROVE  AttemptLen > Ceiling - ArenaStart
      OBVIOUS
    <2>2. InExcursion /\ outcome = "none" /\ Pending /\ Layout
      BY <1>3, <2>1 DEF InExcursion, Undecided, Inv
    <2>3. EmitExhausted
      BY <1>3, <2>1, <2>2
         DEF Next, Execute, Translate, Emit, Start, Leave, Branch, Call, Return,
             ReturnToLanding, Trap, Cancel, EmitFits, EmitEvicting,
             EmitPastCeiling, OpenBlock, OpenBlockTooDeep, CloseBlock, Finalize,
             RetryWide, BranchRangeLimit, Bail, LandWith, Dispatch, vars
    <2>4. /\ buf + count = Ceiling /\ Residents = {} /\ buf = cursor
          /\ count < (IF opened = 0 THEN PrologueLen ELSE AttemptLen)
      BY <2>2, <2>3 DEF EmitExhausted, Emitting, Pending
    <2>5. cursor = ArenaStart
      BY <2>2, <2>4 DEF Layout
    <2>6. AttemptLen \in Nat /\ PrologueLen <= AttemptLen /\ PrologueLen \in Nat
      BY <1>3, <2>1, AttemptLenType, CacheConstants
    <2>7. count \in Nat /\ ArenaStart \in Nat /\ count < AttemptLen
      BY <1>3, <2>4, <2>6, ConstantTypes DEF Inv, TypeOK
    <2> QED
      BY <2>4, <2>5, <2>6, <2>7
  <1> QED
    BY <1>1, <1>2, <1>3, Invariance, PTL DEF Spec, ExhaustedOnlyWhenTooLong
=============================================================================
