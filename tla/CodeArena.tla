------------------------------ MODULE CodeArena ------------------------------
(***************************************************************************)
(* Where compiled code is put, and how far down the stack may come to meet *)
(* it (src/src/runtime/code_arena.h).  Addresses are counted in halfwords, *)
(* the unit emission works in; a word boundary is an even address.  The    *)
(* module has no steps of its own: the Runtime and the translator call     *)
(* its operations from theirs (CodeCache.tla).                             *)
(***************************************************************************)
EXTENDS Integers

CONSTANTS
  Base,             (* first address the arena was given                   *)
  Limit,            (* first address past a region of its own              *)
  StackLimit,       (* the lowest address the stack may ever reach         *)
  OverlapsStack,    (* TRUE: sharedWithStack, FALSE: region                *)
  InterruptReserve, (* room kept below the stack for an exception frame    *)
  NoFloor           (* UINT32_MAX: no stack floor is live                  *)

ASSUME ArenaConstants ==
  /\ Base \in Nat /\ Limit \in Nat /\ StackLimit \in Nat
  /\ InterruptReserve \in Nat /\ NoFloor \in Nat
  /\ OverlapsStack \in BOOLEAN
  /\ Base + 1 < Limit /\ Limit < NoFloor
  /\ OverlapsStack => Base = StackLimit

VARIABLES
  mem,            (* what each halfword of the arena holds                 *)
  cursor,         (* end of the committed code                             *)
  liveStackFloor  (* lowest stack floor published and not yet retracted    *)

arenaVars == << mem, cursor, liveStackFloor >>

Lesser(a, b) == IF a < b THEN a ELSE b

RoundUp(a) == a + (a % 2)
RoundDown(a) == a - (a % 2)

(* The constructor's own rounding of the two ends; a shared arena has none
   of its own, so its end is the top of the address space. *)
ArenaStart == RoundUp(Base)
\* Faulty form: the region's end is not masked to a word.
ArenaEnd_Unmasked == IF OverlapsStack THEN NoFloor ELSE Limit
ArenaEnd == RoundDown(IF OverlapsStack THEN NoFloor ELSE Limit)

\* Faulty form: the guard does not look at how far the arena has come.
HardFloor_Static == StackLimit
HardFloor == IF OverlapsStack /\ StackLimit < cursor THEN cursor ELSE StackLimit

Ceiling ==
  IF ~OverlapsStack
    THEN ArenaEnd
    ELSE Lesser(IF InterruptReserve < liveStackFloor
                  THEN liveStackFloor - InterruptReserve
                  ELSE 0,
                ArenaEnd)

(* The lowest sp from which a level reserving margin may still proceed is
   the one just above this. *)
StackFloorThreshold(margin) == HardFloor + margin + InterruptReserve

\* Faulty form: the last halfword is left behind.
Compacted_OneShort(m, gapStart, gapEnd, occupiedEnd) ==
  [a \in DOMAIN m |->
     IF gapStart <= a /\ a + 1 < gapStart + (occupiedEnd - gapEnd)
       THEN m[a + (gapEnd - gapStart)]
       ELSE m[a]]

(* The memory after [gapEnd, occupiedEnd) has been copied down, lowest
   halfword first, onto gapStart. *)
Compacted(m, gapStart, gapEnd, occupiedEnd) ==
  [a \in DOMAIN m |->
     IF gapStart <= a /\ a < gapStart + (occupiedEnd - gapEnd)
       THEN m[a + (gapEnd - gapStart)]
       ELSE m[a]]

(* A new excursion publishes the code limit as its first stack floor, and
   leaving one puts back what it found. *)
OpenExcursion(codeLimit) ==
  /\ liveStackFloor' = IF OverlapsStack THEN codeLimit + InterruptReserve
                                        ELSE liveStackFloor
  /\ UNCHANGED << mem, cursor >>

\* Faulty form: only the floor is put back.
CloseExcursion_KeepsCursor(outerCursor) ==
  /\ liveStackFloor' = NoFloor
  /\ UNCHANGED << mem, cursor >>

CloseExcursion(outerCursor) ==
  /\ cursor' = outerCursor
  /\ liveStackFloor' = NoFloor
  /\ UNCHANGED mem

\* Faulty form: the next body would start off a word boundary.
Commit_Unrounded(newEnd) ==
  /\ cursor' = newEnd
  /\ UNCHANGED << mem, liveStackFloor >>

Commit(newEnd) ==
  /\ cursor' = RoundUp(newEnd)
  /\ UNCHANGED << mem, liveStackFloor >>

PublishStackFloor(floor) ==
  /\ liveStackFloor' = Lesser(floor, liveStackFloor)
  /\ UNCHANGED << mem, cursor >>

RetractStackFloor(outerFloor) ==
  /\ liveStackFloor' = outerFloor
  /\ UNCHANGED << mem, cursor >>
=============================================================================
