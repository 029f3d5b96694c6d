---------------------------- MODULE DispatchTable ----------------------------
(***************************************************************************)
(* Where each procedure's code is and when it was last reached             *)
(* (src/src/runtime/dispatch_table.h).  A procedure without code has the   *)
(* trampoline's address in its slot.  The LRU tick is a machine word: ages *)
(* are differences modulo TickMod, 2^32 in the code.                       *)
(***************************************************************************)
EXTENDS Integers

CONSTANTS
  ProcCount,   (* procedures of the program                                *)
  Trampoline,  (* translatorTrampoline's address, outside every arena      *)
  TickMod      (* values of the LRU tick before it wraps                   *)

ASSUME TableConstants ==
  /\ ProcCount \in Nat \ {0}
  /\ Trampoline \in Int
  /\ TickMod \in Nat \ {0}

Proc == 0 .. ProcCount - 1
Tick == 0 .. TickMod - 1

VARIABLES
  codePtr,   (* slot i: address of i's code, or Trampoline                 *)
  lastUsed   (* slot i: tick of the last dispatch to i                     *)

tableVars == << codePtr, lastUsed >>

IsResident(i) == codePtr[i] # Trampoline

Residents == {i \in Proc : IsResident(i)}

Age(i, now) == (now - lastUsed[i]) % TickMod

\* Faulty form: ticks compared as if they never wrapped.
IsEvictionVictim_ByTick(v, now) ==
  /\ v \in Residents
  /\ \A i \in Residents : \/ lastUsed[i] > lastUsed[v]
                          \/ lastUsed[i] = lastUsed[v] /\ v <= i

(* The scan keeps the first slot of the greatest age. *)
IsEvictionVictim(v, now) ==
  /\ v \in Residents
  /\ \A i \in Residents : \/ Age(i, now) < Age(v, now)
                          \/ Age(i, now) = Age(v, now) /\ v <= i

(* The lowest resident body that starts above addr, or ceiling. *)
BoundsAbove(addr, ceiling) ==
  {ceiling} \cup {codePtr[i] : i \in {j \in Residents : codePtr[j] > addr}}

NextResidentAbove(addr, ceiling) ==
  CHOOSE b \in BoundsAbove(addr, ceiling) :
    \A c \in BoundsAbove(addr, ceiling) : b <= c

\* Faulty forms: what lay above v is not followed, or followed the wrong way.
Retire_NoSlide(v, gapEnd, delta) ==
  /\ codePtr' = [codePtr EXCEPT ![v] = Trampoline]
  /\ lastUsed' = [lastUsed EXCEPT ![v] = 0]

Retire_SlideUp(v, gapEnd, delta) ==
  /\ codePtr' = [i \in Proc |->
                   IF i = v THEN Trampoline
                   ELSE IF IsResident(i) /\ codePtr[i] >= gapEnd
                     THEN codePtr[i] + delta
                     ELSE codePtr[i]]
  /\ lastUsed' = [lastUsed EXCEPT ![v] = 0]

(* Sends v back to the trampoline and follows everything the compaction
   moved down by delta. *)
Retire(v, gapEnd, delta) ==
  /\ codePtr' = [i \in Proc |->
                   IF i = v THEN Trampoline
                   ELSE IF IsResident(i) /\ codePtr[i] >= gapEnd
                     THEN codePtr[i] - delta
                     ELSE codePtr[i]]
  /\ lastUsed' = [lastUsed EXCEPT ![v] = 0]

MarkCompiled(i, dest) ==
  /\ codePtr' = [codePtr EXCEPT ![i] = dest]
  /\ UNCHANGED lastUsed

(* What callHelper and returnHelperTail both do to the slot they dispatch
   through. *)
StampUse(i, now) == lastUsed' = [lastUsed EXCEPT ![i] = now]

(* loadProgram's slots: nothing compiled, nothing ever used. *)
EmptyCodePtr == [i \in Proc |-> Trampoline]
EmptyLastUsed == [i \in Proc |-> 0]
=============================================================================
