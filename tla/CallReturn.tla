----------------------------- MODULE CallReturn ------------------------------
(***************************************************************************)
(* What the dispatch and the code cache promise together: a program runs   *)
(* as if all of its procedures were compiled and stayed where they are.  A *)
(* call enters the callee at its first halfword, a return resumes the      *)
(* caller right after its call, and nothing else changes the control       *)
(* state.  Where the code is, whether it is there at all and how often it  *)
(* has been compiled do not appear.                                        *)
(***************************************************************************)
EXTENDS Integers, Sequences

CONSTANTS
  Procedures,    (* the program's procedures; execution starts in Entry    *)
  Entry,
  LengthOf,      (* [Procedures -> Nat]: halfwords of its compiled code     *)
  MaxCallDepth   (* the program's own bound on nested calls                *)

VARIABLES
  status,   (* "idle", "active" or "landed"                                *)
  here,     (* the procedure and the halfword being executed               *)
  frames,   (* where each open call resumes, outermost first               *)
  outcome   (* how the last excursion ended                                *)

vars == << status, here, frames, outcome >>

Nowhere == [proc |-> -1, off |-> 0]

Init ==
  /\ status = "idle" /\ here = Nowhere /\ frames = << >> /\ outcome = "none"

Enter ==
  /\ status = "idle"
  /\ status' = "active"
  /\ here' = [proc |-> Entry, off |-> 0]
  /\ frames' = << Nowhere >>
  /\ outcome' = "none"

Branch ==
  /\ status = "active"
  /\ \E k \in 0 .. LengthOf[here.proc] - 1 : here' = [here EXCEPT !.off = k]
  /\ UNCHANGED << status, frames, outcome >>

Call ==
  /\ status = "active"
  /\ Len(frames) <= MaxCallDepth
  /\ here.off + 1 < LengthOf[here.proc]
  /\ frames' = Append(frames, [here EXCEPT !.off = @ + 1])
  /\ \E q \in Procedures : here' = [proc |-> q, off |-> 0]
  /\ UNCHANGED << status, outcome >>

Return ==
  /\ status = "active"
  /\ Len(frames) > 1
  /\ here' = frames[Len(frames)]
  /\ frames' = SubSeq(frames, 1, Len(frames) - 1)
  /\ UNCHANGED << status, outcome >>

(* The entry procedure returns, the program traps, it is cancelled, or the
   translator runs out of something. *)
Land ==
  /\ status = "active"
  /\ \E o \in {"returned", "trapped", "cancelled", "exhausted_arena",
            "exhausted_translator_stack", "branch_range"} :
       /\ o = "returned" => Len(frames) = 1
       /\ outcome' = o
  /\ status' = "landed"
  /\ here' = Nowhere
  /\ frames' = << >>

Leave ==
  /\ status = "landed"
  /\ status' = "idle"
  /\ UNCHANGED << here, frames, outcome >>

Next == Enter \/ Branch \/ Call \/ Return \/ Land \/ Leave

Spec == Init /\ [][Next]_vars
=============================================================================
