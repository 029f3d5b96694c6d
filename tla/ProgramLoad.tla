---------------------------- MODULE ProgramLoad ----------------------------
(***************************************************************************)
(* How a program becomes a directory of bodies.  Executor::run checks the  *)
(* frame and the stack budget, then one cursor walks every procedure: the  *)
(* scan of a body must leave it where the next argument count is, with     *)
(* nothing to go by but the closers it counts.  Much later translateProc   *)
(* reads the same bytes by a different rule, one function per construct,   *)
(* and relies on what the scan said of them.  Both are stepped here over   *)
(* one body, an instruction at a time: scan is proc_scan, trans what the   *)
(* translator will do on reaching the same place.                          *)
(*                                                                         *)
(* truth is the structure the validator checked (isa-core 8.5): which      *)
(* instructions may come next is its promise, and the frame's binding.  An *)
(* instruction is one byte here, its operands included, and an extension's *)
(* as many as its own description says.                                    *)
(***************************************************************************)
EXTENDS Integers, Sequences, SequencesExt

CONSTANTS
  Procs,        (* the program's procedures                                *)
  Cases,        (* the case counts its BR_TABLEs have, each at least 1     *)
  Extensions,   (* [known, operands, callShaped, pushes, lr]               *)
  MaxNesting,   (* bound: constructs inside one another                    *)
  MaxBytes      (* bound: bytes in the program                             *)

ASSUME LoadConstants ==
  /\ Procs \in Nat \ {0} /\ MaxNesting \in Nat /\ MaxBytes \in Nat
  /\ Cases \subseteq Nat \ {0}
  /\ Extensions \subseteq [known : BOOLEAN, operands : Nat, callShaped : BOOLEAN,
                           pushes : BOOLEAN, lr : BOOLEAN]

VARIABLES
  phase,    (* Executor::run: "frame", "budget", "header", "body",
               "scanned", or how it left it                                *)
  pos,      (* the cursor                                                  *)
  truth,    (* the open constructs, innermost last: [loop, block, last]    *)
  scan,     (* [from, frames, lr]: what GUARDED_scanBody counts, from the
               body's first byte                                           *)
  trans,    (* [calls, ended, helper]: the translator's calls, innermost
               last, where its body ended, and whether it has used lr      *)
  slots,    (* the directory: [from, to, lr] for each procedure scanned    *)
  bodies    (* history: [from, to, helper], what each body really was      *)

vars == << phase, pos, truth, scan, trans, slots, bodies >>

Nowhere == -1
ScanFrom(first) == [from |-> first, frames |-> << >>, lr |-> FALSE]
FreshTrans == [calls |-> << >>, ended |-> Nowhere, helper |-> FALSE]

Init ==
  /\ phase = "frame" /\ pos = 0 /\ truth = << >>
  /\ scan = ScanFrom(0) /\ trans = FreshTrans
  /\ slots = << >> /\ bodies = << >>

Replace(s, x) == Append(Front(s), x)

-----------------------------------------------------------------------------
(* GUARDED_scanBody. *)

OneLess(f) == [f EXCEPT !.remaining = @ - 1]

(* One more closer seen: the frame counts it, and goes with the last.  That
   there is a frame is only asserted. *)
CountOff(s) ==
  [s EXCEPT !.frames =
     IF @ = << >> THEN @
     ELSE IF Last(@).remaining = 1 THEN Front(@)
     ELSE Replace(@, OneLess(Last(@)))]

(* A dispatch has a block for each case and one for the default. *)
\* Faulty form: counts the cases and forgets the default.
DispatchBlocks_NoDefault(n) == n
DispatchBlocks(n) == n + 1

ScanOpen(s, blocks, dispatch) ==
  [s EXCEPT !.frames = Append(@, [remaining |-> blocks, dispatch |-> dispatch])]

(* FALLTHROUGH and DEFAULT leave the frame open: never its last block. *)
ScanContinue(s) ==
  [s EXCEPT !.frames =
     IF @ = << >> THEN @ ELSE Replace(@, OneLess(Last(@)))]

ScanLr(s) == [s EXCEPT !.lr = TRUE]

(* triggersLRSave of a dispatch: two cases or more go through the helper. *)
\* Faulty form: takes two cases for the form that needs none.
TableNeedsLr_Wider(n) == n > 2
TableNeedsLr(n) == n >= 2

-----------------------------------------------------------------------------
(* The translator.  A call is [fn, block, last]: the function, and which of
   the blocks it translates it is in.  "undecided" is a BR_TABLE 1 whose next
   instruction has not been peeked at, "maybeEmpty" a translateIfThen that has
   not. *)

Translating(fn, last) == [fn |-> fn, block |-> 0, last |-> last]

TransOpen(t, fn, last) == [t EXCEPT !.calls = Append(@, Translating(fn, last))]

(* Any other instruction than the BLOCK_END they peek for settles both. *)
Settled(t) ==
  IF t.calls = << >> THEN t
  ELSE LET c == Last(t.calls)
       IN  [t EXCEPT !.calls =
              Replace(@, [c EXCEPT !.fn =
                CASE c.fn = "undecided" -> "IfThenElse"
                  [] c.fn = "maybeEmpty" -> "IfThen"
                  [] OTHER -> c.fn])]

(* The innermost function gets a terminator: on to its next block, or back. *)
\* Faulty form: takes an empty case[0] for the whole construct.
Terminated_SkipsDefault(t, at) ==
  IF t.calls = << >> THEN [t EXCEPT !.ended = at]
  ELSE LET c == Last(t.calls)
       IN  [t EXCEPT !.calls =
              IF c.fn = "undecided" \/ c.block = c.last THEN Front(@)
              ELSE Replace(@, [c EXCEPT !.block = @ + 1])]
Terminated(t, at) ==
  IF t.calls = << >> THEN [t EXCEPT !.ended = at]
  ELSE LET c == Last(t.calls)
       IN  [t EXCEPT !.calls =
              IF c.fn = "undecided"
              THEN Replace(@, Translating("maybeEmpty", 0))
              ELSE IF c.block = c.last THEN Front(@)
              ELSE Replace(@, [c EXCEPT !.block = @ + 1])]

TransBlockEnd(t, at) == Terminated(t, at)
TransLeave(t, at) == Terminated(Settled(t), at)

TransHelper(t) == [t EXCEPT !.helper = TRUE]

(* translateSwitch reaches its helper; the two-block form is a branch. *)
TransTable(t, n) ==
  LET u == Settled(t)
  IN  IF n = 1 THEN TransOpen(u, "undecided", 1)
      ELSE TransHelper(TransOpen(u, "Switch", n))

-----------------------------------------------------------------------------
(* Instructions, each read by both. *)

Reading(bytes) ==
  /\ phase = "body" /\ pos + bytes <= MaxBytes
  /\ pos' = pos + bytes

Inside == truth # << >>
Enter(loop, last) ==
  truth' = Append(truth, [loop |-> loop, block |-> 0, last |-> last])
NextBlock ==
  truth' = IF Last(truth).block = Last(truth).last THEN Front(truth)
           ELSE Replace(truth, [Last(truth) EXCEPT !.block = @ + 1])

Plain ==
  /\ Reading(1) /\ trans' = Settled(trans)
  /\ UNCHANGED << phase, truth, scan, slots, bodies >>

(* CALL, CLZ and REVBITS. *)
UsesLr ==
  /\ Reading(1)
  /\ scan' = ScanLr(scan) /\ trans' = TransHelper(Settled(trans))
  /\ UNCHANGED << phase, truth, slots, bodies >>

(* An extension's emitter uses lr only if its description says so, and reads
   as many operands as that did. *)
Ext ==
  /\ \E e \in Extensions :
       /\ Reading(1 + e.operands)
       /\ IF ~ e.known \/ e.callShaped \/ e.pushes
          THEN phase' = "refused" /\ UNCHANGED << scan, trans >>
          ELSE /\ scan' = IF e.lr THEN ScanLr(scan) ELSE scan
               /\ trans' = IF e.lr THEN TransHelper(Settled(trans))
                           ELSE Settled(trans)
               /\ UNCHANGED phase
  /\ UNCHANGED << truth, slots, bodies >>

OpenTable ==
  /\ Reading(1) /\ Len(truth) < MaxNesting
  /\ \E n \in Cases :
       /\ Enter(FALSE, n)
       /\ scan' = LET s == IF TableNeedsLr(n) THEN ScanLr(scan) ELSE scan
                  IN  ScanOpen(s, DispatchBlocks(n), TRUE)
       /\ trans' = TransTable(trans, n)
  /\ UNCHANGED << phase, slots, bodies >>

OpenLoop ==
  /\ Reading(1) /\ Len(truth) < MaxNesting
  /\ Enter(TRUE, 1)
  /\ scan' = ScanOpen(scan, 2, FALSE)
  /\ trans' = TransOpen(Settled(trans), "Loop", 1)
  /\ UNCHANGED << phase, slots, bodies >>

(* Either needs a level of recursion, for which there may be no stack. *)
NoRoomToNest ==
  /\ Reading(1) /\ phase' = "refused"
  /\ UNCHANGED << truth, scan, trans, slots, bodies >>

BlockEnd ==
  /\ Inside /\ Reading(1) /\ NextBlock
  /\ scan' = CountOff(scan) /\ trans' = TransBlockEnd(trans, pos')
  /\ UNCHANGED << phase, slots, bodies >>

(* FALLTHROUGH, or DEFAULT: a gap case if it is all there is of its case. *)
RunOn ==
  /\ Inside /\ Reading(1)
  /\ ~ Last(truth).loop /\ Last(truth).block < Last(truth).last
  /\ NextBlock
  /\ scan' = ScanContinue(scan) /\ trans' = TransLeave(trans, pos')
  /\ UNCHANGED << phase, slots, bodies >>

(* RETURN or TRAP: the end of any case, of a loop's body, or of the whole. *)
Leave ==
  /\ Reading(1)
  /\ trans' = TransLeave(trans, pos')
  /\ IF Inside
     THEN /\ Last(truth).loop => Last(truth).block = 0
          /\ NextBlock /\ UNCHANGED bodies
     ELSE /\ bodies' = Append(bodies, [from |-> scan.from, to |-> pos',
                                      helper |-> trans.helper])
          /\ UNCHANGED truth
  /\ IF scan.frames = << >>
     THEN phase' = "scanned" /\ UNCHANGED scan
     ELSE scan' = CountOff(scan) /\ UNCHANGED phase
  /\ UNCHANGED slots

-----------------------------------------------------------------------------
(* Executor::run and loadProgram. *)

RunVars == << pos, truth, scan, trans, slots, bodies >>

(* The frame binds the bytes to the validator; a budget the stack cannot
   cover is refused before anything is set up. *)
Verify ==
  /\ phase \in {"frame", "budget"}
  /\ \/ phase' = "refused"
     \/ phase' = IF phase = "frame" THEN "budget" ELSE "header"
  /\ UNCHANGED RunVars

(* An argument count, and where the body after it begins. *)
StartBody ==
  /\ phase = "header" /\ Len(slots) < Procs /\ pos < MaxBytes
  /\ pos' = pos + 1
  /\ scan' = ScanFrom(pos')
  /\ trans' = FreshTrans
  /\ phase' \in {"body", "refused"}
  /\ UNCHANGED << truth, slots, bodies >>

SetStaticInfo ==
  /\ phase = "scanned"
  /\ slots' = Append(slots, [from |-> scan.from, to |-> pos, lr |-> scan.lr])
  /\ phase' = "header"
  /\ UNCHANGED << pos, truth, scan, trans, bodies >>

(* The caller's count of arguments, against procedure 0's. *)
CheckEntry ==
  /\ phase = "header" /\ Len(slots) = Procs
  /\ phase' \in {"entered", "refused"}
  /\ UNCHANGED RunVars

Next ==
  \/ Verify \/ StartBody \/ SetStaticInfo \/ CheckEntry
  \/ Plain \/ UsesLr \/ Ext \/ OpenTable \/ OpenLoop \/ NoRoomToNest
  \/ BlockEnd \/ RunOn \/ Leave

Spec == Init /\ [][Next]_vars

-----------------------------------------------------------------------------
(* Properties *)

(* Each procedure the directory has is the bytes of that procedure and no
   others, whatever was nested in it: the scan stopped at the terminator that
   was outside of every construct, and at no other. *)
DirectoryNamesBodies ==
  /\ \A i \in 1 .. Len(slots) :
       /\ i <= Len(bodies)
       /\ slots[i].from = bodies[i].from /\ slots[i].to = bodies[i].to
  /\ phase \in {"body", "header"} => Len(bodies) = Len(slots)
  /\ phase = "scanned" => Len(bodies) = Len(slots) + 1

(* The translator comes to the end of a body where the scan put it, with all
   of its functions returned: not before, where it would leave code out, and
   not after, where it would read the next procedure's bytes.  Its loops over
   cases, the instructions it peeks at and the two-block forms add up to what
   the scan counted. *)
TranslatorEndsWithBody ==
  /\ phase = "body" => trans.ended = Nowhere
  /\ phase = "scanned" => trans.ended = pos /\ trans.calls = << >>

(* A procedure whose code will write lr is one the directory says saves it:
   what the prologue pushes was decided by the scan alone. *)
LrSavedWhenUsed ==
  /\ phase \in {"body", "scanned"} /\ trans.helper => scan.lr
  /\ \A i \in 1 .. Len(slots) : bodies[i].helper => slots[i].lr
=============================================================================
