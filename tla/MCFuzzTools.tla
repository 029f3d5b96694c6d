------------------------------ MODULE MCFuzzTools ------------------------------
(* A handful of programs, one for each way a stage or a sink can treat one,
   and batches of three that do not always fit one chunk. *)
EXTENDS FuzzTools

Good ==
  [id |-> 0, need |-> 2, sig |-> 1, small |-> TRUE, framed |-> TRUE,
   refused |-> "none", asserts |-> FALSE, crashes |-> FALSE,
   ast |-> Answer("R", 1, 1), vm |-> Answer("R", 1, 1),
   target |-> Answer("R", 1, 1)]

Spins == [Good EXCEPT !.target = Answer("spins", 0, 0), !.sig = 2,
                      !.small = FALSE]
WrongMemory == [Good EXCEPT !.target = Answer("R", 1, 2), !.sig = 3,
                            !.need = 5]
Traps == [Good EXCEPT !.ast = Answer("T", 1, 1), !.vm = Answer("T", 1, 1)]
Bails == [Good EXCEPT !.target = Answer("E", 9, 1), !.need = 5]
Unsound == [Good EXCEPT !.crashes = TRUE, !.asserts = TRUE]
Unframed == [Good EXCEPT !.framed = FALSE]
Endlessly == [Good EXCEPT !.vm = Answer("step limit", 0, 0)]

Drawable == {Good, Spins, WrongMemory, Unsound, Unframed, Endlessly}
OnDisk == {Good, Spins, WrongMemory, Traps, Bails, Unframed, Endlessly}
GoodOnly == {Good}
=============================================================================
