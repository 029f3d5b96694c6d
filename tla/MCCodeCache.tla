---------------------------- MODULE MCCodeCache ----------------------------
(* Instances of CodeCache: a few procedures that do not all fit the arena. *)
EXTENDS CodeCache

(* Procedures 1 and 2 fit narrow, procedure 0 only wide. *)
MCNarrowLen == [p \in Proc |-> CASE p = 0 -> 1 [] p = 1 -> 4 [] OTHER -> 2]
MCWideLen == [p \in Proc |-> 3]
MCNarrowFits == Proc \ {0}
MCWideFits == Proc

(* With them two the translator must refuse: 3 is longer than the whole arena,
   4 has a branch no encoding reaches. *)
SplitNarrowLen == [p \in Proc |-> CASE p = 0 -> 1 [] p = 1 -> 4 [] p = 3 -> 9
                                    [] OTHER -> 2]
SplitWideLen == [p \in Proc |-> IF p = 3 THEN 10 ELSE 3]
SplitNarrowFits == Proc \ {0, 4}
SplitWideFits == Proc \ {4}
=============================================================================
