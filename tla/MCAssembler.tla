---------------------------- MODULE MCAssembler ----------------------------
(* Instances of Assembler small enough for a pool to spill at every kind of
   boundary: a reach of a few halfwords past the margin instead of 892 bytes.
   The margin keeps what it is for, room for the longest sequence that
   suppresses the check. *)
EXTENDS Assembler

(* A procedure of calls and constants, without branches, long enough for two
   pools. *)
Calls ==
  [maxPending |-> 3, maxReach |-> 40, reachMargin |-> 16,
   condReach |-> 60, branchReach |-> 100,
   literals |-> {1, 2}, records |-> {"pool", "imm8"}, callees |-> {"imm8"},
   labels |-> {}, loops |-> FALSE, cases |-> {}, maxBytes |-> 24]

(* Branches, loops and switches that barely reach, and pools between them. *)
Branches ==
  [maxPending |-> 2, maxReach |-> 20, reachMargin |-> 4,
   condReach |-> 10, branchReach |-> 14,
   literals |-> {1}, records |-> {}, callees |-> {},
   labels |-> {"a"}, loops |-> TRUE, cases |-> {2, 7}, maxBytes |-> 8]

Bodies == {Calls, Branches}

(* A call that takes its record and its callee's index from the pool. *)
FarCallee ==
  {[maxPending |-> 4, maxReach |-> 44, reachMargin |-> 16,
    condReach |-> 60, branchReach |-> 100,
    literals |-> {1}, records |-> {"pool"}, callees |-> {"pool"},
    labels |-> {}, loops |-> FALSE, cases |-> {}, maxBytes |-> 30]}
=============================================================================
