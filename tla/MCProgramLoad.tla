---------------------------- MODULE MCProgramLoad ----------------------------
(* An instance of ProgramLoad: an extension of each kind. *)
EXTENDS ProgramLoad

Kind(known, operands, callShaped, pushes, lr) ==
  [known |-> known, operands |-> operands, callShaped |-> callShaped,
   pushes |-> pushes, lr |-> lr]

MCExtensions ==
  { Kind(TRUE, 0, FALSE, FALSE, FALSE), Kind(TRUE, 2, FALSE, FALSE, TRUE),
    Kind(FALSE, 0, FALSE, FALSE, FALSE), Kind(TRUE, 1, TRUE, FALSE, TRUE),
    Kind(TRUE, 1, FALSE, TRUE, FALSE) }
=============================================================================
