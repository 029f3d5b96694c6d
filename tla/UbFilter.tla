------------------------------- MODULE UbFilter -------------------------------
(***************************************************************************)
(* The filter for unsequenced effects (ub.ts): what an expression may read *)
(* and write, what a call may do to what its caller can see, and whether   *)
(* some operands of a program race.                                        *)
(***************************************************************************)
EXTENDS Ast

MemReads == {"ld8", "ld16", "ld32", "memcmp", "slicecmp"}
MemWrites == {"st8", "st16", "st32", "memmove"}
Pure == {"clz", "revbits"}

(* mem is the strongest access to the buffer: none, a read or a write. *)
None == 0
Reads == 1
Writes == 2

Effects(reads, writes, mem, terminates, races) ==
  [reads |-> reads, writes |-> writes, mem |-> mem, terminates |-> terminates,
   races |-> races]
NoEffects == Effects({}, {}, None, FALSE, FALSE)

(* races is the exception an analysis ends with. *)
Union(parts) ==
  Effects(UNION { p.reads : p \in parts }, UNION { p.writes : p \in parts },
          MaxOf({None} \cup { p.mem : p \in parts }),
          \E p \in parts : p.terminates, \E p \in parts : p.races)

Touches(e) == e.writes # {} \/ e.mem # None \/ e.terminates

(* Does the order of a and b change what the program computes?  A trap leaves
   open whether the other operand's effects came about. *)
\* Faulty form: only what the left one writes counts.
Conflict_LeftWrites(a, b) ==
  \/ a.writes \cap b.reads # {}
  \/ a.writes \cap b.writes # {}
  \/ Writes \in {a.mem, b.mem} /\ None \notin {a.mem, b.mem}
  \/ a.terminates /\ Touches(b)
  \/ b.terminates /\ Touches(a)
Conflict(a, b) ==
  \/ a.writes \cap b.reads # {}
  \/ b.writes \cap a.reads # {}
  \/ a.writes \cap b.writes # {}
  \/ Writes \in {a.mem, b.mem} /\ None \notin {a.mem, b.mem}
  \/ a.terminates /\ Touches(b)
  \/ b.terminates /\ Touches(a)

(* The parts, where some two race if they are operands. *)
Unordered(parts) ==
  LET racing == \E i, j \in DOMAIN parts : i < j /\ Conflict(parts[i], parts[j])
      all == Union({ parts[i] : i \in DOMAIN parts })
  IN [all EXCEPT !.races = @ \/ racing]

(* What a call's own doing adds to what its arguments do. *)
Adding(e, mem, terminates) ==
  [e EXCEPT !.mem = MaxOf({@, mem}), !.terminates = @ \/ terminates]

RECURSIVE AnalyzeExpr(_, _)
AnalyzeExpr(e, summaries) ==
  LET parts == [i \in DOMAIN e.kids |-> AnalyzeExpr(e.kids[i], summaries)]
      all == Union({ parts[i] : i \in DOMAIN parts })
  IN CASE e.k = "lit" -> NoEffects
       [] e.k = "id" -> [NoEffects EXCEPT !.reads = {e.x}]
       [] e.k \in {"cast", "un", "logic", "cond"} -> all
       [] e.k = "upd" -> [NoEffects EXCEPT !.reads = {e.x}, !.writes = {e.x}]
       [] e.k = "asg" ->
            [all EXCEPT !.writes = @ \cup {e.x},
                        !.reads = IF e.op = "=" THEN @ ELSE @ \cup {e.x}]
       [] e.k = "bin" -> Unordered(parts)
       [] e.k = "builtin" ->
            Adding(Unordered(parts),
                   CASE e.op \in MemWrites -> Writes [] e.op \in MemReads -> Reads
                     [] OTHER -> None,
                   e.op = "trap")
       [] e.k = "call" ->
            IF e.v \in DOMAIN summaries
            THEN Adding(Unordered(parts), summaries[e.v].mem, summaries[e.v].terminates)
            ELSE Adding(Unordered(parts), Writes, TRUE)

(* Statements are sequence points: each expression is on its own. *)
AnalyzeBody(list, summaries) ==
  Union({ AnalyzeExpr(e, summaries) :
          e \in UNION { ChildExpressions(s) : s \in Statements(list) } })

(* What escapes a call to procedure i, given that of those above it; one with
   a race of its own may do anything. *)
Summary(gen, i, above) ==
  LET body == ProcOf(gen, i).kids
      own == AnalyzeBody(body, above)
      called == Union({ above[c] : c \in CalleesOf(body) \cap DOMAIN above })
  IN IF own.races THEN Effects({}, {}, Writes, TRUE, FALSE)
     ELSE Effects({}, {}, MaxOf({own.mem, called.mem}),
                  own.terminates \/ called.terminates, FALSE)

(* From the highest index down; the set has one element. *)
RECURSIVE SummariesFrom(_, _)
SummariesFrom(gen, i) ==
  IF i = Len(gen.kids) THEN {[p \in {} |-> NoEffects]}
  ELSE UNION { { [p \in DOMAIN above \cup {i} |-> IF p = i THEN s ELSE above[p]] :
                 s \in {Summary(gen, i, above)} } : above \in SummariesFrom(gen, i + 1) }

Unsequenced(gen) ==
  \E summaries \in SummariesFrom(gen, 0) :
    \E i \in ProcIndices(gen) : AnalyzeBody(ProcOf(gen, i).kids, summaries).races
=============================================================================
