------------------------------ MODULE Minimizer ------------------------------
(***************************************************************************)
(* Shrinking a finding (minimize.ts): whether a program still shows it,    *)
(* and the passes that drop procedures, then statements, then replace      *)
(* expressions, until a pass changes nothing.  What a finding needs, an    *)
(* engine that is wrong, is one operator of it; the engines behind the     *)
(* lowerer take operands from the right.                                   *)
(***************************************************************************)
EXTENDS InvalidLane, UbFilter

VARIABLES
  mode,      \* which engine is wrong: "default" the VM, "jit" the target
  wrong,     \* the operator it gets wrong
  best,      \* the smallest program so far that shows the finding
  stage,     \* "idle", the pass's part ("procs", "lists", "paths"), "done"
  at,        \* the part's index
  todo,      \* the paths a pass has yet to try
  progress   \* has this pass accepted anything?

minimizerVars == <<mode, wrong, best, stage, at, todo, progress>>

-----------------------------------------------------------------------------
(* Does gen still show the finding?  A program that races, that no longer
   lowers or that has no answer does not. *)

TheOutcome(w) == CHOOSE o \in Evaluate(w) : TRUE
HasAnswer(o) == o.k \in {"ret", "trap"}

(* The reference against the VM, or both against the target. *)
Disagree(gen, how, operator) ==
  LET ast == Reference(gen)
      vm == Engine(gen, "right", IF how = "jit" THEN "none" ELSE operator)
      target == Engine(gen, "right", operator)
  IN \E outcome \in {[w \in {ast, vm, target} |-> TheOutcome(w)]} :
       /\ HasAnswer(outcome[ast]) /\ HasAnswer(outcome[vm])
       /\ IF how = "default" THEN outcome[ast] # outcome[vm]
          ELSE outcome[ast] = outcome[vm] /\ outcome[target] # outcome[ast]

\* Faulty form: racing programs count.
StillFails_Racing(gen, how, operator) ==
  /\ Lowers(gen, WordBits)
  /\ Disagree(gen, how, operator)
StillFails(gen, how, operator) ==
  /\ ~ Unsequenced(gen)
  /\ Lowers(gen, WordBits)
  /\ Disagree(gen, how, operator)

-----------------------------------------------------------------------------
(* The reductions *)

(* Nodes of the tree; an lvalue and a callee are nodes of their own. *)
Weight(n) == IF n.k \in {"asg", "upd", "builtin", "call"} THEN 2 ELSE 1
RECURSIVE Size(_)
Size(n) == Weight(n) + FoldLeft(LAMBDA sum, c : sum + Size(c), 0, n.kids)

Smaller(candidate, gen) == Size(candidate) < Size(gen)

WithoutProcedure(gen, i) == [gen EXCEPT !.kids = Without(@, i + 1)]

(* Every statement list, in the order of the walk. *)
ListPaths(gen) ==
  WalkOrder({ p \in Paths(gen) : GetAt(gen, p).k \in ListKinds })
WithoutStatement(gen, path, i) ==
  SetAt(gen, path, [GetAt(gen, path) EXCEPT !.kids = Without(@, i)])

(* Every expression, the deepest first. *)
ExpressionPaths(gen) ==
  DeepestFirst({ p \in Paths(gen) : GetAt(gen, p).k \in ExprKinds })

(* What an expression is replaced by: a constant, or a child.  A call's
   arguments are in a list and do not count; a callee is not a value. *)
Replacements(e) ==
  <<Lit(0), Lit(1)>>
  \o (CASE e.k = "asg" -> <<Id(e.x)>> \o e.kids
        [] e.k = "upd" -> <<Id(e.x)>>
        [] e.k \in {"builtin", "call"} -> << >>
        [] OTHER -> e.kids)

(* What taking one part out of a program, or replacing it, can give, in the
   order it is tried: of the statements of one list, or of one expression. *)
StatementsTried(gen, path) ==
  [i \in DOMAIN GetAt(gen, path).kids |-> WithoutStatement(gen, path, i)]
ReplacementsTried(gen, path) ==
  LET all == Replacements(GetAt(gen, path))
  IN [i \in DOMAIN all |-> SetAt(gen, path, all[i])]

(* The candidates that are smaller and still fail; the first is taken. *)
\* Faulty form: a candidate of the same size is progress.
Reductions_AnySize(candidates) ==
  { i \in DOMAIN candidates :
      \E c \in {candidates[i]} : StillFails(c, mode, wrong) }
Reductions(candidates) ==
  { i \in DOMAIN candidates :
      \E c \in {candidates[i]} : Smaller(c, best) /\ StillFails(c, mode, wrong) }
TakeFirst(candidates) ==
  \E found \in {Reductions(candidates)} :
    IF found = {} THEN UNCHANGED <<best, progress>>
    ELSE /\ best' = candidates[CHOOSE i \in found : \A j \in found : i <= j]
         /\ progress' = TRUE

-----------------------------------------------------------------------------
(* The passes *)

MinimizerIdle ==
  /\ mode = "none" /\ wrong = "none" /\ best = Program(<< >>) /\ stage = "idle"
  /\ at = 0 /\ todo = << >> /\ progress = FALSE

(* A program without the finding is refused. *)
StartShrinking(gen, how, operator) ==
  /\ stage = "idle" /\ StillFails(gen, how, operator)
  /\ mode' = how /\ wrong' = operator /\ best' = gen
  /\ stage' = "procs" /\ at' = Len(gen.kids) - 1 /\ todo' = << >> /\ progress' = FALSE

(* Whole procedures first, from the last; the entry stays. *)
DropProcedure ==
  /\ stage = "procs" /\ at >= 1
  /\ LET candidate == WithoutProcedure(best, at)
     IN IF StillFails(candidate, mode, wrong)
        THEN best' = candidate /\ progress' = TRUE
        ELSE UNCHANGED <<best, progress>>
  /\ at' = at - 1
  /\ UNCHANGED <<mode, wrong, stage, todo>>

ToLists ==
  /\ stage = "procs" /\ at = 0
  /\ stage' = "lists" /\ at' = 1
  /\ UNCHANGED <<mode, wrong, best, todo, progress>>

(* One statement less in each list. *)
DropStatement ==
  /\ stage = "lists" /\ at <= Len(ListPaths(best))
  /\ \E path \in {ListPaths(best)[at]} : TakeFirst(StatementsTried(best, path))
  /\ at' = at + 1
  /\ UNCHANGED <<mode, wrong, stage, todo>>

ToPaths ==
  /\ stage = "lists" /\ at > Len(ListPaths(best))
  /\ stage' = "paths" /\ at' = 0 /\ todo' = ExpressionPaths(best)
  /\ UNCHANGED <<mode, wrong, best, progress>>

(* The paths stay those of the program the part began with. *)
ReplaceExpression ==
  /\ stage = "paths" /\ todo # << >>
  /\ \E path \in {Head(todo)} : TakeFirst(ReplacementsTried(best, path))
  /\ todo' = Tail(todo)
  /\ UNCHANGED <<mode, wrong, stage, at>>

\* Faulty form: one pass is enough.
EndOfPass_Once ==
  /\ stage = "paths" /\ todo = << >>
  /\ stage' = "done" /\ at' = 0 /\ progress' = FALSE
  /\ UNCHANGED <<mode, wrong, best, todo>>
EndOfPass ==
  /\ stage = "paths" /\ todo = << >>
  /\ IF progress
     THEN stage' = "procs" /\ at' = Len(best.kids) - 1 /\ progress' = FALSE
     ELSE stage' = "done" /\ UNCHANGED <<at, progress>>
  /\ UNCHANGED <<mode, wrong, best, todo>>

Shrink == \/ DropProcedure \/ ToLists \/ DropStatement \/ ToPaths
          \/ ReplaceExpression \/ EndOfPass
=============================================================================
