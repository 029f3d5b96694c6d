--------------------------------- MODULE Ast ---------------------------------
(***************************************************************************)
(* The DSL's trees as the fuzzing tools build, walk and edit them: one     *)
(* shape of node for expressions, statements, procedures and programs, the *)
(* traversals of walk.ts, and the call graph corpus.ts reads from a tree.  *)
(***************************************************************************)
EXTENDS Integers, Sequences, FiniteSets

(* k says what a node is, op its operator, type or builtin, x the name it
   binds or uses, v a literal, a case label or a callee's index. *)
Node(k, op, x, v, ns, kids) ==
  [k |-> k, op |-> op, x |-> x, v |-> v, ns |-> ns, kids |-> kids]

Lit(v) == Node("lit", "", "", v, << >>, << >>)
Id(x) == Node("id", "", x, 0, << >>, << >>)
Cast(t, e) == Node("cast", t, "", 0, << >>, <<e>>)
Un(op, e) == Node("un", op, "", 0, << >>, <<e>>)
Bin(op, l, r) == Node("bin", op, "", 0, << >>, <<l, r>>)
Logic(op, l, r) == Node("logic", op, "", 0, << >>, <<l, r>>)
Cond(c, y, n) == Node("cond", "", "", 0, << >>, <<c, y, n>>)
Asg(op, x, e) == Node("asg", op, x, 0, << >>, <<e>>)
(* ++x is Upd("+", x, 1), x-- is Upd("-", x, 0). *)
Upd(op, x, prefix) == Node("upd", op, x, prefix, << >>, << >>)
Builtin(name, args) == Node("builtin", name, "", 0, << >>, args)
Call(i, args) == Node("call", "", "", i, << >>, args)
ExprKinds == {"lit", "id", "cast", "un", "bin", "logic", "cond", "asg", "upd",
              "builtin", "call"}

ExprS(e) == Node("expr", "", "", 0, << >>, <<e>>)
Decl(t, x, init) == Node("decl", t, x, 0, << >>, <<init>>)
Ret(e) == Node("ret", "", "", 0, << >>, <<e>>)
RetVoid == Node("ret", "", "", 0, << >>, << >>)
Break == Node("break", "", "", 0, << >>, << >>)
Block(list) == Node("block", "", "", 0, << >>, list)
If(c, y) == Node("if", "", "", 0, << >>, <<c, Block(y)>>)
IfElse(c, y, n) == Node("if", "", "", 0, << >>, <<c, Block(y), Block(n)>>)
While(c, b) == Node("while", "", "", 0, << >>, <<c, Block(b)>>)
DoWhile(b, c) == Node("do", "", "", 0, << >>, <<c, Block(b)>>)
For(init, c, step, b) == Node("for", "", "", 0, << >>, <<init, c, step, Block(b)>>)
(* A clause's label is v, and Default has none. *)
Default == -1
Case(v, list) == Node("case", "", "", v, << >>, list)
Switch(d, cases) == Node("switch", "", "", 0, << >>, <<d>> \o cases)
Proc(args, body) == Node("proc", "", "", 0, args, body)
Program(procs) == Node("prog", "", "", 0, << >>, procs)

(* A procedure's body, a block and a clause are lists of statements. *)
ListKinds == {"proc", "block", "case"}

-----------------------------------------------------------------------------
(* Traversal *)

Kids(n) == { n.kids[i] : i \in DOMAIN n.kids }

RECURSIVE Nodes(_)
Nodes(n) == {n} \cup UNION { Nodes(c) : c \in Kids(n) }

(* Where a node is: the indices that lead to it. *)
RECURSIVE Paths(_)
Paths(n) ==
  {<< >>} \cup UNION { { <<i>> \o p : p \in Paths(n.kids[i]) } : i \in DOMAIN n.kids }

RECURSIVE GetAt(_, _)
GetAt(n, p) == IF p = << >> THEN n ELSE GetAt(n.kids[Head(p)], Tail(p))

RECURSIVE SetAt(_, _, _)
SetAt(n, p, m) ==
  IF p = << >> THEN m
  ELSE [n EXCEPT !.kids[Head(p)] = SetAt(@, Tail(p), m)]

(* In which order a walk meets two paths. *)
RECURSIVE Before(_, _)
Before(p, q) ==
  \/ p = << >> /\ q # << >>
  \/ /\ p # << >> /\ q # << >>
     /\ Head(p) < Head(q) \/ (Head(p) = Head(q) /\ Before(Tail(p), Tail(q)))
FirstOf(S) == CHOOSE p \in S : \A q \in S \ {p} : Before(p, q)

(* Paths in the order of the walk, and the deepest first. *)
InOrder(S, Precedes(_, _)) ==
  [i \in 1 .. Cardinality(S) |->
     CHOOSE p \in S : Cardinality({ q \in S : Precedes(q, p) }) = i - 1]
Deeper(p, q) == Len(p) > Len(q) \/ (Len(p) = Len(q) /\ Before(p, q))
WalkOrder(S) == InOrder(S, Before)
DeepestFirst(S) == InOrder(S, Deeper)

WithKid(n, i, c) == [n EXCEPT !.kids[i] = c]
Without(list, i) == SubSeq(list, 1, i - 1) \o SubSeq(list, i + 1, Len(list))

(* Every nested statement list a statement directly governs. *)
ChildBodies(s) ==
  IF s.k = "block" THEN {s.kids}
  ELSE { c.kids : c \in { b \in Kids(s) : b.k \in {"block", "case"} } }

(* Every expression a statement holds directly, a for's declaration's
   included. *)
ChildExpressions(s) ==
  IF s.k \in ListKinds THEN {}
  ELSE { e \in Kids(s) : e.k \in ExprKinds }
       \cup UNION { Kids(d) : d \in { b \in Kids(s) : b.k = "decl" } }

(* A list's statements and those nested in them. *)
RECURSIVE Statements(_)
Statements(list) ==
  UNION { {list[i]} \cup UNION { Statements(b) : b \in ChildBodies(list[i]) }
          : i \in DOMAIN list }

(* Every expression anywhere in a list. *)
Expressions(list) ==
  UNION { UNION { Nodes(e) : e \in ChildExpressions(s) } : s \in Statements(list) }

DeclaredNames(list) ==
  { d.x : d \in { n \in UNION { {s} \cup Kids(s) : s \in Statements(list) } :
                    n.k = "decl" } }

MaxOf(S) == CHOOSE m \in S : \A o \in S : o <= m

RECURSIVE HeightOf(_)
HeightOf(e) == 1 + MaxOf({0} \cup { HeightOf(c) : c \in Kids(e) })

(* The procedures, counted from zero, that a body calls. *)
CalleesOf(list) == { e.v : e \in { n \in Expressions(list) : n.k = "call" } }

ProcOf(gen, i) == gen.kids[i + 1]
ProcIndices(gen) == 0 .. Len(gen.kids) - 1

(* What the representation promises: every call is to a procedure there is,
   of a higher index, so that the graph has no cycle. *)
CheckGraph(gen) ==
  /\ Len(gen.kids) > 0
  /\ \A i \in ProcIndices(gen) :
       \A c \in CalleesOf(ProcOf(gen, i).kids) : c < Len(gen.kids) /\ c > i
=============================================================================
