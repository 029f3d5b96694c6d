------------------------------- MODULE Lowering -------------------------------
(***************************************************************************)
(* Which programs mog-core's parser, lowerer and validator accept, as the  *)
(* comments of the generator and of the invalid lane state its rules; and  *)
(* which code of a program is lowered at all.                              *)
(***************************************************************************)
EXTENDS Ast

-----------------------------------------------------------------------------
(* Live code: a procedure the entry reaches, and in a list everything up to
   the first statement that always terminates. *)

RECURSIVE ReachableFrom(_, _)
ReachableFrom(gen, S) ==
  LET more == UNION { CalleesOf(ProcOf(gen, i).kids) : i \in S } \cap ProcIndices(gen)
  IN IF more \subseteq S THEN S ELSE ReachableFrom(gen, S \cup more)
ReachableProcs(gen) == ReachableFrom(gen, {0})

IsTrap(s) == s.k = "expr" /\ s.kids[1].k = "builtin" /\ s.kids[1].op = "trap"

RECURSIVE AlwaysTerminates(_)
AlwaysTerminates(s) ==
  \/ s.k = "ret" \/ IsTrap(s)
  \/ s.k = "block" /\ \E c \in Kids(s) : AlwaysTerminates(c)
  \/ s.k = "if" /\ Len(s.kids) = 3
     /\ AlwaysTerminates(s.kids[2]) /\ AlwaysTerminates(s.kids[3])

Terminators(list) == { i \in DOMAIN list : AlwaysTerminates(list[i]) }
LivePrefix(list) ==
  IF Terminators(list) = {} THEN list
  ELSE SubSeq(list, 1, CHOOSE i \in Terminators(list) :
                         \A j \in Terminators(list) : i <= j)

RECURSIVE LiveStatements(_)
LiveStatements(list) ==
  LET live == LivePrefix(list)
  IN UNION { {live[i]} \cup UNION { LiveStatements(b) : b \in ChildBodies(live[i]) }
             : i \in DOMAIN live }

LiveExpressions(list) ==
  UNION { UNION { Nodes(e) : e \in ChildExpressions(s) } : s \in LiveStatements(list) }

LiveCalls(list) == { e \in LiveExpressions(list) : e.k = "call" }

-----------------------------------------------------------------------------
(* The rules, each of one procedure's live code *)

(* Every name is declared where it is used, and once where it is visible. *)
RECURSIVE NamesBound(_, _)
NamesBound(list, visible) ==
  LET live == LivePrefix(list)
      declared(i) == { live[j].x : j \in { d \in 1 .. i - 1 : live[d].k = "decl" } }
      used(s) == { e.x : e \in { n \in UNION { Nodes(e) : e \in ChildExpressions(s) } :
                                   n.k \in {"id", "asg", "upd"} } }
      own(s) == { d.x : d \in { c \in {s} \cup Kids(s) : c.k = "decl" } }
  IN \A i \in DOMAIN live :
       LET s == live[i]
           seen == visible \cup declared(i)
       IN /\ own(s) \cap seen = {}
          /\ used(s) \subseteq seen \cup (IF s.k = "for" THEN own(s) ELSE {})
          /\ \A b \in ChildBodies(s) : NamesBound(b, seen \cup own(s))

Operators == {"+", "-", "*", "|", "^", "&", "<<", ">>", "==", "!=", "<", "<=",
              ">", ">="}
OperatorsLower(list) ==
  \A e \in LiveExpressions(list) : e.k = "bin" => e.op \in Operators

(* A trap's code is a constant. *)
TrapCodesLower(list) ==
  \A e \in LiveExpressions(list) :
    e.k = "builtin" /\ e.op = "trap" => e.kids[1].k = "lit"

(* The range check of a shift's immediate form.  Which constant amounts are
   lowered to it, and which to a register, is mog-core's choice: here all. *)
AmountsFit(list, wordBits) ==
  \A e \in LiveExpressions(list) :
    e.k = "bin" /\ e.op \in {"<<", ">>"} /\ e.kids[2].k = "lit" =>
      e.kids[2].v < wordBits

(* A break is its clause's last statement. *)
RECURSIVE BreaksClose(_)
BreaksClose(n) ==
  LET list == IF n.k \in ListKinds THEN LivePrefix(n.kids) ELSE n.kids
  IN \A i \in DOMAIN list :
       /\ list[i].k = "break" => n.k = "case" /\ i = Len(list)
       /\ BreaksClose(list[i])

Closed(list) ==
  \/ list # << >> /\ list[Len(list)].k = "break"
  \/ Terminators(list) # {}

(* Labels are distinct and there is one; a clause that runs on, which no
   default may, names the next label or the default. *)
SwitchLowers(s) ==
  LET cases == SubSeq(s.kids, 2, Len(s.kids))
  IN /\ \E i \in DOMAIN cases : cases[i].v # Default
     /\ \A i, j \in DOMAIN cases : cases[i].v = cases[j].v => i = j
     /\ \A i \in DOMAIN cases :
          i < Len(cases) /\ ~ Closed(cases[i].kids) =>
            /\ cases[i].v # Default
            /\ cases[i + 1].v \in {Default, cases[i].v + 1}
SwitchesLower(list) ==
  \A s \in LiveStatements(list) : s.k = "switch" => SwitchLowers(s)

(* A body that returns a value on one path and none on another has no
   signature. *)
Returns(list) == { Len(s.kids) : s \in { r \in LiveStatements(list) : r.k = "ret" } }
ReturnsAgree(list) == Returns(list) # {0, 1}
Valued(p) == Returns(p.kids) = {1} /\ Terminators(p.kids) # {}

(* Calls go to procedures there are, with as many arguments as they have,
   and a call whose value is used to one that always returns a value. *)
CallsResolve(gen, list) ==
  /\ \A c \in LiveCalls(list) :
       c.v \in ProcIndices(gen) /\ Len(c.kids) = Len(ProcOf(gen, c.v).ns)
  /\ \A s \in LiveStatements(list) : \A e \in ChildExpressions(s) :
       \A c \in Nodes(e) \ (IF s.k = "expr" THEN {e} ELSE {}) :
         c.k = "call" => Valued(ProcOf(gen, c.v))

(* No procedure reaches itself. *)
RECURSIVE CalledFrom(_, _)
CalledFrom(gen, S) ==
  LET more == UNION { { c.v : c \in LiveCalls(ProcOf(gen, i).kids) } : i \in S }
              \cap ProcIndices(gen)
  IN IF more \subseteq S THEN S ELSE CalledFrom(gen, S \cup more)
Acyclic(gen) ==
  \A i \in ReachableProcs(gen) :
    i \notin CalledFrom(gen, { c.v : c \in LiveCalls(ProcOf(gen, i).kids) }
                             \cap ProcIndices(gen))

(* The rules no choice of the lowerer's bears on. *)
Accepted(gen) ==
  /\ gen.kids # << >>
  /\ \A i \in ReachableProcs(gen) :
       LET p == ProcOf(gen, i) IN
       /\ CallsResolve(gen, p.kids)
       /\ NamesBound(p.kids, { p.ns[j] : j \in DOMAIN p.ns })
       /\ OperatorsLower(p.kids) /\ TrapCodesLower(p.kids)
       /\ BreaksClose(p) /\ SwitchesLower(p.kids) /\ ReturnsAgree(p.kids)
  /\ Acyclic(gen)

ImmediatesFit(gen, wordBits) ==
  \A i \in ReachableProcs(gen) : AmountsFit(ProcOf(gen, i).kids, wordBits)

(* A valid lane's program also passes the generator's own check, whichever
   form its amounts are lowered to. *)
Lowers(gen, wordBits) ==
  CheckGraph(gen) /\ Accepted(gen) /\ ImmediatesFit(gen, wordBits)
=============================================================================
