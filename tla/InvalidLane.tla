----------------------------- MODULE InvalidLane -----------------------------
(***************************************************************************)
(* The invalid lane: the breakers (gen/invalid.ts), each of which makes of *)
(* an accepted program one that breaks a named rule, and the runner that   *)
(* requires each to be refused (invalid.ts).  A breaker's result is the    *)
(* set of programs its random choices can give, empty without a site.      *)
(***************************************************************************)
EXTENDS Lowering, AstEval, SequencesExt

One == Lit(1)
InFront(gen, i, s) == [gen EXCEPT !.kids[i + 1].kids = <<s>> \o @]

-----------------------------------------------------------------------------
(* Where a breaker may strike: the paths to the expressions of a reachable
   procedure's live code.  certain leaves out what an evaluation may not
   reach, a short circuit's right side and a conditional's arms; a for whose
   body always terminates never gets to its update. *)

KidsReached(n, certain) ==
  CASE n.k \in ListKinds -> DOMAIN LivePrefix(n.kids)
    [] n.k = "logic" /\ certain -> {1}
    [] n.k = "cond" /\ certain -> {1}
    [] n.k = "for" /\ AlwaysTerminates(n.kids[4]) -> {1, 2, 4}
    [] OTHER -> DOMAIN n.kids
RECURSIVE PathsReached(_, _)
PathsReached(n, certain) ==
  {<< >>} \cup UNION { { <<i>> \o p : p \in PathsReached(n.kids[i], certain) } :
                       i \in KidsReached(n, certain) }

(* In the whole program, from the procedures given. *)
SitesIn(gen, procs, certain) ==
  UNION { { <<i + 1>> \o p : p \in PathsReached(ProcOf(gen, i), certain) } : i \in procs }
Sites(gen, certain) == SitesIn(gen, ReachableProcs(gen), certain)
Those(gen, paths, Is(_)) == { p \in paths : Is(GetAt(gen, p)) }

(* Every site at once, the innermost first. *)
EverySite(gen, paths, F(_)) ==
  LET struck == FoldLeft(LAMBDA g, p : SetAt(g, p, F(GetAt(g, p))), gen,
                         DeepestFirst(paths))
  IN IF paths = {} THEN {} ELSE {struck}

-----------------------------------------------------------------------------
(* The breakers of expressions and of bodies *)

IsCall(e) == e.k = "call"
IsBinary(e) == e.k = "bin"
IsShift(e) == e.k = "bin" /\ e.op \in Shifts

(* Behind an if, so that the valued return after it stays reachable. *)
MixedReturnArity(gen) ==
  { InFront(gen, i, If(One, <<RetVoid>>)) : i \in ReachableProcs(gen) }

RecursiveCall(gen) ==
  { InFront(gen, i, ExprS(Call(i, [a \in DOMAIN ProcOf(gen, i).ns |-> One]))) :
    i \in ReachableProcs(gen) }

Unbound == "zzz_unbound"
UnboundIdentifier(gen) ==
  { SetAt(gen, p, [GetAt(gen, p) EXCEPT !.x = Unbound]) :
    p \in Those(gen, Sites(gen, FALSE), LAMBDA e : e.k \in {"id", "asg", "upd"}) }

BreakOutsideSwitch(gen) == { InFront(gen, i, Break) : i \in ReachableProcs(gen) }

CallArity(gen) ==
  EverySite(gen, Those(gen, Sites(gen, FALSE), IsCall), LAMBDA e :
    [e EXCEPT !.kids = IF @ = << >> THEN <<One>> ELSE Front(@)])

NoSuchProcedure(gen) ==
  EverySite(gen, Those(gen, Sites(gen, FALSE), IsCall), LAMBDA e :
    [e EXCEPT !.v = Len(gen.kids) + 3])

DivisionOperator(gen) ==
  UNION { EverySite(gen, Those(gen, Sites(gen, FALSE), IsBinary),
                    LAMBDA e : [e EXCEPT !.op = op]) : op \in {"/", "%"} }

\* Faulty form: strikes what an evaluation of its statement may not arrive at.
ShiftAmount_Uncertain(gen) ==
  UNION { EverySite(gen, Those(gen, Sites(gen, FALSE), IsShift),
                    LAMBDA e : [e EXCEPT !.kids[2] = Lit(amount)]) :
          amount \in {WordBits, WordBits + 1, Word - 1} }
ShiftAmount(gen) ==
  UNION { EverySite(gen, Those(gen, Sites(gen, TRUE), IsShift),
                    LAMBDA e : [e EXCEPT !.kids[2] = Lit(amount)]) :
          amount \in {WordBits, WordBits + 1, Word - 1} }

-----------------------------------------------------------------------------
(* The breakers of switches take the first that fits, of all statements,
   live or not. *)

Clauses_(s) == { s.kids[i] : i \in 2 .. Len(s.kids) }
Labelled(s) == { i \in 2 .. Len(s.kids) : s.kids[i].v # Default }
(* The places of a switch's first two labelled clauses. *)
First(s) == CHOOSE i \in Labelled(s) : \A j \in Labelled(s) : i <= j
Second(s) == CHOOSE i \in Labelled(s) \ {First(s)} :
               \A j \in Labelled(s) \ {First(s)} : i <= j
DefaultAt(s) == CHOOSE i \in 2 .. Len(s.kids) : s.kids[i].v = Default

EndsInBreak(case) == case.kids # << >> /\ Last(case.kids) = Break
Opened(case) == [case EXCEPT !.kids = Front(@)]

Repeatable(s) == s.k = "switch" /\ Cardinality(Labelled(s)) >= 2
Repeated(s) == [s EXCEPT !.kids[Second(s)].v = s.kids[First(s)].v]

(* Without its break the clause must not terminate of itself. *)
Detachable(s) ==
  /\ Repeatable(s) /\ EndsInBreak(s.kids[First(s)])
  /\ LET list == s.kids[First(s)].kids
     IN Len(list) >= 2 /\ list[Len(list) - 1].k # "ret"
FarLabel == 900
Detached(s) ==
  [s EXCEPT !.kids[First(s)] = Opened(@), !.kids[Second(s)].v = FarLabel]

(* A default written last needs no break, so that it moves one up. *)
Movable(s) ==
  /\ s.k = "switch" /\ Len(s.kids) >= 3
  /\ \E i \in 2 .. Len(s.kids) : s.kids[i].v = Default
  /\ EndsInBreak(s.kids[DefaultAt(s)])
MovedUp(s) ==
  LET rest == Without(s.kids, DefaultAt(s))
  IN [s EXCEPT !.kids = InsertAt(rest, Len(rest), Opened(s.kids[DefaultAt(s)]))]

FirstSwitch(gen, Fits(_), F(_)) ==
  LET sites == Those(gen, UNION { { <<i + 1>> \o p : p \in Paths(ProcOf(gen, i)) } :
                                  i \in ReachableProcs(gen) }, Fits)
      p == FirstOf(sites)
  IN IF sites = {} THEN {} ELSE {SetAt(gen, p, F(GetAt(gen, p)))}

DuplicateLabel(gen) == FirstSwitch(gen, Repeatable, Repeated)
FallThrough(gen) == FirstSwitch(gen, Detachable, Detached)
DefaultRunsOn(gen) == FirstSwitch(gen, Movable, MovedUp)

-----------------------------------------------------------------------------
SwitchBreakers == {"duplicate label", "fall-through", "default runs on"}
Breakers == SwitchBreakers \cup
  {"mixed returns", "recursive call", "unbound", "break", "arity", "division",
   "shift amount", "no such procedure"}

Broken(name, gen) ==
  CASE name = "mixed returns" -> MixedReturnArity(gen)
    [] name = "recursive call" -> RecursiveCall(gen)
    [] name = "unbound" -> UnboundIdentifier(gen)
    [] name = "break" -> BreakOutsideSwitch(gen)
    [] name = "arity" -> CallArity(gen)
    [] name = "division" -> DivisionOperator(gen)
    [] name = "shift amount" -> ShiftAmount(gen)
    [] name = "no such procedure" -> NoSuchProcedure(gen)
    [] name = "duplicate label" -> DuplicateLabel(gen)
    [] name = "fall-through" -> FallThrough(gen)
    [] name = "default runs on" -> DefaultRunsOn(gen)

(* Which stage refuses a program: mog-core, of constant amounts only those it
   makes immediates of; or the reference VM because an amount it meets is not
   defined.  One that runs into the step limit is not refused, and the graph
   is not checked first. *)
RefusedBy(gen, immediate) ==
  CASE ~ Accepted(gen) \/ (immediate /\ ~ ImmediatesFit(gen, WordBits)) -> "mog-core"
    [] OTHER ->
         IF \E o \in Evaluate(Engine(gen, "right", "none")) : o.k = "unspecified"
         THEN "vm" ELSE "none"
Refused(gen) == \A immediate \in BOOLEAN : RefusedBy(gen, immediate) # "none"
=============================================================================
