------------------------------ MODULE Generator ------------------------------
(***************************************************************************)
(* What becomes of a corpus program: mutated generation after generation   *)
(* (mutate.ts, under the filter of ub.ts), broken on purpose by the        *)
(* invalid lane (invalid.ts), or shrunk when an engine is found wrong with *)
(* it (minimize.ts).                                                       *)
(***************************************************************************)
EXTENDS Mutator, Minimizer

CONSTANT Instances
  (* By name, where a run starts: a seed, or a file the minimizer is given;
     its alphabet, how many generations it has, whether it is inflated too,
     the breakers applied, and the wrong engines it may meet, pairs of a mode
     and an operator. *)

VARIABLES
  inst,   \* which instance this is
  lane,   \* "valid", "invalid", "file" or "finding", or "none"
  prog,   \* the program
  age,    \* generations since the seed
  struck  \* the breaker, and whether it is held to its program being refused

generatorVars == <<inst, lane, prog, age, struck, minimizerVars>>

Unstruck == [by |-> "none", held |-> TRUE]
Case_ == Instances[inst]

GeneratorInit ==
  /\ inst \in DOMAIN Instances /\ lane = Instances[inst].lane
  /\ prog = Instances[inst].seed /\ age = 0 /\ struck = Unstruck
  /\ MinimizerIdle

GeneratorIdle ==
  /\ inst = "none" /\ lane = "none" /\ prog = Program(<< >>) /\ age = 0
  /\ struck = Unstruck /\ MinimizerIdle

-----------------------------------------------------------------------------
(* A generation: only what was accepted is kept to be mutated again, and only
   a mutant without a race is handed on. *)

Sequenced(S) == { g \in S : ~ Unsequenced(g) }
Mutants == Mutate(prog, Case_.alphabet)
           \cup (IF Case_.inflates THEN Inflate(prog, Case_.alphabet) ELSE {})

MutateSequenced ==
  /\ lane = "valid" /\ age < Case_.generations /\ Lowers(prog, WordBits)
  /\ prog' \in Sequenced(Mutants)
  /\ age' = age + 1
  /\ UNCHANGED <<inst, lane, struck, minimizerVars>>

(* A switch's clauses may open if it is live and nothing in them ends it
   early. *)
SwitchesMayOpen(gen) ==
  \A i \in ReachableProcs(gen) :
    \A s \in { t \in Statements(ProcOf(gen, i).kids) : t.k = "switch" } :
      /\ s \in LiveStatements(ProcOf(gen, i).kids)
      /\ \A c \in Clauses_(s) : EndsInBreak(c) => Terminators(c.kids) = {}

(* What the entry of a program that returns is sure to come to: the statements
   of its body that no return stands before, and first thing in each what it
   tests or takes.  A block or a do begins with something of its own. *)
SureStatements(body) ==
  { i \in DOMAIN body :
      /\ body[i].k \notin {"block", "do"} /\ body[i].kids # << >>
      /\ \A s \in Statements(SubSeq(body, 1, i - 1)) : s.k # "ret" }
StrikesWhatRuns(gen, broken) ==
  LET body == gen.kids[1].kids
  IN /\ \A o \in Evaluate(Engine(gen, "right", "none")) : o.k = "ret"
     /\ \E i \in SureStatements(body) :
          body[i].kids[1] # broken.kids[1].kids[i].kids[1]

(* Only what the valid lane accepts of a seed's mutants is broken. *)
BreakProgram(name) ==
  /\ lane = "valid" /\ age = 1 /\ ~ Refused(prog)
  /\ prog' \in Broken(name, prog)
  /\ lane' = "invalid"
  /\ struck' = [by |-> name,
                held |-> CASE name \in SwitchBreakers -> SwitchesMayOpen(prog)
                           [] name = "shift amount" -> StrikesWhatRuns(prog, prog')
                           [] OTHER -> TRUE]
  /\ UNCHANGED <<inst, age, minimizerVars>>

(* An engine turns out wrong with the program, or a file is said to show it. *)
Find ==
  /\ lane = "file" \/ (lane = "valid" /\ age = Case_.generations)
  /\ \E how \in Case_.wrong : StartShrinking(prog, how[1], how[2])
  /\ lane' = "finding"
  /\ UNCHANGED <<inst, prog, age, struck>>

ShrinkFinding ==
  /\ lane = "finding" /\ Shrink
  /\ UNCHANGED <<inst, lane, prog, age, struck>>

GeneratorStep ==
  \/ MutateSequenced \/ Find \/ ShrinkFinding
  \/ \E name \in Case_.breakers : BreakProgram(name)

-----------------------------------------------------------------------------
(* Properties *)

Valid == lane = "valid" /\ Lowers(prog, WordBits)
Answers == Evaluate(Engine(prog, "any", "none"))

(* Whatever order the operands are taken in, a program the generator hands on
   computes one answer, the buffer included: the filter sees every pair of
   operands that race, through calls to other procedures as well, so that an
   engine that takes them the other way is never a finding.  The answer is a
   defined one, or none within the step limit: no amount is out of a shift's
   range, whatever was mutated below it, no name is unbound and the entry does
   not run off its end, in any generation. *)
AcceptedHasOneAnswer ==
  Valid => \E o \in Answers : Answers = {o} /\ o.k \notin {"unspecified", "stuck"}

(* What the walk makes of an accepted program is accepted again ("a generator
   bug rather than a finding", driver.ts): it stays in scope, calls procedures
   further up alone with what they take, keeps breaks last, labels distinct
   and clauses running on into the next label only.  A clause that a return
   closes may run on once that return is wrapped, so the rule on labels is
   asked for one generation. *)
MutantsLower ==
  lane = "valid" =>
    \/ Lowers(prog, WordBits)
    \/ age > 1 /\ \E i \in ReachableProcs(prog) : ~ SwitchesLower(ProcOf(prog, i).kids)

(* What a breaker struck is refused, by mog-core or by the reference VM: it
   strikes no code that is dropped before anything could refuse it, and an
   amount that only the VM can refuse, having been lowered to a register, is
   struck where the evaluation of its statement cannot pass it by.  The breaker
   of shifts does not look whether that statement runs, and the breakers of
   switches look neither where they strike nor whether a clause ends itself:
   each is held to it where that makes no difference.  An amount that is made
   an immediate is refused wherever it was struck. *)
BrokenIsRefused ==
  lane = "invalid" =>
    /\ struck.held => Refused(prog)
    /\ struck.by = "shift amount" => RefusedBy(prog, TRUE) # "none"

(* However far a finding is shrunk, and whatever file it came from, the program
   left still shows the engine to be wrong: with its operator right, both
   agree. *)
WitnessIsReal ==
  lane = "finding" =>
    Evaluate(Engine(best, "right", "none")) = Evaluate(Reference(best))

(* When the passes end, no procedure or statement can be dropped and no
   expression replaced by a smaller one without losing the finding, though a
   pass goes on with what it had listed before it changed the program. *)
ShrunkIsMinimal ==
  stage = "done" =>
    /\ \A i \in 1 .. Len(best.kids) - 1 :
         ~ StillFails(WithoutProcedure(best, i), mode, wrong)
    /\ \A p \in Paths(best) :
         LET tried == CASE GetAt(best, p).k \in ListKinds -> StatementsTried(best, p)
                        [] GetAt(best, p).k \in ExprKinds -> ReplacementsTried(best, p)
                        [] OTHER -> << >>
         IN \A i \in DOMAIN tried :
              Smaller(tried[i], best) => ~ StillFails(tried[i], mode, wrong)

(* Shrinking ends: every reduction taken lowers the size, so passes run out. *)
ShrinkEnds == lane = "finding" ~> stage = "done"
=============================================================================
