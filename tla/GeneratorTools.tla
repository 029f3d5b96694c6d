---------------------------- MODULE GeneratorTools ----------------------------
(***************************************************************************)
(* The tools that need no emulated target, one of which a run starts: the  *)
(* generator with its invalid lane and its minimizer, the two halves of    *)
(* the raw memory extension side by side, and the stack margin.            *)
(***************************************************************************)
EXTENDS Generator, RawMemHalves, StackMargin

VARIABLE tool

toolVars == <<tool, generatorVars, halvesVars, marginVars>>

MarginIdle ==
  /\ calls = {} /\ frame = << >> /\ guarded = {} /\ dynamic = {}
  /\ margin = NotAsked

Init ==
  \/ tool = "generator" /\ GeneratorInit /\ HalvesIdle /\ MarginIdle
  \/ tool = "halves" /\ GeneratorIdle /\ HalvesIdle /\ MarginIdle
  \/ tool = "margin" /\ GeneratorIdle /\ HalvesIdle /\ MarginInit

Next ==
  \/ tool = "generator" /\ GeneratorStep /\ UNCHANGED <<tool, halvesVars, marginVars>>
  \/ tool = "halves" /\ RunOpcode /\ UNCHANGED <<tool, generatorVars, marginVars>>
  \/ tool = "margin" /\ Measure /\ UNCHANGED <<tool, generatorVars, halvesVars>>

Spec == Init /\ [][Next]_toolVars

(* The minimizer is one loop on one thread that nothing holds up. *)
ShrinkStep ==
  tool = "generator" /\ ShrinkFinding /\ UNCHANGED <<tool, halvesVars, marginVars>>
FairSpec == Spec /\ WF_toolVars(ShrinkStep)
=============================================================================
