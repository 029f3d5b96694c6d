------------------------------ MODULE FuzzTools ------------------------------
(***************************************************************************)
(* The two tools that drive the emulated target, either of which a run     *)
(* starts: the campaign, and the sweep over saved programs.                *)
(***************************************************************************)
EXTENDS Campaign, Sweep

Idle == phase = "sweeping"

(* The campaign's state while the sweep is what runs. *)
CampaignIdle ==
  /\ phase = "sweeping" /\ round = 0 /\ corpus = << >> /\ generated = 0
  /\ pool = << >> /\ seen = {} /\ verified = {} /\ batches = 0
  /\ sink = "target" /\ stopped = FALSE /\ laneFailure = FALSE
  /\ sigint = "none"

Init == CampaignInit \/ (SweepInit /\ CampaignIdle)

Next ==
  \/ CampaignStep \/ Interrupt
  \/ Idle /\ StepOver /\ UNCHANGED campaignVars
  \/ Idle /\ StopShort /\ UNCHANGED campaignVars
  \/ Idle /\ Compare /\ UNCHANGED campaignVars
  \/ Idle /\ Summarize /\ UNCHANGED campaignVars

Spec == Init /\ [][Next]_vars

(* A tool is one thread that nothing but the sink it waits for can hold up,
   and a timeout ends that.  The operator need not interrupt it. *)
ToolStep ==
  \/ CampaignStep
  \/ Idle /\ (StepOver \/ StopShort \/ Compare \/ Summarize)
          /\ UNCHANGED campaignVars
FairSpec == Spec /\ WF_vars(ToolStep)

-----------------------------------------------------------------------------
(* Properties *)

(* A finding names the program whose fault it is, though no line of the
   runner's output carries a name: lines are told apart by their order,
   digests go between them, and a batch ends at the first hang or assertion.
   A mismatch is the target's and not an engine's. *)
Guilty(kind, p) ==
  CASE kind \in {"HANG", "DBG HANG"} -> p.target.tag = "spins"
    [] kind \in {"JIT", "MISMATCH"} -> p.target.tag # "spins" /\ p.target # p.vm
    [] kind = "TARGET ASSERT" -> p.asserts
    [] kind = "CRASH" -> p.crashes
    [] kind = "LOWERER/VM" -> p.ast # p.vm
    [] kind = "LOWERER" -> p.ast.tag # "unspecified"
    [] kind = "VM THREW" -> p.vm.tag = "threw"
    [] kind = "OVER HARNESS CAPACITY" -> ~ p.framed \/ p.refused = "capacity"
    [] kind = "OUT OF PROFILE" -> p.refused = "profile"
    [] OTHER -> FALSE
BlameIsRight ==
  \A f \in findings : f.of # NoProgram /\ Guilty(f.kind, f.of)

(* A tool that reports no finding has seen each of its programs through: the
   answer of the emitted code is the reference's, memory included, or a bail,
   and the host translator did not crash on it.  Assertions are left out, the
   image that has them runs every DbgEvery batches only. *)
Healthy(p) ==
  /\ p.target = p.vm \/ p.target.tag = "E" \/ ~ p.framed
  /\ Idle \/ ~ p.crashes
Elements(batch) == { batch[i] : i \in 1 .. Len(batch) }
CleanExitMeansClean ==
  exit = "clean" =>
    /\ \A p \in verified \cup UNION { Elements(b) : b \in ran } : Healthy(p)
    /\ ~ laneFailure

(* What becomes of every program when the tool has ended.  In a campaign each
   verified one was handed to the target.  A batch without a hang has every
   program compared.  With one, the campaign compares none of the batch, and
   the sweep all behind it, in a batch of its own. *)
Compared(p) == p \in answered \/ \E f \in findings : f.of = p
HungAt(batch) ==
  { i \in 1 .. Len(batch) : Finding("HANG", batch[i]) \in findings }
Accounted ==
  exit \in {"clean", "findings"} =>
    /\ verified \subseteq UNION { Elements(b) : b \in ran }
    /\ \A b \in ran : \A i \in 1 .. Len(b) :
         \/ Compared(b[i])
         \/ \E h \in HungAt(b) : Idle => i < h

(* Every run of a tool ends: a bounded campaign, whatever hangs and whatever
   crashes in it, and a sweep, however often it requeues. *)
ToolEnds == <>(exit # "running")

(* "SIGINT prints the same report a bounded run does" (fuzz.ts). *)
SigintReports == sigint = "queued" ~> exit # "running"
=============================================================================
