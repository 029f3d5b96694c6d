------------------------------- MODULE Campaign -------------------------------
(***************************************************************************)
(* The fuzzing campaign: fuzz.ts calibrates the oracles and starts         *)
(* runCampaign, which draws mutants of a growing corpus, keeps those the   *)
(* evaluator and the reference VM agree on, and feeds them in batches to   *)
(* the target, to the target with assertions, and to the host translator.  *)
(*                                                                         *)
(* The main script is one synchronous call from its start to process.exit: *)
(* the sinks run while it waits, and no callback runs in between.          *)
(***************************************************************************)
EXTENDS BatchSinks, FiniteSets

CONSTANTS
  Mutants,        (* what mutation can produce, as the stages see it       *)
  Rounds,         (* ROUNDS                                                *)
  Endless,        (* no --rounds: a round counter that never runs out,
                     which wraps at the bound Rounds                       *)
  Batch,          (* BATCH                                                 *)
  Seeds,          (* the number of hand-written corpus entries             *)
  CorpusMax,      (* CORPUS_MAX                                            *)
  BulkEvery, DbgEvery, LaneEvery,
  StopOnFinding,  (* --stop-on-finding                                     *)
  Timed           (* --for: there is a deadline                            *)

ASSUME CampaignConstants ==
  /\ {Rounds, Batch, Seeds, CorpusMax, BulkEvery, DbgEvery, LaneEvery}
        \subseteq Nat \ {0}
  /\ CorpusMax > Seeds
  /\ {Endless, StopOnFinding, Timed} \subseteq BOOLEAN
  /\ \A m \in Mutants : IsProgram(m)

VARIABLES
  phase,      (* where the main script is                                  *)
  round,      (* i                                                         *)
  corpus,     (* what its entries are: "seed" or "derived"                 *)
  generated,  (* replacements so far, which only count modulo their number *)
  pool,       (* verified programs not batched yet                         *)
  seen,       (* signatures met                                            *)
  batches,    (* batches run, up to the longest cadence that counts them   *)
  sink,       (* which sink the current batch is at                        *)
  stopped,
  laneFailure,
  sigint,     (* "none", "queued" when the signal is in, and "handled"     *)
  verified    (* history: the programs that entered the pool               *)

loopVars == << round, corpus, generated, pool, seen, verified >>
campaignVars == << phase, loopVars, batches, sink, stopped, laneFailure,
                   sigint >>
vars == << sinkVars, campaignVars >>

CampaignInit ==
  /\ queue = << >> /\ findings = {} /\ answered = {} /\ ran = {}
  /\ exit = "running"
  /\ phase = "calibrating" /\ round = 0
  /\ corpus = [i \in 1 .. Seeds |-> "seed"] /\ generated = 0
  /\ pool = << >> /\ seen = {} /\ verified = {}
  /\ batches = 0 /\ sink = "target" /\ stopped = FALSE
  /\ laneFailure = FALSE /\ sigint = "none"

-----------------------------------------------------------------------------
(* fuzz.ts before the campaign: build and calibrate, or refuse to run. *)
Calibrate ==
  /\ phase = "calibrating"
  /\ \/ phase' = "drawing" /\ UNCHANGED exit
     \/ phase' = "over" /\ exit' = "uncalibrated"
  /\ UNCHANGED << queue, findings, answered, ran, loopVars, batches, sink,
                  stopped, laneFailure, sigint >>

-----------------------------------------------------------------------------
(* The inner tier. *)

Ready == phase = "drawing" /\ ~ stopped /\ (Endless \/ round < Rounds)
NextRound == IF Endless THEN (round + 1) % Rounds ELSE round + 1

(* verify: the first stage to refuse the program, then the two engines.  Both
   refusing to answer is agreement, but nothing to compare. *)
Verdict(m) ==
  IF m.refused \in {"ub filter", "lowerer", "validator"} THEN "dropped"
  ELSE IF m.refused = "profile" THEN "OUT OF PROFILE"
  ELSE IF m.refused = "capacity" \/ ~ m.framed THEN "OVER HARNESS CAPACITY"
  ELSE IF m.refused \in {"encoder", "size"} \/ m.vm.tag = "step limit" THEN "dropped"
  ELSE IF m.vm.tag = "unspecified"
       THEN IF m.ast.tag = "unspecified" THEN "dropped" ELSE "LOWERER"
  ELSE IF m.vm.tag = "threw" THEN "VM THREW"
  ELSE IF m.ast.tag \in {"unspecified", "step limit"} \/ m.vm.tag = "void" THEN "dropped"
  ELSE IF m.ast # m.vm THEN "LOWERER/VM"
  ELSE "verified"

Drawn(m) == [m EXCEPT !.id = round]
Bulk == round % BulkEvery = 0
Novel(m) == m.sig \notin seen

(* The batch spends its slots on shapes it has not run yet. *)
Covered(m) == ~ Novel(m) /\ 2 * Len(pool) > Batch

Drop(m) ==
  /\ Ready /\ Verdict(m) = "dropped"
  /\ round' = NextRound
  /\ UNCHANGED << sinkVars, phase, corpus, generated, pool, seen, verified,
                  batches, sink, stopped, laneFailure, sigint >>

Disagree(m) ==
  /\ Ready /\ Verdict(m) \notin {"dropped", "verified"}
  /\ findings' = findings \cup {Finding(Verdict(m), Drawn(m))}
  /\ round' = NextRound
  /\ UNCHANGED << queue, answered, exit, ran, phase, corpus, generated, pool,
                  seen, verified, batches, sink, stopped, laneFailure, sigint >>

Skip(m) ==
  /\ Ready /\ Verdict(m) = "verified" /\ Covered(m)
  /\ round' = NextRound
  /\ UNCHANGED << sinkVars, phase, corpus, generated, pool, seen, verified,
                  batches, sink, stopped, laneFailure, sigint >>

(* corpus.length - 1 - (generated++ % (CORPUS_MAX - seeds)), from 1. *)
Replaced == Len(corpus) - generated

(* A program with a new shape joins the corpus, in the place of an older one
   that did so when it is full. *)
Retain(m) ==
  IF ~ Novel(m) \/ Bulk \/ ~ m.small THEN UNCHANGED << corpus, generated >>
  ELSE IF Len(corpus) < CorpusMax
       THEN corpus' = Append(corpus, "derived") /\ UNCHANGED generated
       ELSE /\ corpus' = [corpus EXCEPT ![Replaced] = "derived"]
            /\ generated' = (generated + 1) % (CorpusMax - Seeds)

Keep(m) ==
  /\ Ready /\ Verdict(m) = "verified" /\ ~ Covered(m)
  /\ round' = NextRound /\ seen' = seen \cup {m.sig} /\ Retain(m)
  /\ pool' = Append(pool, Drawn(m)) /\ verified' = verified \cup {Drawn(m)}
  /\ IF Len(pool') >= Batch
     THEN phase' = "batch" /\ queue' = Chunks(pool', BatchLimit)
     ELSE UNCHANGED << phase, queue >>
  /\ UNCHANGED << findings, answered, exit, ran, batches, sink, stopped, laneFailure, sigint >>

(* The loop is over: what is left in the pool is run as well. *)
LastBatch ==
  /\ phase = "drawing" /\ ~ Ready /\ pool # << >>
  /\ phase' = "last batch" /\ queue' = Chunks(pool, BatchLimit)
  /\ UNCHANGED << findings, answered, exit, ran, loopVars, batches, sink,
                  stopped, laneFailure, sigint >>

-----------------------------------------------------------------------------
(* The outer tier. *)

Feeding == phase \in {"batch", "last batch"} /\ queue # << >>
Part == Head(queue)
Indices(part) == 1 .. Len(part)

AtSink(s, next) ==
  /\ Feeding /\ sink = s /\ sink' = next
  /\ UNCHANGED << exit, phase, loopVars, batches, stopped, laneFailure, sigint >>

(* The first program without a result is the one the target hangs on. *)
RunTarget ==
  /\ AtSink("target", IF phase = "last batch" \/ batches % DbgEvery = 0
                      THEN "debug" ELSE "host")
  /\ ran' = ran \cup {Part}
  /\ \E run \in Outcome("answer", Part) :
     LET stop  == Nth(Part, Len(run.results) + 1)
         kind  == IF run.timedOut THEN "HANG" ELSE "BATCH STOPPED"
         wrong == { i \in Indices(Part) :
                      /\ Comparable(run.results[i])
                      /\ ~ Agrees(run.results[i], Part[i].vm) }
     IN  IF run.timedOut \/ Len(run.results) # Len(Part)
         THEN /\ findings' = findings \cup {Finding(kind, stop)}
              /\ UNCHANGED answered
         ELSE /\ findings' = findings \cup
                               { Finding("JIT", Part[i]) : i \in wrong }
              /\ answered' = answered \cup
                               { Part[i] : i \in Indices(Part) \ wrong }
  /\ UNCHANGED queue

(* The same programs in the image whose assertions are live: only whether one
   fired is new. *)
RunTargetDbg ==
  /\ AtSink("debug", "host")
  /\ \E run \in Outcome("debug", Part) :
     LET fired == { i \in Indices(run.results) : run.results[i].tag = "A" }
     IN  findings' = findings \cup
           (IF run.timedOut
            THEN {Finding("DBG HANG", Nth(Part, Len(run.results) + 1))}
            ELSE { Finding("TARGET ASSERT", Nth(Part, i)) : i \in fired })
  /\ UNCHANGED << queue, answered, ran >>

RunHost ==
  /\ AtSink("host", "target")
  /\ findings' = findings \cup
       (IF HostCrashes(Part) THEN {Finding("CRASH", Bisect(Part))} ELSE {})
  /\ queue' = Tail(queue)
  /\ UNCHANGED << answered, ran >>

-----------------------------------------------------------------------------
(* The batch boundary. *)

(* The handler of the signal is a callback: it runs when the main script has
   returned to the event loop, which this one leaves through process.exit. *)
Interrupted == sigint = "handled"

Cadence == DbgEvery * LaneEvery
Batches == (batches + 1) % Cadence

(* Stop conditions, in order: the findings, the clock, and then
   betweenBatches, which runs the two lanes as processes of their own. *)
EndBatch ==
  /\ phase = "batch" /\ queue = << >>
  /\ batches' = Batches /\ pool' = << >>
  /\ \E late \in {FALSE, Timed}, lanesFail \in BOOLEAN :
       /\ lanesFail => ~ Interrupted /\ Batches % LaneEvery = 0
       /\ stopped' = \/ StopOnFinding /\ findings # {}
                     \/ late \/ Interrupted \/ lanesFail
       /\ laneFailure' = lanesFail
  /\ phase' = "drawing"
  /\ UNCHANGED << sinkVars, round, corpus, generated, seen, verified, sink,
                  sigint >>

(* The report, and the code the process leaves with. *)
Report ==
  /\ \/ phase = "drawing" /\ ~ Ready /\ pool = << >>
     \/ phase = "last batch" /\ queue = << >>
  /\ phase' = "over"
  /\ exit' = IF findings = {} /\ ~ laneFailure THEN "clean" ELSE "findings"
  /\ UNCHANGED << queue, findings, answered, ran, loopVars, batches, sink,
                  stopped, laneFailure, sigint >>

(* Before fuzz.ts installs its handler the signal ends the process. *)
Interrupt ==
  /\ exit = "running" /\ sigint = "none"
  /\ \/ /\ phase = "calibrating" /\ phase' = "over" /\ exit' = "killed"
        /\ UNCHANGED sigint
     \/ /\ phase \in {"drawing", "batch", "last batch"} /\ sigint' = "queued"
        /\ UNCHANGED << phase, exit >>
  /\ UNCHANGED << queue, findings, answered, ran, loopVars, batches, sink,
                  stopped, laneFailure >>

-----------------------------------------------------------------------------
CampaignStep ==
  \/ Calibrate
  \/ \E m \in Mutants : Drop(m) \/ Disagree(m) \/ Skip(m) \/ Keep(m)
  \/ RunTarget \/ RunTargetDbg \/ RunHost
  \/ EndBatch \/ LastBatch \/ Report
=============================================================================
