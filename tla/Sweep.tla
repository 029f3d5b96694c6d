-------------------------------- MODULE Sweep --------------------------------
(***************************************************************************)
(* The sweep of qemu-exec.ts: saved programs on the target against the     *)
(* reference VM, a work queue of batches in which a batch cut short by a   *)
(* hang puts its own tail back.                                            *)
(***************************************************************************)
EXTENDS BatchSinks

CONSTANTS
  Saved,       (* the programs in a directory, each as classify lets it
                  through                                                  *)
  MaxSaved,    (* bound: how many there are                                *)
  SweepLimit   (* BATCH_LIMIT of qemu-exec.ts, not the runner's            *)

ASSUME SweepConstants ==
  /\ MaxSaved \in Nat /\ SweepLimit \in Nat /\ SweepLimit <= BatchLimit
  /\ \A p \in Saved : IsProgram(p)

(* classify: a program without a reference answer is skipped. *)
Runnable(p) == p.vm.tag \in {"R", "T"}

SweepInit ==
  /\ \E n \in 1 .. MaxSaved :
       \E files \in [1 .. n -> { p \in Saved : Runnable(p) }] :
         queue = Chunks([i \in 1 .. n |-> [files[i] EXCEPT !.id = i]],
                        SweepLimit)
  /\ findings = {} /\ answered = {} /\ ran = {} /\ exit = "running"

Sweeping == exit = "running" /\ queue # << >>
Current == Head(queue)

\* Faulty form: puts the program that hung back as well.
Behind_WithCulprit(batch, done) == SubSeq(batch, done + 1, Len(batch))
Behind(batch, done) == SubSeq(batch, done + 2, Len(batch))

(* A timeout: the first program without a line hung.  It is stepped over and
   what stood behind it requeued; what was answered before is not compared. *)
StepOver ==
  /\ Sweeping
  /\ \E run \in Outcome("answer", Current) :
       LET done == Len(run.results)
           rest == Behind(Current, done)
       IN  /\ run.timedOut
           /\ findings' = findings \cup
                            {Finding("HANG", Nth(Current, done + 1))}
           /\ queue' = Tail(queue) \o IF rest = << >> THEN << >> ELSE << rest >>
  /\ ran' = ran \cup {Current}
  /\ UNCHANGED << answered, exit >>

(* The runner broke off on its own: the whole sweep ends here. *)
StopShort ==
  /\ Sweeping
  /\ \E run \in Outcome("answer", Current) :
       ~ run.timedOut /\ Len(run.results) # Len(Current)
  /\ ran' = ran \cup {Current} /\ exit' = "stopped"
  /\ UNCHANGED << queue, findings, answered >>

Compare ==
  /\ Sweeping
  /\ \E run \in Outcome("answer", Current) :
       LET index == 1 .. Len(Current)
           wrong == { i \in index : /\ Comparable(run.results[i])
                                    /\ ~ Agrees(run.results[i], Current[i].vm) }
       IN  /\ ~ run.timedOut /\ Len(run.results) = Len(Current)
           /\ findings' = findings \cup
                            { Finding("MISMATCH", Current[i]) : i \in wrong }
           /\ answered' = answered \cup { Current[i] : i \in index \ wrong }
  /\ ran' = ran \cup {Current} /\ queue' = Tail(queue)
  /\ UNCHANGED exit

Summarize ==
  /\ exit = "running" /\ queue = << >>
  /\ exit' = IF findings = {} THEN "clean" ELSE "findings"
  /\ UNCHANGED << queue, findings, answered, ran >>
=============================================================================
