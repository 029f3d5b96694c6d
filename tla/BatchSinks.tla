------------------------------ MODULE BatchSinks ------------------------------
(***************************************************************************)
(* The out-of-process sinks of the fuzzer and the file they read: a batch  *)
(* of programs goes to an emulated target, which walks it and prints its   *)
(* answers line by line, or to the host build of the translator.  Both run *)
(* while their caller waits, so what they do is an operator here, and the  *)
(* state is what the tools that call them keep.                            *)
(*                                                                         *)
(* A program is what the tools and the sinks make of it: the answers of    *)
(* the two reference engines and of the emitted code, each a tag with a    *)
(* value and the digest of the extension's buffer, and its other faults.   *)
(***************************************************************************)
EXTENDS Naturals, Sequences, SequencesExt, FiniteSetsExt

CONSTANT
  BatchLimit   (* the window the runner reads the batch from               *)

ASSUME BatchConstants == BatchLimit \in Nat

VARIABLES
  queue,     (* the batches still to run, the current one first            *)
  findings,  (* what was reported: a kind and the program it names         *)
  answered,  (* the programs counted as agreeing, bailed out or rejected   *)
  exit,      (* how the tool ended, "running" until then                   *)
  ran        (* history: the batches the target was handed                 *)

sinkVars == << queue, findings, answered, exit, ran >>

Answer(tag, value, mem) == [tag |-> tag, value |-> value, mem |-> mem]
HeaderBytes == 8
NoDigest == 0   (* where none was printed *)
Finding(kind, program) == [kind |-> kind, of |-> program]

(* What a program can be.  No record the runner can frame is too long for the
   window: PROGRAM_MAX and the most arguments are far less. *)
EngineTags == {"R", "T", "unspecified", "step limit", "threw", "void"}
TargetTags == {"R", "T", "E", "spins"}
Refusals == {"none", "ub filter", "lowerer", "validator", "profile", "capacity",
             "encoder", "size"}
Answers(tags) == [tag : tags, value : Nat, mem : Nat]
Programs ==
  [id : Nat, need : Nat, sig : Nat, small : BOOLEAN, framed : BOOLEAN,
   refused : Refusals, asserts : BOOLEAN, crashes : BOOLEAN,
   ast : Answers(EngineTags), vm : Answers(EngineTags),
   target : Answers(TargetTags)]
IsProgram(p) ==
  /\ p \in Programs
  /\ p.framed => HeaderBytes + p.need <= BatchLimit
  /\ p.target.tag # "spins" => p.target.mem # NoDigest

(* batch[i] past the end of batch is undefined in the code. *)
NoProgram == [id |-> "none"]
Nth(batch, i) == IF i \in 1 .. Len(batch) THEN batch[i] ELSE NoProgram

-----------------------------------------------------------------------------
(* The batch file. *)

(* In order, each as long as fits the window above the image: what is closed
   before entry i + 1, and what is still open. *)
Packed(entries, limit) ==
  LET upTo[i \in 0 .. Len(entries)] ==
        IF i = 0
        THEN [closed |-> << >>, current |-> << >>, bytes |-> HeaderBytes]
        ELSE LET c == upTo[i - 1]
                 e == entries[i]
             IN  IF c.bytes + e.need > limit /\ c.current # << >>
                 THEN [closed |-> Append(c.closed, c.current),
                       current |-> << e >>, bytes |-> HeaderBytes + e.need]
                 ELSE [c EXCEPT !.current = Append(@, e), !.bytes = @ + e.need]
  IN  upTo[Len(entries)]

\* Faulty form: the chunk that is still open at the end is not kept.
Chunks_DropsLast(entries, limit) == Packed(entries, limit).closed

Chunks(entries, limit) ==
  LET end == Packed(entries, limit)
  IN  IF end.current = << >> THEN end.closed ELSE Append(end.closed, end.current)

-----------------------------------------------------------------------------
(* The emulated target. *)

Line(tag, value) == [tag |-> tag, value |-> value]

(* What becomes of the i-th program.  A record the runner cannot frame, one
   past the window or with more arguments than its buffer, ends the walk; so
   does a firing assertion, in the image that has them; code that spins ends
   nothing, the caller's timeout does. *)
Ends(batch) ==
  LET end[i \in 0 .. Len(batch)] ==
        IF i = 0 THEN HeaderBytes ELSE end[i - 1] + batch[i].need
  IN  end
Fate(image, batch, i) ==
  IF Ends(batch)[i] > BatchLimit \/ ~ batch[i].framed THEN "rejected"
  ELSE IF image = "debug" /\ batch[i].asserts THEN "asserts"
  ELSE IF batch[i].target.tag = "spins" THEN "spins"
  ELSE "answers"

(* Every answer is followed by the digest of the extension's buffer. *)
Prints(fate, p) ==
  CASE fate = "rejected" -> << Line("X", 0) >>
    [] fate = "asserts"  -> << Line("A", 0) >>
    [] fate = "spins"    -> << >>
    [] fate = "answers"  -> << Line(p.target.tag, p.target.value),
                               Line("M", p.target.mem) >>

(* What its caller reads: the lines up to the program that ended the walk, and
   whether the emulator had to be killed. *)
RunQemu(image, batch) ==
  LET stops == { i \in 1 .. Len(batch) : Fate(image, batch, i) # "answers" }
      last  == IF stops = {} THEN Len(batch) ELSE Min(stops)
      fate  == IF stops = {} THEN "answers" ELSE Fate(image, batch, last)
      lines == FlattenSeq([i \in 1 .. last |->
                             Prints(Fate(image, batch, i), batch[i])])
  IN  [output |-> IF fate \in {"asserts", "spins"} THEN lines
                  ELSE Append(lines, Line("DONE", 0)),
       timedOut |-> fate = "spins"]

\* Faulty form: takes a digest for a result of its own.
ResultTags_WithDigest == {"R", "T", "E", "X", "A", "M"}
ResultTags == {"R", "T", "E", "X", "A"}

(* Results and their digests interleave: a digest belongs to the result
   before it. *)
ParseResults(output) ==
  LET results[k \in 0 .. Len(output)] ==
        IF k = 0 THEN << >>
        ELSE LET line == output[k]
                 before == results[k - 1]
             IN  IF line.tag \in ResultTags
                 THEN Append(before, Answer(line.tag, line.value, NoDigest))
                 ELSE IF line.tag = "M" /\ before # << >>
                 THEN [before EXCEPT ![Len(before)] =
                         Answer(@.tag, @.value, line.value)]
                 ELSE before
  IN  results[Len(output)]

(* Running a batch, as both tools go about it: a set of the one outcome, which
   \E evaluates once. *)
Outcome(image, batch) ==
  { [timedOut |-> run.timedOut, results |-> ParseResults(run.output)] :
      run \in { RunQemu(image, batch) } }

\* Faulty form: does not look at the digest.
Agrees_NoDigest(result, expected) ==
  result.tag = expected.tag /\ result.value = expected.value

(* What is compared of an answer.  A bail or a rejection is not. *)
Comparable(result) == result.tag \in {"R", "T"}
Agrees(result, expected) ==
  /\ result.tag = expected.tag /\ result.value = expected.value
  /\ result.mem \in {NoDigest, expected.mem}

-----------------------------------------------------------------------------
(* The host translator, under sanitizers and with assertions: the first
   program that crashes takes the process with it. *)

HostCrashes(batch) == \E i \in 1 .. Len(batch) : batch[i].crashes

(* bisect: the half that still crashes, until it is one program. *)
Bisect(batch) ==
  LET remaining[k \in 0 .. Len(batch)] ==
        IF k = 0 THEN batch
        ELSE LET part == remaining[k - 1]
                 half == Len(part) \div 2
             IN  IF Len(part) <= 1 THEN part
                 ELSE IF HostCrashes(SubSeq(part, 1, half))
                 THEN SubSeq(part, 1, half) ELSE SubSeq(part, half + 1, Len(part))
  IN  Nth(remaining[Len(batch)], 1)
=============================================================================
