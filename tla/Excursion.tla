------------------------------ MODULE Excursion ------------------------------
(***************************************************************************)
(* Executor::run around enterDispatch, the ways out of the compiled code,  *)
(* and Executor::cancel, which an interrupt may call between any two       *)
(* instructions of all this.  One action stands for the instructions up to *)
(* the next write that a cancel, or the landing it forces, can see: live,  *)
(* the sentinel slot, sp, r8 and the registers a landing is entered with.  *)
(***************************************************************************)
EXTENDS Integers, Sequences, SequencesExt

CONSTANTS
  EntryWords,     (* entry arguments that do not fit the window           *)
  Codes,          (* what a canceller may pass                            *)
  HelperBorrows,  (* whether C helpers use r8 as any AAPCS function may   *)
  MaxWords,       (* bound: words the compiled code has on the stack      *)
  MaxRequests     (* bound: cancellations asked for during one run        *)

ASSUME ExcursionConstants ==
  /\ EntryWords \in Nat /\ MaxWords \in Nat /\ MaxRequests \in Nat
  /\ HelperBorrows \in BOOLEAN
  /\ "none" \notin Codes

VARIABLES
  at,        (* where the mainline is                                      *)
  live,      (* whether Executor::live is set                              *)
  sentinel,  (* slots[0]: whether codePtr holds the landing, and the sp    *)
  stack,     (* what lies between run's frame and sp                       *)
  r8,        (* "host", "table", "borrowed" by a C helper, or "lost"       *)
  regs,      (* r0 and r2, and the sp and landing a jump to it will use    *)
  result,    (* what the last run returned                                 *)
  wanted,    (* the code of a cancellation asked for and not yet accepted  *)
  requests,  (* how many were asked for since run began                    *)
  accepted   (* history: the last code accepted in this run                *)

control == << at, live, sentinel, stack, r8, regs, result >>
canceller == << wanted, requests, accepted >>
vars == << control, canceller >>

NoRegs == [value |-> "none", tag |-> "none", sp |-> 0, landing |-> FALSE]

Goto(p) == at' = p

Pushed(w) == stack' = Append(stack, w)
Popped == stack' = Front(stack)

(* What sp may be moved back over: memory under sp keeps nothing. *)
StackAt(sp) == [i \in 1 .. sp |-> IF i <= Len(stack) THEN stack[i] ELSE "junk"]

Init ==
  /\ at = "outside" /\ live = FALSE
  /\ sentinel = [landing |-> FALSE, sp |-> 0]
  /\ stack = << >> /\ r8 = "host" /\ regs = NoRegs
  /\ result = [value |-> "none", tag |-> "none"]
  /\ wanted = "none" /\ requests = 0 /\ accepted = "none"

(* Once run has returned, its Runtime is whatever the stack is used for. *)
FrameGone ==
  /\ sentinel' \in [landing : {FALSE}, sp : {0, Len(stack) + 2}]

-----------------------------------------------------------------------------
(* run's checks, then a Runtime, whose table starts with a zeroed sentinel. *)
Begin ==
  /\ at = "outside"
  /\ Goto("built")
  /\ sentinel' = [landing |-> FALSE, sp |-> 0]
  /\ requests' = 0 /\ accepted' = "none"
  /\ UNCHANGED << live, stack, r8, regs, result, wanted >>

(* The program is refused: by its frame or its stack budget before there is a
   Runtime, or because it does not load or takes other arguments. *)
Reject ==
  /\ at = "built"
  /\ Goto("outside")
  /\ result' = [value |-> "refused", tag |-> "resource"]
  /\ FrameGone
  /\ UNCHANGED << live, stack, r8, regs, canceller >>

Publish ==
  /\ at = "built"
  /\ Goto("entering") /\ live' = TRUE
  /\ UNCHANGED << sentinel, stack, r8, regs, result, canceller >>

SaveLow ==
  /\ at = "entering"
  /\ Goto("lowSaved") /\ Pushed("low")
  /\ UNCHANGED << live, sentinel, r8, regs, result, canceller >>

SaveHigh ==
  /\ at = "lowSaved"
  /\ Goto("highSaved") /\ Pushed("high")
  /\ UNCHANGED << live, sentinel, r8, regs, result, canceller >>

WriteLanding ==
  /\ at = "highSaved"
  /\ Goto("landingWritten")
  /\ r8' = "table" /\ sentinel' = [sentinel EXCEPT !.landing = TRUE]
  /\ UNCHANGED << live, stack, regs, result, canceller >>

ParkSp ==
  /\ at = "landingWritten"
  /\ Goto("armed")
  /\ sentinel' = [landing |-> TRUE, sp |-> Len(stack)]
  /\ UNCHANGED << live, stack, r8, regs, result, canceller >>

PushArgument ==
  /\ at = "armed"
  /\ Len(stack) < 2 + EntryWords
  /\ Pushed("arg")
  /\ UNCHANGED << at, live, sentinel, r8, regs, result, canceller >>

EnterCode ==
  /\ at = "armed"
  /\ Len(stack) = 2 + EntryWords
  /\ Goto("compiled")
  /\ UNCHANGED << live, sentinel, stack, r8, regs, result, canceller >>

-----------------------------------------------------------------------------
(* Compiled code: spills, return records, C helpers and the translator. *)
Spill ==
  /\ at = "compiled"
  /\ Len(stack) < 2 + EntryWords + MaxWords
  /\ Pushed("word")
  /\ UNCHANGED << at, live, sentinel, r8, regs, result, canceller >>

Reload ==
  /\ at = "compiled"
  /\ Len(stack) > 2 + EntryWords
  /\ Popped
  /\ UNCHANGED << at, live, sentinel, r8, regs, result, canceller >>

CallHelper ==
  /\ at = "compiled"
  /\ Goto("helper") /\ Pushed("thunk")
  /\ r8' = IF HelperBorrows THEN "borrowed" ELSE "table"
  /\ UNCHANGED << live, sentinel, regs, result, canceller >>

HelperReturns ==
  /\ at = "helper"
  /\ Goto("compiled") /\ Popped
  /\ r8' = "table"
  /\ UNCHANGED << live, sentinel, regs, result, canceller >>

EnterTranslator ==
  /\ at = "compiled"
  /\ Goto("translator") /\ Pushed("frame")
  /\ UNCHANGED << live, sentinel, r8, regs, result, canceller >>

LeaveTranslator ==
  /\ at = "translator"
  /\ Goto("compiled") /\ Popped
  /\ UNCHANGED << live, sentinel, r8, regs, result, canceller >>

\* Faulty form: the tag register is left as it was.
JumpWith_KeepsTag(value, tag) ==
  /\ Goto("jump")
  /\ regs' = [value |-> value, tag |-> regs.tag,
              sp |-> sentinel.sp, landing |-> sentinel.landing]
  /\ UNCHANGED << live, sentinel, stack, r8, result >>

(* trapHelper and runtimeBail load the registers asyncAbortTrampoline is
   given, and end in the same two instructions. *)
JumpWith(value, tag) ==
  /\ Goto("jump")
  /\ regs' = [value |-> value, tag |-> tag,
              sp |-> sentinel.sp, landing |-> sentinel.landing]
  /\ UNCHANGED << live, sentinel, stack, r8, result >>

Trap == at = "compiled" /\ JumpWith("trap", "trap") /\ UNCHANGED canceller

Bail == at = "translator" /\ JumpWith("exhausted", "resource")
                          /\ UNCHANGED canceller

(* The entry procedure's epilogue drops its own arguments; the landing it
   finds is the sentinel's codePtr. *)
Return ==
  /\ at = "compiled"
  /\ Len(stack) = 2 + EntryWords
  /\ stack' = SubSeq(stack, 1, 2)
  /\ regs' = [regs EXCEPT !.value = "own", !.tag = "success"]
  /\ Goto("resume")
  /\ UNCHANGED << live, sentinel, r8, result, canceller >>

-----------------------------------------------------------------------------
MoveSp ==
  /\ at = "jump"
  /\ Goto("branch")
  /\ stack' = StackAt(regs.sp)
  /\ UNCHANGED << live, sentinel, r8, regs, result, canceller >>

BranchToLanding ==
  /\ at = "branch"
  /\ Goto(IF regs.landing THEN "resume" ELSE "lost")
  /\ UNCHANGED << live, sentinel, stack, r8, regs, result, canceller >>

\* Faulty form: the landing leaves the excursion armed.
Disarm_Forgotten ==
  /\ at = "resume"
  /\ Goto("popHigh")
  /\ UNCHANGED << live, sentinel, stack, r8, regs, result, canceller >>

(* The slot is found through r8, whatever r8 holds by then. *)
Disarm ==
  /\ at = "resume"
  /\ Goto("popHigh")
  /\ sentinel' = IF r8 = "table" THEN [sentinel EXCEPT !.sp = 0] ELSE sentinel
  /\ UNCHANGED << live, stack, r8, regs, result, canceller >>

PopHigh ==
  /\ at = "popHigh"
  /\ Goto("popLow") /\ Popped
  /\ r8' = IF Last(stack) = "high" THEN "host" ELSE "lost"
  /\ UNCHANGED << live, sentinel, regs, result, canceller >>

PopLow ==
  /\ at = "popLow"
  /\ Goto(IF Last(stack) = "low" THEN "returned" ELSE "lost") /\ Popped
  /\ UNCHANGED << live, sentinel, r8, regs, result, canceller >>

Finish ==
  /\ at = "returned"
  /\ Goto("outside")
  /\ live' = FALSE
  /\ result' = [value |-> regs.value, tag |-> regs.tag]
  /\ FrameGone
  /\ UNCHANGED << stack, r8, regs, canceller >>

-----------------------------------------------------------------------------
Request(c) ==
  /\ wanted = "none" /\ requests < MaxRequests
  /\ wanted' = c /\ requests' = requests + 1
  /\ UNCHANGED << control, accepted >>

\* Faulty form: live alone is taken to mean there is a landing.
Cancel_LiveOnly ==
  /\ wanted # "none"
  /\ live
  /\ JumpWith(wanted, "cancelled")
  /\ accepted' = wanted /\ wanted' = "none"
  /\ UNCHANGED requests

\* Faulty form: refuses while the program has anything on its stack.
Cancel_OnlyAtLandingSp ==
  /\ wanted # "none"
  /\ live
  /\ sentinel.sp # 0 /\ sentinel.sp = Len(stack)
  /\ JumpWith(wanted, "cancelled")
  /\ accepted' = wanted /\ wanted' = "none"
  /\ UNCHANGED requests

(* cancel, when it says true.  When it says false it has changed nothing and
   the canceller still wants what it wanted. *)
Cancel ==
  /\ wanted # "none"
  /\ live
  /\ sentinel.sp # 0
  /\ JumpWith(wanted, "cancelled")
  /\ accepted' = wanted /\ wanted' = "none"
  /\ UNCHANGED requests

-----------------------------------------------------------------------------
Enter == Begin \/ Reject \/ Publish \/ SaveLow \/ SaveHigh \/ WriteLanding
               \/ ParkSp \/ PushArgument \/ EnterCode

Execute == Spill \/ Reload \/ CallHelper \/ HelperReturns \/ EnterTranslator
                 \/ LeaveTranslator \/ Trap \/ Bail \/ Return

Land == MoveSp \/ BranchToLanding \/ Disarm \/ PopHigh \/ PopLow \/ Finish

Next == Enter \/ Execute \/ Land \/ Cancel \/ \E c \in Codes : Request(c)

(* The way in and the way out are straight-line code; the compiled program
   may loop forever.  The canceller's interrupt keeps coming. *)
Fairness ==
  /\ WF_vars(Land)
  /\ WF_vars(Enter /\ at # "outside")
  /\ WF_vars(Cancel)

Spec == Init /\ [][Next]_vars

FairSpec == Spec /\ Fairness

-----------------------------------------------------------------------------
(* Properties *)

(* Wherever a cancellation hits, the landing pops the registers enterDispatch
   saved, and run goes on with the host's registers and its own sp. *)
HostResumes ==
  /\ at # "lost"
  /\ at = "popHigh" => stack = << "low", "high" >>
  /\ at \in {"outside", "returned"} => stack = << >> /\ r8 = "host"

(* From the pops on there is nothing to land on, and a cancel is told so:
   ".Lresume clears it before the pops take sp off it" (design.md, 19). *)
DisarmedBeforePops == at \in {"popHigh", "popLow", "returned"} => sentinel.sp = 0

(* A run whose canceller was told true ends as cancelled, with the code of
   the last one told so, even if it was trapping or returning already; no
   other run ends so. *)
AcceptedCancelWins ==
  (at = "outside" /\ result.tag # "none") =>
    /\ accepted # "none" => result = [value |-> accepted, tag |-> "cancelled"]
    /\ result.tag = "cancelled" => accepted # "none"

(* A canceller that retries ends any run, an endless loop included. *)
CancelEndsRun == (wanted # "none" /\ at # "outside") ~> at = "outside"
=============================================================================
