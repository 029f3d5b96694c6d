----------------------------- MODULE StackMargin -----------------------------
(***************************************************************************)
(* The stack margin tool (src/tools/stack-margin.ts): from the compiler's  *)
(* call graphs, the most stack a call of a function can need before the    *)
(* next function that checks the floor itself, or a rejection.             *)
(***************************************************************************)
EXTENDS Integers, Sequences, FiniteSets

CONSTANTS
  Defined,    \* the functions with a body: pairs of a file and a signature
  Root,       \* the signature the margin is asked for
  CallSites,  \* the calls that may be there: triples of file, caller, callee
  Frames      \* the sizes of frame the functions may have: functions on them

Indirect == "indirect"

ASSUME StackMarginAssumption ==
  /\ IsFiniteSet(Defined) /\ \A f \in Defined : f = <<f[1], f[2]>>
  /\ Frames \subseteq [Defined -> Nat] /\ \E f \in Defined : f[2] = Root
  /\ \A c \in CallSites : <<c[1], c[2]>> \in Defined

VARIABLES
  calls,    \* the call sites the program has
  frame,    \* each function's frame
  guarded,  \* the signatures that check the floor themselves
  dynamic,  \* the functions whose frame is not static
  margin    \* the tool's answer: not asked, or what it prints

marginVars == <<calls, frame, guarded, dynamic, margin>>

NotAsked == [rejected |-> FALSE, bytes |-> -1]

-----------------------------------------------------------------------------
(* A function in the caller's own file hides those of other files; else every
   definition of the name may be meant. *)
Resolve(f, callee) ==
  IF <<f[1], callee>> \in Defined THEN {<<f[1], callee>>}
  ELSE { g \in Defined : g[2] = callee }

Callees(f) == { c[3] : c \in { d \in calls : <<d[1], d[2]>> = f } }
MayCall(f) == UNION { Resolve(f, n) : n \in Callees(f) \ {Indirect} }
Unresolved(f) == \E n \in Callees(f) : n = Indirect \/ Resolve(f, n) = {}

Biggest(S) == CHOOSE m \in S : \A o \in S : o <= m

(* The walk keeps the bytes it last computed, the functions finished in memo,
   the cuts made, and whether there is a problem.  It remembers of its stack
   the signatures on it, and the caller at its top. *)
Signatures == { f[2] : f \in Defined }
NoCaller == << >>
Callers == Defined \cup {NoCaller}
Unseen == -1
States == [bytes : Nat, memo : [Defined -> Nat \cup {Unseen}],
           cuts : SUBSET (Signatures \X Signatures), problem : BOOLEAN]
Found(bytes, memo, cuts, problem) ==
  [bytes |-> bytes, memo |-> memo, cuts |-> cuts, problem |-> problem]
Fail(s) == [s EXCEPT !.bytes = 0, !.problem = TRUE]

(* The worst of some definitions, in any order, by the walk of each. *)
Best(walk, nodes, caller, s) ==
  LET after[seen \in SUBSET nodes] ==
        IF seen = {} THEN [s EXCEPT !.bytes = 0]
        ELSE LET n == CHOOSE f \in seen : TRUE
                 before == after[seen \ {n}]
             IN [walk[n, caller, before] EXCEPT !.bytes = Biggest({before.bytes, @})]
  IN after[nodes]

(* f is finished, and remembered if nothing new was cut below it. *)
Finish(f, s, below) ==
  LET bytes == frame[f] + below.bytes
  IN [below EXCEPT !.bytes = bytes,
                   !.memo = IF below.cuts # s.cuts THEN @ ELSE [@ EXCEPT ![f] = bytes]]

(* A guarded callee counts its frame only: its prologue runs before its own
   check does.  The root is never cut.  The calls of f are walked, by walk,
   with f on the stack. *)
\* Faulty form: a guarded callee counts nothing.
WalkOne_GuardedFree(walk, onStack, f, caller, s) ==
  IF caller # NoCaller /\ f[2] \in guarded
  THEN [s EXCEPT !.bytes = 0, !.cuts = @ \cup {<<f[2], caller[2]>>}]
  ELSE IF f[2] \in onStack THEN Fail(s)
  ELSE IF s.memo[f] # Unseen THEN [s EXCEPT !.bytes = s.memo[f]]
  ELSE Finish(f, s, Best(walk, MayCall(f), f,
                         [s EXCEPT !.problem = @ \/ f \in dynamic \/ Unresolved(f)]))
WalkOne(walk, onStack, f, caller, s) ==
  IF caller # NoCaller /\ f[2] \in guarded
  THEN [s EXCEPT !.bytes = frame[f], !.cuts = @ \cup {<<f[2], caller[2]>>}]
  ELSE IF f[2] \in onStack THEN Fail(s)
  ELSE IF s.memo[f] # Unseen THEN [s EXCEPT !.bytes = s.memo[f]]
  ELSE Finish(f, s, Best(walk, MayCall(f), f,
                         [s EXCEPT !.problem = @ \/ f \in dynamic \/ Unresolved(f)]))
WalkFrom[onStack \in SUBSET Signatures] ==
  [q \in Defined \X Callers \X States |->
     WalkOne(WalkFrom[onStack \cup {q[1][2]}], onStack, q[1], q[2], q[3])]

(* Every definition of the signature, with nothing remembered. *)
Roots == { f \in Defined : f[2] = Root }
Margin ==
  LET s == Best(WalkFrom[{}], Roots, NoCaller, Found(0, [f \in Defined |-> Unseen], {}, FALSE))
  IN [rejected |-> s.problem, bytes |-> IF s.problem THEN 0 ELSE s.bytes]

-----------------------------------------------------------------------------
MarginInit ==
  /\ calls \in SUBSET CallSites
  /\ frame \in Frames
  /\ guarded \in SUBSET Signatures
  /\ dynamic \in { D \in SUBSET Defined : Cardinality(D) <= 1 }
  /\ margin = NotAsked

Measure ==
  /\ margin = NotAsked
  /\ margin' = Margin
  /\ UNCHANGED <<calls, frame, guarded, dynamic>>

MarginSpec == MarginInit /\ [][Measure]_marginVars

-----------------------------------------------------------------------------
(* What the functions really do at run time: chains of calls from a root, each
   to a definition its name may mean, that end where a guarded one checks, or
   where one runs that is running already. *)
Top(chain) == chain[Len(chain)]
Runs(chain) == Len(chain) = 1 \/ Top(chain)[2] \notin guarded
Repeats(chain) == Runs(chain) /\ \E i \in 1 .. Len(chain) - 1 : chain[i] = Top(chain)

(* By the number of calls: a chain without repetition has no more functions
   than there are. *)
ChainsOf[n \in 0 .. Cardinality(Defined)] ==
  IF n = 0 THEN { << f >> : f \in Roots }
  ELSE UNION { { Append(c, g) : g \in MayCall(Top(c)) } :
                 c \in { d \in ChainsOf[n - 1] : Runs(d) /\ ~ Repeats(d) } }
AllChains == UNION { ChainsOf[n] : n \in 0 .. Cardinality(Defined) }

Depth(chain) ==
  LET upTo[n \in 0 .. Len(chain)] ==
        IF n = 0 THEN 0 ELSE upTo[n - 1] + frame[chain[n]]
  IN upTo[Len(chain)]

(* Functions that run in full on some chain. *)
RunInFull == { Top(chain) : chain \in { c \in AllChains : Runs(c) } }
NoBound ==
  \/ \E f \in RunInFull : f \in dynamic \/ Unresolved(f)
  \/ \E chain \in AllChains : Repeats(chain)

(* A margin the tool prints is the deepest stack any chain of calls needs, and
   it prints none where there is no bound: recursion that nothing guards, a
   frame of dynamic size, or a call whose target is not known.  What it skips
   on the way (a function already measured, a callee that checks for itself)
   loses no chain. *)
MarginIsWorst ==
  margin # NotAsked /\ ~ margin.rejected =>
    ~ NoBound /\ margin.bytes = Biggest({ Depth(c) : c \in AllChains })
=============================================================================
