-------------------------- MODULE ProgramLoad_proofs --------------------------
(***************************************************************************)
(* That the scan and the translator agree on where a body ends and on who  *)
(* saves lr, for any number of procedures, tables of any size, constructs  *)
(* nested to any depth and bodies of any length.                           *)
(***************************************************************************)
EXTENDS ProgramLoad, SequenceTheorems, TLAPS

Constructs == [loop : BOOLEAN, block : Nat, last : Nat]
ScanFrames == [remaining : Nat, dispatch : BOOLEAN]
Functions_ == {"undecided", "maybeEmpty", "IfThenElse", "IfThen", "Switch", "Loop"}
Calls == [fn : Functions_, block : Nat, last : Nat]
Phases == {"frame", "budget", "header", "body", "scanned", "entered", "refused"}

Types ==
  /\ phase \in Phases /\ pos \in Nat
  /\ truth \in Seq(Constructs)
  /\ scan \in [from : Nat, frames : Seq(ScanFrames), lr : BOOLEAN]
  /\ trans \in [calls : Seq(Calls), ended : Int, helper : BOOLEAN]
  /\ slots \in Seq([from : Nat, to : Nat, lr : BOOLEAN])
  /\ bodies \in Seq([from : Nat, to : Nat, helper : BOOLEAN])

(* An open construct as the program has it, as the scan counts it and as the
   translator's call remembers it: all three have as many blocks left.  A
   BR_TABLE 1 whose first instruction is yet to be peeked at has two. *)
SameConstruct(t, f, c) ==
  /\ t.block <= t.last
  /\ f.remaining = t.last - t.block + 1
  /\ c.last - c.block = t.last - t.block
  /\ c.fn = "undecided" => c.block = 0 /\ c.last = 1

Agree(ts, fs, cs) ==
  /\ ts \in Seq(Constructs) /\ fs \in Seq(ScanFrames) /\ cs \in Seq(Calls)
  /\ Len(fs) = Len(ts) /\ Len(cs) = Len(ts)
  /\ \A i \in 1 .. Len(ts) : SameConstruct(ts[i], fs[i], cs[i])

-----------------------------------------------------------------------------
(* Stacks *)

LEMMA DropTop ==
  ASSUME NEW S, NEW s \in Seq(S), s # << >>
  PROVE  /\ Front(s) \in Seq(S) /\ Len(Front(s)) = Len(s) - 1
         /\ \A i \in 1 .. Len(s) - 1 : Front(s)[i] = s[i]
         /\ Last(s) = s[Len(s)] /\ Last(s) \in S
  <1>1. Len(s) \in Nat \ {0}
    BY EmptySeq
  <1>2. \A i \in 1 .. Len(s) : s[i] \in S
    BY ElementOfSeq
  <1>3. /\ SubSeq(s, 1, Len(s) - 1) \in Seq(S)
        /\ Len(SubSeq(s, 1, Len(s) - 1)) = Len(s) - 1
        /\ \A i \in 1 .. Len(s) - 1 : SubSeq(s, 1, Len(s) - 1)[i] = s[i]
    <2> DEFINE n == Len(s) - 1
    <2>1. n \in Int /\ \A i \in 1 .. n : s[i] \in S
      BY <1>1, <1>2
    <2>2. /\ SubSeq(s, 1, n) \in Seq(S)
          /\ Len(SubSeq(s, 1, n)) = IF 1 <= n THEN n - 1 + 1 ELSE 0
          /\ \A i \in 1 .. n - 1 + 1 : SubSeq(s, 1, n)[i] = s[1 + i - 1]
      BY <2>1, SubSeqProperties
    <2>3. n - 1 + 1 = n /\ \A i \in 1 .. n : 1 + i - 1 = i
      BY <1>1
    <2>4. QED
      BY <1>1, <2>2, <2>3
  <1> QED
    BY <1>1, <1>2, <1>3 DEF Front, Last

LEMMA PushTop ==
  ASSUME NEW S, NEW s \in Seq(S), NEW x \in S
  PROVE  /\ Append(s, x) \in Seq(S) /\ Len(Append(s, x)) = Len(s) + 1
         /\ \A i \in 1 .. Len(s) + 1 :
              Append(s, x)[i] = IF i = Len(s) + 1 THEN x ELSE s[i]
  OBVIOUS

(* r is s with x for its last element. *)
TopReplaced(S, s, x, r) ==
  /\ r \in Seq(S) /\ Len(r) = Len(s)
  /\ \A i \in 1 .. Len(s) : r[i] = IF i = Len(s) THEN x ELSE s[i]

LEMMA ReplaceTop ==
  ASSUME NEW S, NEW s \in Seq(S), s # << >>, NEW x \in S
  PROVE  TopReplaced(S, s, x, Replace(s, x))
  <1>1. /\ Front(s) \in Seq(S) /\ Len(Front(s)) = Len(s) - 1
        /\ \A i \in 1 .. Len(s) - 1 : Front(s)[i] = s[i]
    BY DropTop
  <1>2. Len(s) \in Nat \ {0}
    BY EmptySeq
  <1>3. /\ Append(Front(s), x) \in Seq(S) /\ Len(Append(Front(s), x)) = Len(s)
        /\ \A i \in 1 .. Len(s) :
             Append(Front(s), x)[i] = IF i = Len(s) THEN x ELSE Front(s)[i]
    BY <1>1, <1>2, PushTop
  <1> QED
    BY <1>1, <1>2, <1>3 DEF Replace, TopReplaced

LEMMA AgreeTop ==
  ASSUME NEW ts, NEW fs, NEW cs, Agree(ts, fs, cs), ts # << >>
  PROVE  /\ fs # << >> /\ cs # << >>
         /\ Last(ts) \in Constructs /\ Last(fs) \in ScanFrames /\ Last(cs) \in Calls
         /\ SameConstruct(Last(ts), Last(fs), Last(cs))
  <1>1. Len(ts) \in Nat \ {0}
    BY EmptySeq DEF Agree
  <1>2. fs # << >> /\ cs # << >>
    BY <1>1, EmptySeq DEF Agree
  <1>3. /\ Last(ts) = ts[Len(ts)] /\ Last(fs) = fs[Len(ts)] /\ Last(cs) = cs[Len(ts)]
        /\ Last(ts) \in Constructs /\ Last(fs) \in ScanFrames /\ Last(cs) \in Calls
    BY <1>2, DropTop DEF Agree
  <1> QED
    BY <1>1, <1>2, <1>3 DEF Agree

(* The three stacks open, close and go on together. *)
LEMMA AgreeOpen ==
  ASSUME NEW ts, NEW fs, NEW cs, Agree(ts, fs, cs),
         NEW t \in Constructs, NEW f \in ScanFrames, NEW c \in Calls,
         SameConstruct(t, f, c)
  PROVE  Agree(Append(ts, t), Append(fs, f), Append(cs, c))
  <1>1. /\ ts \in Seq(Constructs) /\ fs \in Seq(ScanFrames) /\ cs \in Seq(Calls)
        /\ Len(ts) \in Nat /\ Len(fs) = Len(ts) /\ Len(cs) = Len(ts)
    BY LenProperties DEF Agree
  <1> DEFINE tt == Append(ts, t)
             ff == Append(fs, f)
             cc == Append(cs, c)
             n == Len(ts) + 1
  <1>2. /\ tt \in Seq(Constructs) /\ Len(tt) = n
        /\ \A i \in 1 .. n : tt[i] = IF i = n THEN t ELSE ts[i]
    BY <1>1, PushTop
  <1>3. /\ ff \in Seq(ScanFrames) /\ Len(ff) = n
        /\ \A i \in 1 .. n : ff[i] = IF i = n THEN f ELSE fs[i]
    BY <1>1, PushTop
  <1>4. /\ cc \in Seq(Calls) /\ Len(cc) = n
        /\ \A i \in 1 .. n : cc[i] = IF i = n THEN c ELSE cs[i]
    BY <1>1, PushTop
  <1> HIDE DEF tt, ff, cc
  <1>5. ASSUME NEW i \in 1 .. n
        PROVE  SameConstruct(tt[i], ff[i], cc[i])
    <2>1. CASE i = n
      <3>1. tt[i] = t /\ ff[i] = f /\ cc[i] = c
        BY <1>2, <1>3, <1>4, <2>1
      <3> QED
        BY <3>1, SameConstruct(t, f, c)
    <2>2. CASE i # n
      <3>1. i \in 1 .. Len(ts) /\ tt[i] = ts[i] /\ ff[i] = fs[i] /\ cc[i] = cs[i]
        BY <1>1, <1>2, <1>3, <1>4, <2>2
      <3>2. SameConstruct(ts[i], fs[i], cs[i])
        BY <3>1 DEF Agree
      <3> QED
        BY <3>1, <3>2
    <2> QED
      BY <2>1, <2>2
  <1>6. Agree(tt, ff, cc)
    BY <1>1, <1>2, <1>3, <1>4, <1>5 DEF Agree
  <1> QED
    BY <1>6 DEF tt, ff, cc

LEMMA AgreeNext ==
  ASSUME NEW ts, NEW fs, NEW cs, Agree(ts, fs, cs), ts # << >>,
         NEW t \in Constructs, NEW f \in ScanFrames, NEW c \in Calls,
         SameConstruct(t, f, c)
  PROVE  Agree(Replace(ts, t), Replace(fs, f), Replace(cs, c))
  <1>1. /\ ts \in Seq(Constructs) /\ fs \in Seq(ScanFrames) /\ cs \in Seq(Calls)
        /\ Len(ts) \in Nat /\ Len(fs) = Len(ts) /\ Len(cs) = Len(ts)
        /\ fs # << >> /\ cs # << >>
    BY LenProperties, AgreeTop DEF Agree
  <1> DEFINE tt == Replace(ts, t)
             ff == Replace(fs, f)
             cc == Replace(cs, c)
             n == Len(ts)
  <1>2. /\ tt \in Seq(Constructs) /\ Len(tt) = n
        /\ \A i \in 1 .. n : tt[i] = IF i = n THEN t ELSE ts[i]
    <2>1. TopReplaced(Constructs, ts, t, tt)
      BY <1>1, ReplaceTop, Zenon
    <2>2. QED
      BY ONLY <2>1 DEF TopReplaced
  <1>3. /\ ff \in Seq(ScanFrames) /\ Len(ff) = Len(fs)
        /\ \A i \in 1 .. Len(fs) : ff[i] = IF i = Len(fs) THEN f ELSE fs[i]
    <2>1. TopReplaced(ScanFrames, fs, f, ff)
      BY <1>1, ReplaceTop, Zenon
    <2>2. QED
      BY ONLY <2>1 DEF TopReplaced
  <1>4. /\ cc \in Seq(Calls) /\ Len(cc) = Len(cs)
        /\ \A i \in 1 .. Len(cs) : cc[i] = IF i = Len(cs) THEN c ELSE cs[i]
    <2>1. TopReplaced(Calls, cs, c, cc)
      BY <1>1, ReplaceTop, Zenon
    <2>2. QED
      BY ONLY <2>1 DEF TopReplaced
  <1> HIDE DEF tt, ff, cc
  <1>5. ASSUME NEW i \in 1 .. n
        PROVE  SameConstruct(tt[i], ff[i], cc[i])
    <2>1. CASE i = n
      <3>0. i \in 1 .. Len(fs) /\ i \in 1 .. Len(cs) /\ i = Len(fs) /\ i = Len(cs)
        BY <1>1, <2>1
      <3>1. tt[i] = t /\ ff[i] = f /\ cc[i] = c
        BY ONLY <3>0, <2>1, <1>2, <1>3, <1>4
      <3> QED
        BY <3>1, SameConstruct(t, f, c)
    <2>2. CASE i # n
      <3>0. /\ i \in 1 .. Len(ts) /\ i \in 1 .. Len(fs) /\ i \in 1 .. Len(cs)
            /\ i # Len(fs) /\ i # Len(cs)
        BY <1>1, <2>2
      <3>1. i \in 1 .. Len(ts) /\ tt[i] = ts[i] /\ ff[i] = fs[i] /\ cc[i] = cs[i]
        BY ONLY <3>0, <2>2, <1>2, <1>3, <1>4
      <3>2. SameConstruct(ts[i], fs[i], cs[i])
        BY <3>1 DEF Agree
      <3> QED
        BY <3>1, <3>2
    <2> QED
      BY <2>1, <2>2
  <1>6. Agree(tt, ff, cc)
    BY <1>1, <1>2, <1>3, <1>4, <1>5 DEF Agree
  <1> QED
    BY <1>6 DEF tt, ff, cc

LEMMA AgreeClose ==
  ASSUME NEW ts, NEW fs, NEW cs, Agree(ts, fs, cs), ts # << >>
  PROVE  Agree(Front(ts), Front(fs), Front(cs))
  <1>1. /\ ts \in Seq(Constructs) /\ fs \in Seq(ScanFrames) /\ cs \in Seq(Calls)
        /\ Len(ts) \in Nat /\ Len(fs) = Len(ts) /\ Len(cs) = Len(ts)
        /\ fs # << >> /\ cs # << >>
    BY LenProperties, AgreeTop DEF Agree
  <1>2. /\ Front(ts) \in Seq(Constructs) /\ Len(Front(ts)) = Len(ts) - 1
        /\ Front(fs) \in Seq(ScanFrames) /\ Len(Front(fs)) = Len(ts) - 1
        /\ Front(cs) \in Seq(Calls) /\ Len(Front(cs)) = Len(ts) - 1
        /\ \A i \in 1 .. Len(ts) - 1 :
             Front(ts)[i] = ts[i] /\ Front(fs)[i] = fs[i] /\ Front(cs)[i] = cs[i]
    BY <1>1, DropTop
  <1> QED
    BY <1>1, <1>2 DEF Agree

LEMMA AgreeSettle ==
  ASSUME NEW ts, NEW fs, NEW cs, Agree(ts, fs, cs), ts # << >>, NEW c \in Calls,
         SameConstruct(Last(ts), Last(fs), c)
  PROVE  Agree(ts, fs, Replace(cs, c))
  <1>1. /\ ts \in Seq(Constructs) /\ fs \in Seq(ScanFrames) /\ cs \in Seq(Calls)
        /\ Len(ts) \in Nat /\ Len(fs) = Len(ts) /\ Len(cs) = Len(ts)
        /\ fs # << >> /\ cs # << >>
    BY LenProperties, AgreeTop DEF Agree
  <1> DEFINE cc == Replace(cs, c)
  <1>2. /\ cc \in Seq(Calls) /\ Len(cc) = Len(cs)
        /\ \A i \in 1 .. Len(cs) : cc[i] = IF i = Len(cs) THEN c ELSE cs[i]
    <2>1. TopReplaced(Calls, cs, c, cc)
      BY <1>1, ReplaceTop, Zenon
    <2>2. QED
      BY ONLY <2>1 DEF TopReplaced
  <1>3. Last(ts) = ts[Len(ts)] /\ Last(fs) = fs[Len(ts)]
    BY <1>1, DropTop
  <1> HIDE DEF cc
  <1>4. Agree(ts, fs, cc)
    BY <1>1, <1>2, <1>3 DEF Agree
  <1> QED
    BY <1>4 DEF cc

-----------------------------------------------------------------------------
(* What the scan and the translator do on a terminator of an open construct is
   the same as what the program does. *)

Scans == [from : Nat, frames : Seq(ScanFrames), lr : BOOLEAN]
Translations == [calls : Seq(Calls), ended : Int, helper : BOOLEAN]

LEMMA SettledAgrees ==
  ASSUME NEW ts, NEW fs, NEW t \in Translations, Agree(ts, fs, t.calls)
  PROVE  /\ Settled(t) \in Translations /\ Agree(ts, fs, Settled(t).calls)
         /\ Settled(t).ended = t.ended /\ Settled(t).helper = t.helper
         /\ ts = << >> => Settled(t).calls = << >>
  <1>1. CASE t.calls = << >>
    BY <1>1 DEF Settled
  <1>2. CASE t.calls # << >>
    <2>1. ts # << >>
      BY <1>2, EmptySeq DEF Agree
    <2> DEFINE C == Last(t.calls)
               d == [C EXCEPT !.fn = CASE C.fn = "undecided" -> "IfThenElse"
                                       [] C.fn = "maybeEmpty" -> "IfThen"
                                       [] OTHER -> C.fn]
    <2>2. C \in Calls /\ SameConstruct(Last(ts), Last(fs), C)
      BY <2>1, AgreeTop
    <2>3. d \in Calls /\ d.block = C.block /\ d.last = C.last /\ d.fn # "undecided"
      BY <2>2 DEF Calls, Functions_
    <2>4. SameConstruct(Last(ts), Last(fs), d)
      BY <2>2, <2>3 DEF SameConstruct
    <2>5. Settled(t) = [t EXCEPT !.calls = Replace(t.calls, d)]
      BY <1>2 DEF Settled
    <2> HIDE DEF C, d
    <2>6. Agree(ts, fs, Replace(t.calls, d))
      BY <2>1, <2>3, <2>4, AgreeSettle, Zenon
    <2>7. Replace(t.calls, d) \in Seq(Calls)
      BY <2>6 DEF Agree
    <2> QED
      BY <2>1, <2>5, <2>6, <2>7 DEF Translations
  <1> QED
    BY <1>1, <1>2

LEMMA TerminatorAgrees ==
  ASSUME truth # << >>, NextBlock, scan \in Scans, NEW at,
         NEW t \in Translations, Agree(truth, scan.frames, t.calls)
  PROVE  /\ CountOff(scan) \in Scans /\ Terminated(t, at) \in Translations
         /\ Agree(truth', CountOff(scan).frames, Terminated(t, at).calls)
         /\ CountOff(scan).from = scan.from /\ CountOff(scan).lr = scan.lr
         /\ Terminated(t, at).ended = t.ended /\ Terminated(t, at).helper = t.helper
         /\ Last(truth).block < Last(truth).last => ScanContinue(scan) = CountOff(scan)
  <1> DEFINE T == Last(truth)
             F == Last(scan.frames)
             C == Last(t.calls)
  <1>1. /\ scan.frames # << >> /\ t.calls # << >>
        /\ T \in Constructs /\ F \in ScanFrames /\ C \in Calls
        /\ SameConstruct(T, F, C)
    BY AgreeTop
  <1>2. /\ T.block \in Nat /\ T.last \in Nat /\ C.block \in Nat /\ C.last \in Nat
        /\ F.remaining \in Nat
    BY <1>1 DEF Constructs, ScanFrames, Calls
  <1>3. CASE T.block = T.last
    <2>1. F.remaining = 1 /\ C.block = C.last /\ C.fn # "undecided"
      BY <1>1, <1>2, <1>3 DEF SameConstruct
    <2>2. truth' = Front(truth)
      BY <1>3 DEF NextBlock
    <2>3. CountOff(scan) = [scan EXCEPT !.frames = Front(scan.frames)]
      BY <1>1, <2>1 DEF CountOff
    <2>4. Terminated(t, at) = [t EXCEPT !.calls = Front(t.calls)]
      BY <1>1, <2>1 DEF Terminated
    <2>5. Agree(Front(truth), Front(scan.frames), Front(t.calls))
      BY AgreeClose
    <2>6. Front(scan.frames) \in Seq(ScanFrames) /\ Front(t.calls) \in Seq(Calls)
      BY <2>5 DEF Agree
    <2> QED
      BY <1>2, <1>3, <2>2, <2>3, <2>4, <2>5, <2>6 DEF Scans, Translations
  <1>4. CASE T.block # T.last
    <2> DEFINE T2 == [T EXCEPT !.block = @ + 1]
               F2 == OneLess(F)
               C2 == IF C.fn = "undecided" THEN Translating("maybeEmpty", 0)
                     ELSE [C EXCEPT !.block = @ + 1]
    <2>1. T.block < T.last /\ F.remaining > 1 /\ C.block # C.last
      BY <1>1, <1>2, <1>4 DEF SameConstruct
    <2>0. F.remaining # 1
      BY <1>2, <2>1
    <2>2. truth' = Replace(truth, T2)
      BY <1>4 DEF NextBlock
    <2>3. CountOff(scan) = [scan EXCEPT !.frames = Replace(scan.frames, F2)]
      BY <1>1, <2>0, Zenon DEF CountOff
    <2>4. ScanContinue(scan) = [scan EXCEPT !.frames = Replace(scan.frames, F2)]
      BY <1>1, Zenon DEF ScanContinue
    <2>5. Terminated(t, at) = [t EXCEPT !.calls = Replace(t.calls, C2)]
      BY <1>1, <2>1 DEF Terminated
    <2>6. T2 \in Constructs /\ T2.block = T.block + 1 /\ T2.last = T.last
      BY <1>1, <1>2 DEF Constructs
    <2>7. F2 \in ScanFrames /\ F2.remaining = F.remaining - 1
      BY <1>1, <1>2, <2>1 DEF ScanFrames, OneLess
    <2>8. /\ C2 \in Calls /\ C2.fn # "undecided"
          /\ C2.last - C2.block = C.last - C.block - 1
      <3>1. CASE C.fn = "undecided"
        BY <1>1, <3>1 DEF SameConstruct, Translating, Calls, Functions_
      <3>2. CASE C.fn # "undecided"
        BY <1>1, <1>2, <3>2 DEF Calls
      <3> QED
        BY <3>1, <3>2
    <2> HIDE DEF T2, F2, C2
    <2>9. SameConstruct(T2, F2, C2)
      <3>1. F.remaining = T.last - T.block + 1 /\ C.last - C.block = T.last - T.block
        BY <1>1 DEF SameConstruct
      <3>2. T2.block <= T2.last /\ F2.remaining = T2.last - T2.block + 1
        BY <1>2, <2>1, <2>6, <2>7, <3>1
      <3>3. C2.last - C2.block = T2.last - T2.block
        BY <1>2, <2>6, <2>8, <3>1
      <3> QED
        BY <2>8, <3>2, <3>3 DEF SameConstruct
    <2>10. Agree(Replace(truth, T2), Replace(scan.frames, F2), Replace(t.calls, C2))
      BY <2>6, <2>7, <2>8, <2>9, AgreeNext
    <2>11. Replace(scan.frames, F2) \in Seq(ScanFrames) /\ Replace(t.calls, C2) \in Seq(Calls)
      BY <2>10 DEF Agree
    <2> QED
      BY <2>2, <2>3, <2>4, <2>5, <2>10, <2>11 DEF Scans, Translations
  <1> QED
    BY <1>3, <1>4

-----------------------------------------------------------------------------
(* The invariant *)

(* One body more than slots from where its last instruction was read to where
   the directory takes it in. *)
Bodies ==
  /\ phase \in {"frame", "budget", "header", "body"} => Len(bodies) = Len(slots)
  /\ phase = "scanned" =>
       /\ Len(bodies) = Len(slots) + 1
       /\ bodies[Len(slots) + 1] =
            [from |-> scan.from, to |-> pos, helper |-> trans.helper]
  /\ \A i \in 1 .. Len(slots) :
       /\ i <= Len(bodies)
       /\ slots[i].from = bodies[i].from /\ slots[i].to = bodies[i].to
       /\ bodies[i].helper => slots[i].lr

Stacks ==
  /\ phase = "body" => Agree(truth, scan.frames, trans.calls) /\ trans.ended = Nowhere
  /\ phase = "scanned" => trans.ended = pos /\ trans.calls = << >>
  /\ phase \in {"frame", "budget", "header", "scanned"} => truth = << >>

LrKept(s, t) == t.helper => s.lr
SavesLr == phase \in {"body", "scanned"} => LrKept(scan, trans)

IInv == Types /\ Bodies /\ Stacks /\ SavesLr

LEMMA InitIInv == Init => IInv
  <1> SUFFICES ASSUME Init PROVE IInv
    OBVIOUS
  <1>1. Types
    BY DEF Init, Types, Phases, ScanFrom, FreshTrans, Nowhere
  <1>2. Bodies
    BY DEF Init, Bodies
  <1>3. Stacks
    BY DEF Init, Stacks
  <1>4. SavesLr
    BY DEF Init, SavesLr
  <1> QED
    BY <1>1, <1>2, <1>3, <1>4 DEF IInv

LEMMA AgreeNothing == Agree(<< >>, << >>, << >>)
  BY DEF Agree

LEMMA VerifyIInv == IInv /\ Verify => IInv'
  <1> SUFFICES ASSUME IInv, Verify PROVE IInv'
    OBVIOUS
  <1>1. Types'
    BY DEF IInv, Types, Verify, RunVars, Phases
  <1>2. Bodies'
    BY DEF IInv, Bodies, Verify, RunVars
  <1>3. Stacks'
    BY DEF IInv, Stacks, Verify, RunVars
  <1>4. SavesLr'
    BY DEF Verify, SavesLr
  <1> QED
    BY <1>1, <1>2, <1>3, <1>4 DEF IInv

LEMMA StartBodyIInv == IInv /\ StartBody => IInv'
  <1> SUFFICES ASSUME IInv, StartBody PROVE IInv'
    OBVIOUS
  <1>1. Types'
    <2>1. scan' = [from |-> pos + 1, frames |-> << >>, lr |-> FALSE]
      BY DEF StartBody, ScanFrom
    <2>2. trans' = [calls |-> << >>, ended |-> -1, helper |-> FALSE]
      BY DEF StartBody, FreshTrans, Nowhere
    <2>3. pos' \in Nat /\ pos + 1 \in Nat /\ phase' \in Phases
      BY DEF IInv, Types, StartBody, Phases
    <2>4. scan' \in Scans
      BY <2>1, <2>3 DEF Scans
    <2>5. trans' \in Translations
      BY <2>2 DEF Translations
    <2> QED
      BY <2>3, <2>4, <2>5 DEF IInv, Types, StartBody, Scans, Translations
  <1>2. Bodies'
    BY DEF IInv, Bodies, StartBody
  <1>3. Stacks'
    BY AgreeNothing DEF IInv, Stacks, StartBody, ScanFrom, FreshTrans
  <1>4. SavesLr'
    BY DEF StartBody, FreshTrans, SavesLr, LrKept
  <1> QED
    BY <1>1, <1>2, <1>3, <1>4 DEF IInv

LEMMA SetStaticInfoIInv == IInv /\ SetStaticInfo => IInv'
  <1> SUFFICES ASSUME IInv, SetStaticInfo PROVE IInv'
    OBVIOUS
  <1> DEFINE slot == [from |-> scan.from, to |-> pos, lr |-> scan.lr]
             Slots == [from : Nat, to : Nat, lr : BOOLEAN]
  <1>1. slots \in Seq(Slots) /\ slot \in Slots /\ Len(slots) \in Nat
    BY LenProperties DEF IInv, Types
  <1>2. /\ slots' \in Seq(Slots) /\ Len(slots') = Len(slots) + 1
        /\ \A i \in 1 .. Len(slots) + 1 :
             slots'[i] = IF i = Len(slots) + 1 THEN slot ELSE slots[i]
    BY <1>1, PushTop DEF SetStaticInfo
  <1>3. Types'
    BY <1>2 DEF IInv, Types, SetStaticInfo, Phases
  <1>4. Bodies'
    <2>1. /\ Len(bodies) = Len(slots) + 1 /\ bodies' = bodies /\ phase' = "header"
          /\ bodies[Len(slots) + 1] =
               [from |-> scan.from, to |-> pos, helper |-> trans.helper]
          /\ trans.helper => scan.lr
      BY DEF IInv, Bodies, SavesLr, LrKept, SetStaticInfo
    <2> SUFFICES ASSUME NEW i \in 1 .. Len(slots')
                 PROVE  /\ i <= Len(bodies)
                        /\ slots'[i].from = bodies[i].from /\ slots'[i].to = bodies[i].to
                        /\ bodies[i].helper => slots'[i].lr
      BY <1>2, <2>1 DEF Bodies
    <2>2. CASE i = Len(slots) + 1
      <3>1. slots'[i] = slot /\ i <= Len(bodies)
        BY <1>1, <1>2, <2>1, <2>2
      <3>2. bodies[i] = [from |-> scan.from, to |-> pos, helper |-> trans.helper]
        BY <2>1, <2>2
      <3> QED
        BY <2>1, <3>1, <3>2
    <2>3. CASE i \in 1 .. Len(slots)
      <3>1. /\ i <= Len(bodies)
            /\ slots[i].from = bodies[i].from /\ slots[i].to = bodies[i].to
            /\ bodies[i].helper => slots[i].lr
        BY <2>3 DEF IInv, Bodies
      <3>2. slots'[i] = slots[i]
        <4>1. i \in 1 .. Len(slots) + 1 /\ i # Len(slots) + 1
          BY <1>1, <2>3
        <4>2. QED
          BY ONLY <1>2, <4>1
      <3> QED
        BY <3>1, <3>2
    <2> QED
      BY <1>1, <1>2, <2>2, <2>3
  <1>5. Stacks'
    BY DEF IInv, Stacks, SetStaticInfo
  <1>6. SavesLr'
    BY DEF SetStaticInfo, SavesLr
  <1> QED
    BY <1>3, <1>4, <1>5, <1>6 DEF IInv

LEMMA CheckEntryIInv == IInv /\ CheckEntry => IInv'
  <1> SUFFICES ASSUME IInv, CheckEntry PROVE IInv'
    OBVIOUS
  <1>1. Types'
    BY DEF IInv, Types, CheckEntry, RunVars, Phases
  <1>2. Bodies'
    BY DEF IInv, Bodies, CheckEntry, RunVars
  <1>3. Stacks'
    BY DEF IInv, Stacks, CheckEntry, RunVars
  <1>4. SavesLr'
    BY DEF CheckEntry, SavesLr
  <1> QED
    BY <1>1, <1>2, <1>3, <1>4 DEF IInv

(* The instructions.  One that leaves the body open has to keep the stacks in
   agreement; one that refuses the program has nothing more to keep. *)
LEMMA StaysInBody ==
  ASSUME IInv, phase = "body", UNCHANGED << phase, slots, bodies >>,
         pos' \in Nat, scan' \in Scans, trans' \in Translations,
         Agree(truth', scan'.frames, trans'.calls),
         trans'.ended = Nowhere, LrKept(scan', trans')
  PROVE  IInv'
  <1>1. Types'
    BY DEF IInv, Types, Scans, Translations, Agree
  <1>2. Bodies'
    BY DEF IInv, Bodies
  <1>3. Stacks'
    BY DEF Stacks
  <1>4. SavesLr'
    BY DEF SavesLr
  <1> QED
    BY <1>1, <1>2, <1>3, <1>4 DEF IInv

LEMMA Refuses ==
  ASSUME IInv, phase' = "refused", UNCHANGED << truth, scan, trans, slots, bodies >>,
         pos' \in Nat
  PROVE  IInv'
  <1>1. Types'
    BY DEF IInv, Types, Phases
  <1>2. Bodies'
    BY DEF IInv, Bodies
  <1>3. Stacks'
    BY DEF Stacks
  <1>4. SavesLr'
    BY DEF SavesLr
  <1> QED
    BY <1>1, <1>2, <1>3, <1>4 DEF IInv

(* What the invariant says while a body is being read. *)
LEMMA InBody ==
  ASSUME IInv, phase = "body"
  PROVE  /\ pos \in Nat /\ scan \in Scans /\ trans \in Translations
         /\ Agree(truth, scan.frames, trans.calls)
         /\ trans.ended = Nowhere /\ LrKept(scan, trans)
         /\ Settled(trans) \in Translations
         /\ Agree(truth, scan.frames, Settled(trans).calls)
         /\ Settled(trans).ended = Nowhere
         /\ LrKept(scan, Settled(trans))
  <1>1. /\ pos \in Nat /\ scan \in Scans /\ trans \in Translations
        /\ Agree(truth, scan.frames, trans.calls)
        /\ trans.ended = Nowhere /\ LrKept(scan, trans)
    BY DEF IInv, Types, Stacks, SavesLr, Scans, Translations
  <1>2. /\ Settled(trans) \in Translations
        /\ Agree(truth, scan.frames, Settled(trans).calls)
        /\ Settled(trans).ended = trans.ended
        /\ Settled(trans).helper = trans.helper
    BY <1>1, SettledAgrees
  <1>3. LrKept(scan, Settled(trans))
    BY <1>1, <1>2 DEF LrKept
  <1> QED
    BY <1>1, <1>2, <1>3

LEMMA LrTypes ==
  ASSUME NEW s \in Scans, NEW t \in Translations
  PROVE  /\ ScanLr(s) \in Scans /\ ScanLr(s).lr /\ ScanLr(s).frames = s.frames
         /\ TransHelper(t) \in Translations
         /\ TransHelper(t).calls = t.calls /\ TransHelper(t).ended = t.ended
  BY DEF Scans, Translations, ScanLr, TransHelper

LEMMA PlainIInv == IInv /\ Plain => IInv'
  <1> SUFFICES ASSUME IInv, Plain PROVE IInv'
    OBVIOUS
  <1>1. /\ phase = "body" /\ pos' = pos + 1 /\ trans' = Settled(trans)
        /\ UNCHANGED << phase, truth, scan, slots, bodies >>
    BY DEF Plain, Reading
  <1> QED
    BY <1>1, InBody, StaysInBody

LEMMA UsesLrIInv == IInv /\ UsesLr => IInv'
  <1> SUFFICES ASSUME IInv, UsesLr PROVE IInv'
    OBVIOUS
  <1>1. /\ phase = "body" /\ pos' = pos + 1
        /\ scan' = ScanLr(scan) /\ trans' = TransHelper(Settled(trans))
        /\ UNCHANGED << phase, truth, slots, bodies >>
    BY DEF UsesLr, Reading
  <1>2. /\ pos' \in Nat /\ scan' \in Scans /\ trans' \in Translations
        /\ Agree(truth', scan'.frames, trans'.calls)
        /\ trans'.ended = Nowhere /\ LrKept(scan', trans')
    BY <1>1, InBody, LrTypes DEF LrKept
  <1> QED
    BY <1>1, <1>2, StaysInBody

LEMMA ExtIInv == IInv /\ Ext => IInv'
  <1> SUFFICES ASSUME IInv, Ext PROVE IInv'
    OBVIOUS
  <1>1. PICK e \in Extensions :
          /\ Reading(1 + e.operands)
          /\ IF ~ e.known \/ e.callShaped \/ e.pushes
             THEN phase' = "refused" /\ UNCHANGED << scan, trans >>
             ELSE /\ scan' = IF e.lr THEN ScanLr(scan) ELSE scan
                  /\ trans' = IF e.lr THEN TransHelper(Settled(trans))
                              ELSE Settled(trans)
                  /\ UNCHANGED phase
    BY DEF Ext
  <1>2. phase = "body" /\ pos' = pos + (1 + e.operands) /\ e.operands \in Nat
    BY <1>1, LoadConstants DEF Reading
  <1>3. UNCHANGED << truth, slots, bodies >>
    BY DEF Ext
  <1>4. pos' \in Nat
    BY <1>2, InBody
  <1>5. CASE ~ e.known \/ e.callShaped \/ e.pushes
    BY <1>1, <1>3, <1>4, <1>5, Refuses
  <1>6. CASE ~ (~ e.known \/ e.callShaped \/ e.pushes)
    <2>1. CASE e.lr
      <3>1. /\ scan' = ScanLr(scan) /\ trans' = TransHelper(Settled(trans))
            /\ phase' = phase
        BY <1>1, <1>6, <2>1
      <3>2. /\ scan' \in Scans /\ trans' \in Translations
            /\ Agree(truth', scan'.frames, trans'.calls)
            /\ trans'.ended = Nowhere /\ LrKept(scan', trans')
        BY <1>2, <1>3, <3>1, InBody, LrTypes DEF LrKept
      <3> QED
        BY <1>2, <1>3, <1>4, <3>1, <3>2, StaysInBody
    <2>2. CASE ~ e.lr
      <3>1. scan' = scan /\ trans' = Settled(trans) /\ phase' = phase
        BY <1>1, <1>6, <2>2
      <3>2. /\ scan' \in Scans /\ trans' \in Translations
            /\ Agree(truth', scan'.frames, trans'.calls)
            /\ trans'.ended = Nowhere /\ LrKept(scan', trans')
        BY <1>2, <1>3, <3>1, InBody
      <3> QED
        BY <1>2, <1>3, <1>4, <3>1, <3>2, StaysInBody
    <2> QED
      BY <2>1, <2>2
  <1> QED
    BY <1>5, <1>6

LEMMA OpenLoopIInv == IInv /\ OpenLoop => IInv'
  <1> SUFFICES ASSUME IInv, OpenLoop PROVE IInv'
    OBVIOUS
  <1> DEFINE T == [loop |-> TRUE, block |-> 0, last |-> 1]
             F == [remaining |-> 2, dispatch |-> FALSE]
             C == [fn |-> "Loop", block |-> 0, last |-> 1]
             u == Settled(trans)
  <1>1. /\ phase = "body" /\ pos' = pos + 1
        /\ truth' = Append(truth, T)
        /\ scan' = [scan EXCEPT !.frames = Append(@, F)]
        /\ trans' = [u EXCEPT !.calls = Append(@, C)]
        /\ UNCHANGED << phase, slots, bodies >>
    BY DEF OpenLoop, Reading, Enter, ScanOpen, TransOpen, Translating
  <1>2. T \in Constructs /\ F \in ScanFrames /\ C \in Calls /\ SameConstruct(T, F, C)
    BY DEF Constructs, ScanFrames, Calls, Functions_, SameConstruct
  <1>3. /\ scan \in Scans /\ u \in Translations /\ pos' \in Nat
        /\ Agree(truth, scan.frames, u.calls)
        /\ u.ended = Nowhere /\ LrKept(scan, u)
    BY <1>1, InBody
  <1> HIDE DEF T, F, C, u
  <1>4. Agree(Append(truth, T), Append(scan.frames, F), Append(u.calls, C))
    BY <1>2, <1>3, AgreeOpen
  <1>5. Append(scan.frames, F) \in Seq(ScanFrames) /\ Append(u.calls, C) \in Seq(Calls)
    BY <1>4 DEF Agree
  <1>6. /\ scan' \in Scans /\ scan'.frames = Append(scan.frames, F) /\ scan'.lr = scan.lr
        /\ trans' \in Translations /\ trans'.calls = Append(u.calls, C)
        /\ trans'.ended = u.ended /\ trans'.helper = u.helper
    BY <1>1, <1>3, <1>5 DEF Scans, Translations
  <1>7. LrKept(scan', trans')
    BY <1>3, <1>6 DEF LrKept
  <1> QED
    BY <1>1, <1>3, <1>4, <1>6, <1>7, StaysInBody

LEMMA NoRoomToNestIInv == IInv /\ NoRoomToNest => IInv'
  <1> SUFFICES ASSUME IInv, NoRoomToNest PROVE IInv'
    OBVIOUS
  <1>1. /\ phase = "body" /\ pos' = pos + 1 /\ phase' = "refused"
        /\ UNCHANGED << truth, scan, trans, slots, bodies >>
    BY DEF NoRoomToNest, Reading
  <1>2. pos' \in Nat
    BY <1>1, InBody
  <1> QED
    BY <1>1, <1>2, Refuses

LEMMA BlockEndIInv == IInv /\ BlockEnd => IInv'
  <1> SUFFICES ASSUME IInv, BlockEnd PROVE IInv'
    OBVIOUS
  <1>1. /\ phase = "body" /\ pos' = pos + 1 /\ truth # << >> /\ NextBlock
        /\ scan' = CountOff(scan) /\ trans' = Terminated(trans, pos')
        /\ UNCHANGED << phase, slots, bodies >>
    BY DEF BlockEnd, Reading, Inside, TransBlockEnd
  <1>2. /\ scan \in Scans /\ trans \in Translations /\ pos' \in Nat
        /\ Agree(truth, scan.frames, trans.calls)
        /\ trans.ended = Nowhere /\ LrKept(scan, trans)
    BY <1>1, InBody
  <1>3. /\ scan' \in Scans /\ trans' \in Translations
        /\ Agree(truth', scan'.frames, trans'.calls)
        /\ scan'.lr = scan.lr /\ trans'.ended = trans.ended
        /\ trans'.helper = trans.helper
    BY <1>1, <1>2, TerminatorAgrees
  <1>4. LrKept(scan', trans')
    BY <1>2, <1>3 DEF LrKept
  <1> QED
    BY <1>1, <1>2, <1>3, <1>4, StaysInBody

LEMMA RunOnIInv == IInv /\ RunOn => IInv'
  <1> SUFFICES ASSUME IInv, RunOn PROVE IInv'
    OBVIOUS
  <1> DEFINE u == Settled(trans)
  <1>1. /\ phase = "body" /\ pos' = pos + 1 /\ truth # << >> /\ NextBlock
        /\ Last(truth).block < Last(truth).last
        /\ scan' = ScanContinue(scan) /\ trans' = Terminated(u, pos')
        /\ UNCHANGED << phase, slots, bodies >>
    BY DEF RunOn, Reading, Inside, TransLeave
  <1>2. /\ scan \in Scans /\ u \in Translations /\ pos' \in Nat
        /\ Agree(truth, scan.frames, u.calls)
        /\ u.ended = Nowhere /\ LrKept(scan, u)
    BY <1>1, InBody
  <1> HIDE DEF u
  <1>3. /\ scan' = CountOff(scan)
        /\ scan' \in Scans /\ trans' \in Translations
        /\ Agree(truth', scan'.frames, trans'.calls)
        /\ scan'.lr = scan.lr /\ trans'.ended = u.ended
        /\ trans'.helper = u.helper
    BY <1>1, <1>2, TerminatorAgrees
  <1>4. LrKept(scan', trans')
    BY <1>2, <1>3 DEF LrKept
  <1> QED
    BY <1>1, <1>2, <1>3, <1>4, StaysInBody

LEMMA OpenTableIInv == IInv /\ OpenTable => IInv'
  <1> SUFFICES ASSUME IInv, OpenTable PROVE IInv'
    OBVIOUS
  <1> DEFINE u == Settled(trans)
  <1>1. PICK n \in Cases :
          /\ Enter(FALSE, n)
          /\ scan' = LET s == IF TableNeedsLr(n) THEN ScanLr(scan) ELSE scan
                     IN  ScanOpen(s, DispatchBlocks(n), TRUE)
          /\ trans' = TransTable(trans, n)
    BY DEF OpenTable
  <1>2. n \in Nat \ {0}
    BY LoadConstants
  <1> DEFINE T == [loop |-> FALSE, block |-> 0, last |-> n]
             F == [remaining |-> n + 1, dispatch |-> TRUE]
             C == [fn |-> IF n = 1 THEN "undecided" ELSE "Switch", block |-> 0, last |-> n]
             s1 == IF n >= 2 THEN ScanLr(scan) ELSE scan
             u1 == [u EXCEPT !.calls = Append(@, C)]
  <1>3. /\ phase = "body" /\ pos' = pos + 1 /\ UNCHANGED << phase, slots, bodies >>
        /\ truth' = Append(truth, T)
    BY <1>1 DEF OpenTable, Reading, Enter
  <1>4. scan' = [s1 EXCEPT !.frames = Append(@, F)]
    BY <1>1 DEF ScanOpen, DispatchBlocks, TableNeedsLr
  <1>5. trans' = IF n = 1 THEN u1 ELSE TransHelper(u1)
    BY <1>1 DEF TransTable, TransOpen, Translating
  <1>6. T \in Constructs /\ F \in ScanFrames /\ C \in Calls /\ SameConstruct(T, F, C)
    BY <1>2 DEF Constructs, ScanFrames, Calls, Functions_, SameConstruct
  <1>7. /\ scan \in Scans /\ u \in Translations /\ pos' \in Nat
        /\ Agree(truth, scan.frames, u.calls)
        /\ u.ended = Nowhere /\ LrKept(scan, u)
    BY <1>3, InBody
  <1>8. s1 \in Scans /\ s1.frames = scan.frames /\ (n >= 2 => s1.lr) /\ (n = 1 => s1 = scan)
    BY <1>7, LrTypes
  <1> HIDE DEF T, F, C, u, s1
  <1>9. Agree(Append(truth, T), Append(scan.frames, F), Append(u.calls, C))
    BY <1>6, <1>7, AgreeOpen
  <1>10. Append(scan.frames, F) \in Seq(ScanFrames) /\ Append(u.calls, C) \in Seq(Calls)
    BY <1>9 DEF Agree
  <1>11. scan' \in Scans /\ scan'.frames = Append(scan.frames, F) /\ scan'.lr = s1.lr
    BY <1>4, <1>8, <1>10 DEF Scans
  <1>12. /\ u1 \in Translations /\ u1.calls = Append(u.calls, C)
         /\ u1.ended = u.ended /\ u1.helper = u.helper
    BY <1>7, <1>10 DEF Translations
  <1> HIDE DEF u1
  <1>13. CASE n = 1
    <2>1. trans' = u1 /\ scan'.lr = scan.lr
      BY <1>5, <1>8, <1>11, <1>13
    <2>2. LrKept(scan', trans')
      BY <1>7, <1>12, <2>1 DEF LrKept
    <2> QED
      BY <1>3, <1>7, <1>9, <1>11, <1>12, <2>1, <2>2, StaysInBody
  <1>14. CASE n # 1
    <2>1. trans' = TransHelper(u1) /\ scan'.lr
      BY <1>2, <1>5, <1>8, <1>11, <1>14
    <2>2. LrKept(scan', trans')
      BY <2>1 DEF LrKept
    <2>3. trans' \in Translations /\ trans'.calls = u1.calls /\ trans'.ended = u1.ended
      BY <1>7, <1>12, <2>1, LrTypes
    <2> QED
      BY <1>3, <1>7, <1>9, <1>11, <1>12, <2>2, <2>3, StaysInBody
  <1> QED
    BY <1>13, <1>14

(* The terminator that is outside of every construct finds all three stacks
   empty, and any other finds none of them so. *)
LEMMA LeaveIInv == IInv /\ Leave => IInv'
  <1> SUFFICES ASSUME IInv, Leave PROVE IInv'
    OBVIOUS
  <1> DEFINE u == Settled(trans)
  <1>1. /\ phase = "body" /\ pos' = pos + 1 /\ trans' = Terminated(u, pos')
        /\ slots' = slots
    BY DEF Leave, Reading, TransLeave
  <1>2. /\ pos \in Nat /\ pos' \in Nat /\ scan \in Scans /\ u \in Translations
        /\ Agree(truth, scan.frames, u.calls)
        /\ u.ended = Nowhere /\ LrKept(scan, u)
    BY <1>1, InBody
  <1>3. u.helper = trans.helper
    BY <1>1, InBody, SettledAgrees
  <1> HIDE DEF u
  <1>4. CASE truth # << >>
    <2>1. scan.frames # << >>
      BY <1>2, <1>4, AgreeTop
    <2>2. NextBlock /\ bodies' = bodies /\ scan' = CountOff(scan) /\ phase' = phase
      BY <1>4, <2>1 DEF Leave, Inside
    <2>3. /\ scan' \in Scans /\ trans' \in Translations
          /\ Agree(truth', scan'.frames, trans'.calls)
          /\ scan'.lr = scan.lr /\ trans'.ended = u.ended
          /\ trans'.helper = u.helper
      BY <1>1, <1>2, <1>4, <2>2, TerminatorAgrees
    <2>4. LrKept(scan', trans')
      BY <1>2, <2>3 DEF LrKept
    <2> QED
      BY <1>1, <1>2, <2>2, <2>3, <2>4, StaysInBody
  <1>5. CASE truth = << >>
    <2> DEFINE body == [from |-> scan.from, to |-> pos', helper |-> trans.helper]
               Bodies_ == [from : Nat, to : Nat, helper : BOOLEAN]
    <2>1. scan.frames = << >> /\ u.calls = << >>
      BY <1>2, <1>5, EmptySeq DEF Agree
    <2>2. /\ truth' = truth /\ bodies' = Append(bodies, body)
          /\ scan' = scan /\ phase' = "scanned"
      BY <1>5, <2>1 DEF Leave, Inside
    <2>3. trans' = [u EXCEPT !.ended = pos']
      BY <1>1, <2>1 DEF Terminated
    <2>4. /\ trans' \in Translations /\ trans'.calls = << >>
          /\ trans'.ended = pos' /\ trans'.helper = trans.helper
      BY <1>2, <1>3, <2>1, <2>3 DEF Translations
    <2>5. /\ bodies \in Seq(Bodies_) /\ body \in Bodies_
          /\ Len(bodies) = Len(slots) /\ Len(slots) \in Nat
      BY <1>1, <1>2, LenProperties DEF IInv, Types, Bodies, Scans
    <2> HIDE DEF body
    <2>6. /\ bodies' \in Seq(Bodies_) /\ Len(bodies') = Len(bodies) + 1
          /\ \A i \in 1 .. Len(bodies) + 1 :
               bodies'[i] = IF i = Len(bodies) + 1 THEN body ELSE bodies[i]
      BY <2>2, <2>5, PushTop
    <2>7. Types'
      BY <1>1, <1>2, <2>2, <2>4, <2>6 DEF IInv, Types, Scans, Translations, Phases
    <2>8. Bodies'
      <3>1. Len(bodies') = Len(slots') + 1
        BY <1>1, <2>5, <2>6
      <3>2. bodies'[Len(slots') + 1] = body
        BY <1>1, <2>5, <2>6
      <3>3. body = [from |-> scan'.from, to |-> pos', helper |-> trans'.helper]
        BY <2>2, <2>4 DEF body
      <3>4. \A i \in 1 .. Len(slots') :
              /\ i <= Len(bodies')
              /\ slots'[i].from = bodies'[i].from /\ slots'[i].to = bodies'[i].to
              /\ bodies'[i].helper => slots'[i].lr
        <4> SUFFICES ASSUME NEW i \in 1 .. Len(slots)
                     PROVE  /\ i <= Len(bodies')
                            /\ slots[i].from = bodies'[i].from
                            /\ slots[i].to = bodies'[i].to
                            /\ bodies'[i].helper => slots[i].lr
          BY <1>1
        <4>1. /\ slots[i].from = bodies[i].from /\ slots[i].to = bodies[i].to
              /\ bodies[i].helper => slots[i].lr
          BY DEF IInv, Bodies
        <4>2. bodies'[i] = bodies[i] /\ i <= Len(bodies')
          <5>1. i \in 1 .. Len(bodies) + 1 /\ i # Len(bodies) + 1
            BY <2>5
          <5>2. i <= Len(bodies')
            BY <2>5, <2>6
          <5>3. QED
            BY ONLY <2>6, <5>1, <5>2
        <4> QED
          BY <4>1, <4>2
      <3> QED
        BY <2>2, <3>1, <3>2, <3>3, <3>4 DEF Bodies
    <2>9. Stacks'
      BY <1>5, <2>2, <2>4 DEF Stacks
    <2>10. SavesLr'
      BY <1>2, <1>3, <2>2, <2>4 DEF SavesLr, LrKept
    <2> QED
      BY <2>7, <2>8, <2>9, <2>10 DEF IInv
  <1> QED
    BY <1>4, <1>5

LEMMA NextIInv == IInv /\ [Next]_vars => IInv'
  <1> SUFFICES ASSUME IInv, [Next]_vars PROVE IInv'
    OBVIOUS
  <1>1. CASE UNCHANGED vars
    BY <1>1 DEF IInv, Types, Bodies, Stacks, SavesLr, vars
  <1>2. CASE Next
    BY <1>2, VerifyIInv, StartBodyIInv, SetStaticInfoIInv, CheckEntryIInv,
       PlainIInv, UsesLrIInv, ExtIInv, OpenTableIInv, OpenLoopIInv,
       NoRoomToNestIInv, BlockEndIInv, RunOnIInv, LeaveIInv
       DEF Next
  <1> QED
    BY <1>1, <1>2

LEMMA AlwaysIInv == Spec => []IInv
  BY InitIInv, NextIInv, PTL DEF Spec

(* GUARDED_scanBody finds the end of each body and loadProgram puts exactly
   its bytes in the directory. *)
THEOREM DirectoryIsRight == Spec => []DirectoryNamesBodies
  <1>1. IInv => DirectoryNamesBodies
    BY DEF IInv, Bodies, DirectoryNamesBodies
  <1> QED
    BY <1>1, AlwaysIInv, PTL

(* translateProc's functions have all returned where GUARDED_scanBody said the
   body ends, and not before. *)
THEOREM ScanAndTranslatorAgree == Spec => []TranslatorEndsWithBody
  <1>1. IInv => TranslatorEndsWithBody
    BY DEF IInv, Stacks, TranslatorEndsWithBody
  <1> QED
    BY <1>1, AlwaysIInv, PTL

(* Whatever reaches a helper in a body has made GUARDED_scanBody ask for the
   prologue that saves lr. *)
THEOREM HelpersFindLrSaved == Spec => []LrSavedWhenUsed
  <1>1. IInv => LrSavedWhenUsed
    BY DEF IInv, Bodies, SavesLr, LrKept, LrSavedWhenUsed
  <1> QED
    BY <1>1, AlwaysIInv, PTL
=============================================================================
