--------------------------- MODULE Excursion_proofs ---------------------------
(***************************************************************************)
(* What the runs check of an excursion, for any number of entry words,     *)
(* stacked words, cancellation codes and requests, when a C helper leaves  *)
(* r8 as it is: without that the landing may not find the sentinel slot.   *)
(***************************************************************************)
EXTENDS Excursion, SequenceTheorems, TLAPS

(* What enterDispatch leaves for the landing to pop, and the slot before and
   once it is armed. *)
Saved == << "low", "high" >>
Blank == [landing |-> FALSE, sp |-> 0]
Armed == [landing |-> TRUE, sp |-> 2]

Words == {"low", "high", "arg", "word", "thunk", "frame", "junk"}
OnSaved(s) == Len(s) >= 2 /\ s[1] = "low" /\ s[2] = "high"

Inside == {"armed", "compiled", "helper", "translator"}
Abortable == Inside \cup {"jump", "branch", "resume"}
WayIn == {"built", "entering", "lowSaved", "highSaved", "landingWritten"}
WayOut == {"jump", "branch", "resume", "popHigh", "popLow", "returned"}
Places == {"outside"} \cup WayIn \cup Inside \cup WayOut

Values == Codes \cup {"none", "own", "trap", "exhausted", "refused"}
Tags == {"none", "success", "trap", "resource", "cancelled"}

Types ==
  /\ at \in Places /\ live \in BOOLEAN /\ stack \in Seq(Words)
  /\ sentinel \in [landing : BOOLEAN, sp : Nat]
  /\ regs \in [value : Values, tag : Tags, sp : Nat, landing : BOOLEAN]
  /\ result \in [value : Values, tag : Tags]

(* The stack and r8, place by place. *)
StackInv ==
  /\ at \in {"outside", "built", "entering"} => stack = << >> /\ r8 = "host"
  /\ at = "lowSaved" => stack = << "low" >> /\ r8 = "host"
  /\ at \in {"highSaved", "landingWritten", "branch", "resume", "popHigh"} =>
       stack = Saved
  /\ at \in Inside \cup {"jump"} => OnSaved(stack)
  /\ at = "compiled" => Len(stack) >= 2 + EntryWords
  /\ at \in {"helper", "translator"} => Len(stack) >= 3 + EntryWords
  /\ at \in {"landingWritten"} \cup Abortable => r8 = "table"
  /\ at = "popLow" => stack = << "low" >> /\ r8 = "host"
  /\ at = "returned" => stack = << >> /\ r8 = "host"

(* The sentinel slot is armed from ParkSp to Disarm, and a cancel lands on
   what it was armed with. *)
SlotInv ==
  /\ at \in {"outside", "built"} => live = FALSE
  /\ at \in {"built", "entering", "lowSaved", "highSaved"} => sentinel = Blank
  /\ at = "landingWritten" => sentinel = [landing |-> TRUE, sp |-> 0]
  /\ at \in Abortable => sentinel = Armed
  /\ at \in {"popHigh", "popLow", "returned"} => sentinel.sp = 0
  /\ at \in {"jump", "branch"} => regs.sp = 2 /\ regs.landing = TRUE

(* Who was told what: once a cancel was accepted, the registers on the way out
   are the ones it loaded. *)
Told(value, tag) ==
  /\ accepted # "none" => value = accepted /\ tag = "cancelled"
  /\ tag = "cancelled" => accepted # "none"
ToldInv ==
  /\ wanted \in Codes \cup {"none"}
  /\ at \in WayIn \cup Inside => accepted = "none"
  /\ at \in WayOut => Told(regs.value, regs.tag)
  /\ at = "outside" /\ result.tag # "none" => Told(result.value, result.tag)

IInv == Types /\ StackInv /\ SlotInv /\ ToldInv

-----------------------------------------------------------------------------
(* Taking a word off and putting one on keeps what lies under it. *)
LEMMA FrontKeeps ==
  ASSUME NEW s \in Seq(Words), Len(s) >= 3, OnSaved(s)
  PROVE  /\ Front(s) \in Seq(Words) /\ Len(Front(s)) = Len(s) - 1
         /\ OnSaved(Front(s))
  BY DEF Front, OnSaved

LEMMA AppendKeeps ==
  ASSUME NEW s \in Seq(Words), NEW w \in Words, OnSaved(s)
  PROVE  /\ Append(s, w) \in Seq(Words) /\ Len(Append(s, w)) = Len(s) + 1
         /\ OnSaved(Append(s, w))
  BY DEF OnSaved

(* The two pops take what the two pushes left. *)
LEMMA SavedPops ==
  /\ Saved \in Seq(Words) /\ Len(Saved) = 2 /\ OnSaved(Saved)
  /\ << "low" >> \in Seq(Words)
  /\ Last(Saved) = "high" /\ Front(Saved) = << "low" >>
  /\ Last(<< "low" >>) = "low" /\ Front(<< "low" >>) = << >>
  <1>1. Saved \in Seq(Words) /\ Len(Saved) = 2 /\ OnSaved(Saved)
    BY DEF Saved, OnSaved, Words
  <1>2. Last(Saved) = "high" /\ Last(<< "low" >>) = "low"
    BY DEF Saved, Last
  <1>3. Front(Saved) = << "low" >>
    <2>1. Front(Saved) = SubSeq(Saved, 1, 1)
      BY <1>1 DEF Front
    <2>2. SubSeq(Saved, 1, 1) = << Saved[1] >> \o SubSeq(Saved, 2, 1)
      BY <1>1, SubSeqRecursiveFirst
    <2>3. QED
      BY <2>1, <2>2, SubSeqEmpty DEF Saved
  <1>4. Front(<< "low" >>) = << >>
    BY SubSeqEmpty DEF Front
  <1>5. << "low" >> \in Seq(Words)
    BY DEF Words
  <1> QED
    BY <1>1, <1>2, <1>3, <1>4, <1>5

(* Two words over which there is nothing else are the saved ones. *)
LEMMA TwoSaved ==
  ASSUME NEW s \in Seq(Words), Len(s) = 2, OnSaved(s)
  PROVE  s = Saved
  <1>1. Saved \in Seq(Words) /\ Len(Saved) = 2 /\ OnSaved(Saved)
    BY SavedPops
  <1>2. \A i \in 1 .. Len(s) : s[i] = Saved[i]
    BY <1>1 DEF OnSaved
  <1> QED
    BY <1>1, <1>2, SeqEqual

LEMMA SavedPushed == Append(<< "low" >>, "high") = Saved
  <1>1. "high" \in Words /\ << "low" >> \in Seq(Words) /\ Len(<< "low" >>) = 1
    BY SavedPops DEF Words
  <1> DEFINE s == Append(<< "low" >>, "high")
  <1>2. s \in Seq(Words) /\ Len(s) = 2 /\ s[1] = "low" /\ s[2] = "high"
    BY <1>1
  <1>3. OnSaved(s)
    BY <1>2 DEF OnSaved
  <1> HIDE DEF s
  <1>4. s = Saved
    BY <1>2, <1>3, TwoSaved
  <1> QED
    BY <1>4 DEF s

(* However much the program had on its stack, the landing's sp is over the two
   saved words; so is its own, once the epilogue has dropped the arguments. *)
LEMMA StackAtLanding ==
  ASSUME stack \in Seq(Words), OnSaved(stack)
  PROVE  StackAt(2) = Saved /\ SubSeq(stack, 1, 2) = Saved
  <1>1. StackAt(2) \in [1 .. 2 -> Words]
    BY ElementOfSeq DEF StackAt, OnSaved, Words
  <1>2. StackAt(2) \in Seq(Words)
    <2>1. [1 .. 2 -> Words] \in { [1 .. n -> Words] : n \in Nat }
      OBVIOUS
    <2>2. Seq(Words) = UNION { [1 .. n -> Words] : n \in Nat }
      BY SeqDef
    <2>3. QED
      BY <1>1, <2>1, <2>2, Zenon
  <1>3. Len(StackAt(2)) = 2
    BY <1>1, <1>2
  <1>4. OnSaved(StackAt(2))
    <2>1. StackAt(2)[1] = stack[1] /\ StackAt(2)[2] = stack[2]
      BY DEF StackAt, OnSaved
    <2>2. QED
      BY <2>1, <1>3 DEF OnSaved
  <1>5. StackAt(2) = Saved
    BY <1>2, <1>3, <1>4, TwoSaved
  <1>6. /\ SubSeq(stack, 1, 2) \in Seq(Words) /\ Len(SubSeq(stack, 1, 2)) = 2
        /\ OnSaved(SubSeq(stack, 1, 2))
    BY DEF OnSaved
  <1> QED
    BY <1>5, <1>6, TwoSaved

-----------------------------------------------------------------------------
LEMMA InitInv == Init => IInv
  <1> SUFFICES ASSUME Init PROVE IInv
    OBVIOUS
  <1>1. Types
    BY EmptySeq DEF Init, Types, Places, NoRegs, Values, Tags
  <1>2. StackInv /\ SlotInv /\ ToldInv
    BY DEF Init, StackInv, SlotInv, ToldInv, Told, Inside, Abortable, WayIn, WayOut
  <1> QED
    BY <1>1, <1>2 DEF IInv

(* The way in *)
LEMMA EnterInv ==
  ASSUME IInv, Enter
  PROVE  IInv'
  <1> USE ExcursionConstants DEF IInv, Goto, Pushed, Popped, FrameGone, NoRegs,
          control, canceller
  <1>1. CASE Begin
    <2>1. Types'
      BY <1>1 DEF Begin, Types, Places, WayIn
    <2>2. StackInv' /\ SlotInv'
      BY <1>1 DEF Begin, StackInv, SlotInv, Inside, Abortable, Blank
    <2>3. ToldInv'
      BY <1>1 DEF Begin, ToldInv, WayIn, WayOut, Inside
    <2> QED
      BY <2>1, <2>2, <2>3
  <1>2. CASE Reject
    <2>0. Len(stack) \in Nat /\ sentinel' \in [landing : BOOLEAN, sp : Nat]
      <3>1. Len(stack) \in Nat
        BY LenProperties DEF Types
      <3>2. {0, Len(stack) + 2} \subseteq Nat
        BY <3>1
      <3>3. QED
        BY <1>2, <3>1, <3>2 DEF Reject
    <2>1. Types'
      BY <1>2, <2>0 DEF Reject, Types, Places, Values, Tags
    <2>2. StackInv' /\ SlotInv'
      BY <1>2 DEF Reject, StackInv, SlotInv, Inside, Abortable
    <2>3. ToldInv'
      BY <1>2 DEF Reject, ToldInv, Told, WayIn, WayOut, Inside
    <2> QED
      BY <2>1, <2>2, <2>3
  <1>3. CASE Publish
    <2>1. Types'
      BY <1>3 DEF Publish, Types, Places, WayIn
    <2>2. StackInv' /\ SlotInv'
      BY <1>3 DEF Publish, StackInv, SlotInv, Inside, Abortable
    <2>3. ToldInv'
      BY <1>3 DEF Publish, ToldInv, WayIn, WayOut, Inside
    <2> QED
      BY <2>1, <2>2, <2>3
  <1>4. CASE SaveLow
    <2>1. Types'
      BY <1>4 DEF SaveLow, Types, Places, WayIn, Words
    <2>2. StackInv' /\ SlotInv'
      BY <1>4 DEF SaveLow, StackInv, SlotInv, Inside, Abortable
    <2>3. ToldInv'
      BY <1>4 DEF SaveLow, ToldInv, WayIn, WayOut, Inside
    <2> QED
      BY <2>1, <2>2, <2>3
  <1>5. CASE SaveHigh
    <2>0. stack' = Saved
      BY <1>5, SavedPushed DEF SaveHigh, StackInv
    <2>1. Types'
      BY <1>5, <2>0, SavedPops DEF SaveHigh, Types, Places, WayIn
    <2>2. StackInv' /\ SlotInv'
      BY <1>5, <2>0 DEF SaveHigh, StackInv, SlotInv, Inside, Abortable
    <2>3. ToldInv'
      BY <1>5 DEF SaveHigh, ToldInv, WayIn, WayOut, Inside
    <2> QED
      BY <2>1, <2>2, <2>3
  <1>6. CASE WriteLanding
    <2>0. sentinel' = [landing |-> TRUE, sp |-> 0]
      <3>1. sentinel = [landing |-> FALSE, sp |-> 0]
        BY <1>6 DEF WriteLanding, SlotInv, Blank
      <3>2. QED
        BY <1>6, <3>1 DEF WriteLanding
    <2>1. Types'
      BY <1>6, <2>0 DEF WriteLanding, Types, Places, WayIn
    <2>2. StackInv' /\ SlotInv'
      BY <1>6, <2>0 DEF WriteLanding, StackInv, SlotInv, Inside, Abortable
    <2>3. ToldInv'
      BY <1>6 DEF WriteLanding, ToldInv, WayIn, WayOut, Inside
    <2> QED
      BY <2>1, <2>2, <2>3
  <1>7. CASE ParkSp
    <2>0. Len(stack) = 2 /\ stack = Saved /\ OnSaved(Saved)
      BY <1>7, SavedPops DEF ParkSp, StackInv
    <2>1. Types'
      BY <1>7, <2>0 DEF ParkSp, Types, Places, Inside
    <2>2. StackInv' /\ SlotInv'
      BY <1>7, <2>0 DEF ParkSp, StackInv, SlotInv, Inside, Abortable, Armed
    <2>3. ToldInv'
      BY <1>7 DEF ParkSp, ToldInv, WayIn, WayOut, Inside
    <2> QED
      BY <2>1, <2>2, <2>3
  <1>8. CASE PushArgument
    <2>0. stack' \in Seq(Words) /\ OnSaved(stack')
      BY <1>8, AppendKeeps DEF PushArgument, Types, StackInv, Inside, Words
    <2>1. Types'
      BY <1>8, <2>0 DEF PushArgument, Types
    <2>2. StackInv' /\ SlotInv'
      BY <1>8, <2>0 DEF PushArgument, StackInv, SlotInv, Inside, Abortable
    <2>3. ToldInv'
      BY <1>8 DEF PushArgument, ToldInv, WayIn, WayOut, Inside
    <2> QED
      BY <2>1, <2>2, <2>3
  <1>9. CASE EnterCode
    <2>1. Types'
      BY <1>9 DEF EnterCode, Types, Places, Inside
    <2>2. StackInv' /\ SlotInv'
      BY <1>9 DEF EnterCode, StackInv, SlotInv, Inside, Abortable
    <2>3. ToldInv'
      BY <1>9 DEF EnterCode, ToldInv, WayIn, WayOut, Inside
    <2> QED
      BY <2>1, <2>2, <2>3
  <1> QED
    BY <1>1, <1>2, <1>3, <1>4, <1>5, <1>6, <1>7, <1>8, <1>9 DEF Enter

(* The compiled code *)
LEMMA ExecuteInv ==
  ASSUME IInv, Execute, ~ HelperBorrows
  PROVE  IInv'
  <1> USE ExcursionConstants DEF IInv, Goto, Pushed, Popped, control, canceller
  <1>1. CASE Spill
    <2>0. /\ stack' \in Seq(Words) /\ OnSaved(stack')
          /\ Len(stack') = Len(stack) + 1 /\ Len(stack) \in Nat
      BY <1>1, AppendKeeps, LenProperties DEF Spill, Types, StackInv, Inside, Words
    <2>1. Types'
      BY <1>1, <2>0 DEF Spill, Types, Places, Inside, WayOut
    <2>2. StackInv' /\ SlotInv'
      BY <1>1, <2>0 DEF Spill, StackInv, SlotInv, Inside, Abortable
    <2>3. ToldInv'
      BY <1>1, <2>0 DEF Spill, ToldInv, WayIn, WayOut, Inside
    <2> QED
      BY <2>1, <2>2, <2>3
  <1>2. CASE Reload
    <2>0. /\ stack' \in Seq(Words) /\ OnSaved(stack')
          /\ Len(stack') = Len(stack) - 1 /\ Len(stack) \in Nat
      BY <1>2, FrontKeeps, LenProperties DEF Reload, Types, StackInv, Inside
    <2>1. Types'
      BY <1>2, <2>0 DEF Reload, Types, Places, Inside, WayOut
    <2>2. StackInv' /\ SlotInv'
      BY <1>2, <2>0 DEF Reload, StackInv, SlotInv, Inside, Abortable
    <2>3. ToldInv'
      BY <1>2, <2>0 DEF Reload, ToldInv, WayIn, WayOut, Inside
    <2> QED
      BY <2>1, <2>2, <2>3
  <1>3. CASE CallHelper
    <2>0. /\ stack' \in Seq(Words) /\ OnSaved(stack')
          /\ Len(stack') = Len(stack) + 1 /\ Len(stack) \in Nat
      BY <1>3, AppendKeeps, LenProperties DEF CallHelper, Types, StackInv, Inside, Words
    <2>1. Types'
      BY <1>3, <2>0 DEF CallHelper, Types, Places, Inside, WayOut
    <2>2. StackInv' /\ SlotInv'
      BY <1>3, <2>0 DEF CallHelper, StackInv, SlotInv, Inside, Abortable
    <2>3. ToldInv'
      BY <1>3, <2>0 DEF CallHelper, ToldInv, WayIn, WayOut, Inside
    <2> QED
      BY <2>1, <2>2, <2>3
  <1>4. CASE HelperReturns
    <2>0. /\ stack' \in Seq(Words) /\ OnSaved(stack')
          /\ Len(stack') = Len(stack) - 1 /\ Len(stack) \in Nat
      BY <1>4, FrontKeeps, LenProperties DEF HelperReturns, Types, StackInv, Inside
    <2>1. Types'
      BY <1>4, <2>0 DEF HelperReturns, Types, Places, Inside, WayOut
    <2>2. StackInv' /\ SlotInv'
      BY <1>4, <2>0 DEF HelperReturns, StackInv, SlotInv, Inside, Abortable
    <2>3. ToldInv'
      BY <1>4, <2>0 DEF HelperReturns, ToldInv, WayIn, WayOut, Inside
    <2> QED
      BY <2>1, <2>2, <2>3
  <1>5. CASE EnterTranslator
    <2>0. /\ stack' \in Seq(Words) /\ OnSaved(stack')
          /\ Len(stack') = Len(stack) + 1 /\ Len(stack) \in Nat
      BY <1>5, AppendKeeps, LenProperties DEF EnterTranslator, Types, StackInv, Inside, Words
    <2>1. Types'
      BY <1>5, <2>0 DEF EnterTranslator, Types, Places, Inside, WayOut
    <2>2. StackInv' /\ SlotInv'
      BY <1>5, <2>0 DEF EnterTranslator, StackInv, SlotInv, Inside, Abortable
    <2>3. ToldInv'
      BY <1>5, <2>0 DEF EnterTranslator, ToldInv, WayIn, WayOut, Inside
    <2> QED
      BY <2>1, <2>2, <2>3
  <1>6. CASE LeaveTranslator
    <2>0. /\ stack' \in Seq(Words) /\ OnSaved(stack')
          /\ Len(stack') = Len(stack) - 1 /\ Len(stack) \in Nat
      BY <1>6, FrontKeeps, LenProperties DEF LeaveTranslator, Types, StackInv, Inside
    <2>1. Types'
      BY <1>6, <2>0 DEF LeaveTranslator, Types, Places, Inside, WayOut
    <2>2. StackInv' /\ SlotInv'
      BY <1>6, <2>0 DEF LeaveTranslator, StackInv, SlotInv, Inside, Abortable
    <2>3. ToldInv'
      BY <1>6, <2>0 DEF LeaveTranslator, ToldInv, WayIn, WayOut, Inside
    <2> QED
      BY <2>1, <2>2, <2>3
  <1>7. CASE Trap
    <2>0. /\ at' = "jump" /\ sentinel = Armed /\ regs'.sp = 2 /\ regs'.landing = TRUE
          /\ regs' \in [value : Values, tag : Tags, sp : Nat, landing : BOOLEAN]
      <3>1. at' = "jump" /\ sentinel = [landing |-> TRUE, sp |-> 2]
        BY <1>7 DEF Trap, JumpWith, SlotInv, Abortable, Inside, Armed
      <3>2. regs' = [value |-> "trap", tag |-> "trap", sp |-> 2, landing |-> TRUE]
        BY <1>7, <3>1 DEF Trap, JumpWith
      <3>3. QED
        BY <3>1, <3>2 DEF Armed, Values, Tags
    <2>1. Types'
      BY <1>7, <2>0 DEF Trap, Types, Places, Inside, WayOut, JumpWith
    <2>2. StackInv' /\ SlotInv'
      BY <1>7, <2>0 DEF Trap, StackInv, SlotInv, Inside, Abortable, JumpWith
    <2>3. ToldInv'
      BY <1>7, <2>0 DEF Trap, ToldInv, WayIn, WayOut, Inside, Told, JumpWith
    <2> QED
      BY <2>1, <2>2, <2>3
  <1>8. CASE Bail
    <2>0. /\ at' = "jump" /\ sentinel = Armed /\ regs'.sp = 2 /\ regs'.landing = TRUE
          /\ regs' \in [value : Values, tag : Tags, sp : Nat, landing : BOOLEAN]
      <3>1. at' = "jump" /\ sentinel = [landing |-> TRUE, sp |-> 2]
        BY <1>8 DEF Bail, JumpWith, SlotInv, Abortable, Inside, Armed
      <3>2. regs' = [value |-> "exhausted", tag |-> "resource", sp |-> 2, landing |-> TRUE]
        BY <1>8, <3>1 DEF Bail, JumpWith
      <3>3. QED
        BY <3>1, <3>2 DEF Armed, Values, Tags
    <2>1. Types'
      BY <1>8, <2>0 DEF Bail, Types, Places, Inside, WayOut, JumpWith
    <2>2. StackInv' /\ SlotInv'
      BY <1>8, <2>0 DEF Bail, StackInv, SlotInv, Inside, Abortable, JumpWith
    <2>3. ToldInv'
      BY <1>8, <2>0 DEF Bail, ToldInv, WayIn, WayOut, Inside, Told, JumpWith
    <2> QED
      BY <2>1, <2>2, <2>3
  <1>9. CASE Return
    <2>0. stack' = Saved /\ regs'.value = "own" /\ regs'.tag = "success"
      BY <1>9, StackAtLanding DEF Return, Types, StackInv, Inside
    <2>1. Types'
      BY <1>9, <2>0, SavedPops DEF Return, Types, Places, Inside, WayOut, Values, Tags
    <2>2. StackInv' /\ SlotInv'
      BY <1>9, <2>0, SavedPops DEF Return, StackInv, SlotInv, Inside, Abortable
    <2>3. ToldInv'
      BY <1>9, <2>0, SavedPops DEF Return, ToldInv, WayIn, WayOut, Inside, Told
    <2> QED
      BY <2>1, <2>2, <2>3
  <1> QED
    BY <1>1, <1>2, <1>3, <1>4, <1>5, <1>6, <1>7, <1>8, <1>9 DEF Execute

(* The landing and the way out *)
LEMMA LandInv ==
  ASSUME IInv, Land
  PROVE  IInv'
  <1> USE ExcursionConstants DEF IInv, Goto, Pushed, Popped, FrameGone, control, canceller
  <1>1. CASE MoveSp
    <2>0. stack' = Saved
      BY <1>1, StackAtLanding DEF MoveSp, Types, StackInv, SlotInv
    <2>1. Types'
      BY <1>1, <2>0, SavedPops DEF MoveSp, Types, Places, Inside, WayOut
    <2>2. StackInv' /\ SlotInv'
      BY <1>1, <2>0, SavedPops DEF MoveSp, StackInv, SlotInv, Inside, Abortable
    <2>3. ToldInv'
      BY <1>1, <2>0, SavedPops DEF MoveSp, ToldInv, Told, WayIn, WayOut, Inside
    <2> QED
      BY <2>1, <2>2, <2>3
  <1>2. CASE BranchToLanding
    <2>1. Types'
      BY <1>2 DEF BranchToLanding, Types, SlotInv, Places, Inside, WayOut
    <2>2. StackInv' /\ SlotInv'
      BY <1>2 DEF BranchToLanding, StackInv, SlotInv, Inside, Abortable, Armed
    <2>3. ToldInv'
      BY <1>2 DEF BranchToLanding, ToldInv, Told, WayIn, WayOut, Inside
    <2> QED
      BY <2>1, <2>2, <2>3
  <1>3. CASE Disarm
    <2>0. sentinel' \in [landing : BOOLEAN, sp : Nat] /\ sentinel'.sp = 0
      BY <1>3 DEF Disarm, Types, StackInv, SlotInv, Abortable, Armed
    <2>1. Types'
      BY <1>3, <2>0 DEF Disarm, Types, Places, Inside, WayOut
    <2>2. StackInv' /\ SlotInv'
      BY <1>3, <2>0 DEF Disarm, StackInv, SlotInv, Inside, Abortable
    <2>3. ToldInv'
      BY <1>3, <2>0 DEF Disarm, ToldInv, Told, WayIn, WayOut, Inside
    <2> QED
      BY <2>1, <2>2, <2>3
  <1>4. CASE PopHigh
    <2>0. stack' = << "low" >> /\ Last(stack) = "high" /\ stack' \in Seq(Words)
      BY <1>4, SavedPops DEF PopHigh, StackInv
    <2>1. Types'
      BY <1>4, <2>0 DEF PopHigh, Types, Places, Inside, WayOut
    <2>2. StackInv' /\ SlotInv'
      BY <1>4, <2>0 DEF PopHigh, StackInv, SlotInv, Inside, Abortable
    <2>3. ToldInv'
      BY <1>4, <2>0 DEF PopHigh, ToldInv, Told, WayIn, WayOut, Inside
    <2> QED
      BY <2>1, <2>2, <2>3
  <1>5. CASE PopLow
    <2>0. stack' = << >> /\ Last(stack) = "low" /\ stack' \in Seq(Words)
      BY <1>5, SavedPops, EmptySeq DEF PopLow, StackInv
    <2>1. Types'
      BY <1>5, <2>0 DEF PopLow, Types, Places, Inside, WayOut
    <2>2. StackInv' /\ SlotInv'
      BY <1>5, <2>0 DEF PopLow, StackInv, SlotInv, Inside, Abortable
    <2>3. ToldInv'
      BY <1>5, <2>0 DEF PopLow, ToldInv, Told, WayIn, WayOut, Inside
    <2> QED
      BY <2>1, <2>2, <2>3
  <1>6. CASE Finish
    <2>0. sentinel' \in [landing : BOOLEAN, sp : Nat]
      <3>1. Len(stack) \in Nat
        BY LenProperties DEF Types
      <3>2. {0, Len(stack) + 2} \subseteq Nat
        BY <3>1
      <3>3. QED
        BY <1>6, <3>1, <3>2 DEF Finish
    <2>1. Types'
      BY <1>6, <2>0 DEF Finish, Types, Places, Inside, WayOut
    <2>2. StackInv' /\ SlotInv'
      BY <1>6, <2>0 DEF Finish, StackInv, SlotInv, Inside, Abortable
    <2>3. ToldInv'
      BY <1>6, <2>0 DEF Finish, ToldInv, WayIn, WayOut, Inside, Told
    <2> QED
      BY <2>1, <2>2, <2>3
  <1> QED
    BY <1>1, <1>2, <1>3, <1>4, <1>5, <1>6 DEF Land

(* A cancellation, wherever the excursion is armed: at every place from ParkSp
   to Disarm, the jump of another cancellation included. *)
LEMMA CancelInv ==
  ASSUME IInv, Cancel
  PROVE  IInv'
  <1> USE ExcursionConstants DEF IInv, Goto, control
  <1>1. at \in Abortable
    BY DEF Cancel, Types, SlotInv, Places, WayIn, WayOut, Inside, Abortable, Blank
  <1>2. /\ sentinel = Armed /\ OnSaved(stack)
    BY <1>1, SavedPops DEF StackInv, SlotInv, Abortable, Inside
  <1>3. /\ wanted \in Codes /\ at' = "jump" /\ stack' = stack /\ sentinel' = sentinel
        /\ regs' = [value |-> wanted, tag |-> "cancelled", sp |-> 2, landing |-> TRUE]
    BY <1>2 DEF Cancel, JumpWith, ToldInv, Armed
  <1>4. Types'
    BY <1>3 DEF Cancel, JumpWith, Types, Places, WayOut, Values, Tags
  <1>5. StackInv' /\ SlotInv'
    BY <1>1, <1>2, <1>3 DEF Cancel, JumpWith, StackInv, SlotInv, Abortable, Inside
  <1>6. ToldInv'
    BY <1>3 DEF Cancel, ToldInv, Told, WayIn, Inside, WayOut
  <1> QED
    BY <1>4, <1>5, <1>6

LEMMA StepInv ==
  ASSUME ~ HelperBorrows
  PROVE  IInv /\ [Next]_vars => IInv'
  <1> SUFFICES ASSUME IInv, [Next]_vars PROVE IInv'
    OBVIOUS
  <1>1. CASE \E c \in Codes : Request(c)
    BY <1>1 DEF IInv, Types, StackInv, SlotInv, ToldInv, Told, Request, control
  <1>2. CASE UNCHANGED vars
    BY <1>2 DEF IInv, Types, StackInv, SlotInv, ToldInv, Told, vars, control, canceller
  <1> QED
    BY <1>1, <1>2, EnterInv, ExecuteInv, LandInv, CancelInv DEF Next

LEMMA InvHolds ==
  ASSUME ~ HelperBorrows
  PROVE  Spec => []IInv
  BY InitInv, StepInv, PTL DEF Spec

-----------------------------------------------------------------------------
(* The landing pops what enterDispatch saved, wherever it was entered from. *)
THEOREM ExcursionResumesHost ==
  ASSUME ~ HelperBorrows
  PROVE  Spec => []HostResumes
  <1>1. IInv => HostResumes
    BY DEF IInv, Types, StackInv, HostResumes, Places, WayIn, Inside, WayOut, Saved
  <1> QED
    BY <1>1, InvHolds, PTL

(* No cancel is accepted once the pops have begun. *)
THEOREM ExcursionDisarms ==
  ASSUME ~ HelperBorrows
  PROVE  Spec => []DisarmedBeforePops
  <1>1. IInv => DisarmedBeforePops
    BY DEF IInv, SlotInv, DisarmedBeforePops
  <1> QED
    BY <1>1, InvHolds, PTL

(* The last cancel told true is what the run returns. *)
THEOREM ExcursionHonoursCancel ==
  ASSUME ~ HelperBorrows
  PROVE  Spec => []AcceptedCancelWins
  <1>1. IInv => AcceptedCancelWins
    BY DEF IInv, Types, ToldInv, Told, AcceptedCancelWins
  <1> QED
    BY <1>1, InvHolds, PTL
=============================================================================
