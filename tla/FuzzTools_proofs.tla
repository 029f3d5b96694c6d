--------------------------- MODULE FuzzTools_proofs ---------------------------
(***************************************************************************)
(* Proofs about FuzzTools for every set of programs and every limit of the *)
(* two tools.                                                              *)
(*                                                                         *)
(* The sinks are operators that go over a batch, or over the lines of an   *)
(* output, in a recursive function.  What such a function is follows from  *)
(* Recursion, and what holds of its values from Induct, which is induction *)
(* over a set of numbers.  The order of the lemmas is the way of a batch:  *)
(* where its programs end in the window, what the target prints of it and  *)
(* what its caller reads of that (Heard), how entries are packed (Chunked),*)
(* how a crash is found (Bisected); then the invariant, one lemma for each *)
(* action, and the theorems.                                               *)
(***************************************************************************)
EXTENDS FuzzTools, SequenceTheorems, NaturalsInduction, WellFoundedInduction, TLAPS

-----------------------------------------------------------------------------
(* Recursive functions. *)

(* Induction, over a set of numbers. *)
LEMMA Induct ==
  ASSUME NEW S, 0 \in S, \A n \in Nat : n \in S => n + 1 \in S
  PROVE  Nat \subseteq S
  <1> DEFINE R == OpToRel(<, Nat)
             T == Nat \ S
  <1>1. IsWellFoundedOn(R, Nat)
    BY NatLessThanWellFounded
  <1>2. SUFFICES ASSUME T # {} PROVE FALSE
    OBVIOUS
  <1>a. T \subseteq Nat
    OBVIOUS
  <1> HIDE DEF R, T
  <1>3. PICK m \in T : \A k \in T : ~ (<< k, m >> \in R)
    BY <1>1, <1>2, <1>a, WFMin
  <1>4. m \in Nat /\ m # 0 /\ m \notin S
    BY <1>3 DEF T
  <1>5. m - 1 \in Nat /\ m - 1 < m /\ (m - 1) + 1 = m
    BY <1>4
  <1>6. m - 1 \notin T
    <2>1. << m - 1, m >> \in R
      BY <1>4, <1>5 DEF R, OpToRel
    <2>2. QED
      BY <2>1, <1>3
  <1>7. QED
    BY <1>4, <1>5, <1>6 DEF T

(* Whatever goes over a batch or a list of lines step by step. *)
Steps(V, N) == [1 .. N -> [V -> V]]
Goes(f, V, base, N, step) ==
  /\ f \in [0 .. N -> V] /\ f[0] = base
  /\ \A i \in 1 .. N : f[i] = step[i][f[i - 1]]

(* A function that is defined step by step exists. *)
LEMMA Recursion ==
  ASSUME NEW V, NEW base \in V, NEW N \in Nat, NEW step \in Steps(V, N)
  PROVE  \E f : Goes(f, V, base, N, step)
  <1> DEFINE Is(f, n) == /\ f \in [0 .. n -> V] /\ f[0] = base
                         /\ \A i \in 1 .. n : f[i] = step[i][f[i - 1]]
             S == { n \in Nat : n <= N => \E f : Is(f, n) }
  <1>1. 0 \in S
    <2>1. Is([i \in 0 .. 0 |-> base], 0)
      OBVIOUS
    <2>2. QED
      BY <2>1
  <1>2. ASSUME NEW n \in Nat, n \in S PROVE n + 1 \in S
    <2>1. SUFFICES ASSUME n + 1 <= N PROVE \E f : Is(f, n + 1)
      OBVIOUS
    <2>2. PICK f : Is(f, n)
      BY <1>2, <2>1
    <2> DEFINE g == [i \in 0 .. n + 1 |-> IF i <= n THEN f[i] ELSE step[n + 1][f[n]]]
    <2>3. n + 1 \in 1 .. N /\ f[n] \in V
      BY <2>1, <2>2
    <2>4. step[n + 1][f[n]] \in V
      BY <2>3 DEF Steps
    <2>5. g \in [0 .. n + 1 -> V] /\ g[0] = base
      BY <2>2, <2>4
    <2>6. ASSUME NEW i \in 1 .. n + 1 PROVE g[i] = step[i][g[i - 1]]
      <3>1. i - 1 \in 0 .. n /\ g[i - 1] = f[i - 1]
        OBVIOUS
      <3>2. CASE i <= n
        BY <3>1, <3>2, <2>2
      <3>3. CASE i = n + 1
        BY <3>1, <3>3
      <3>4. QED
        BY <3>2, <3>3
    <2>7. QED
      BY <2>5, <2>6
  <1>3. N \in S
    <2> HIDE DEF S
    <2>1. QED
      BY <1>1, <1>2, Induct
  <1>4. QED
    BY <1>3 DEF Goes

(* And its values stay where its steps do. *)
LEMMA StaysIn ==
  ASSUME NEW V, NEW N \in Nat, NEW f, DOMAIN f = 0 .. N, f = [i \in DOMAIN f |-> f[i]],
         f[0] \in V, \A i \in 1 .. N : f[i - 1] \in V => f[i] \in V
  PROVE  f \in [0 .. N -> V]
  <1> DEFINE S == { n \in Nat : n <= N => f[n] \in V }
  <1>1. 0 \in S
    OBVIOUS
  <1>2. ASSUME NEW n \in Nat, n \in S PROVE n + 1 \in S
    <2>1. CASE n + 1 <= N
      <3>1. n + 1 \in 1 .. N /\ (n + 1) - 1 = n /\ f[n] \in V
        BY <1>2, <2>1
      <3>2. QED
        BY <3>1
    <2>2. QED
      BY <2>1
  <1>3. Nat \subseteq S
    <2> HIDE DEF S
    <2>1. QED
      BY <1>1, <1>2, Induct
  <1>4. ASSUME NEW n \in 0 .. N PROVE f[n] \in V
    BY <1>3
  <1>5. QED
    BY <1>4

(* Ends adds up the sizes. *)
LEMMA EndsFacts ==
  ASSUME NEW batch, Len(batch) \in Nat, \A i \in 1 .. Len(batch) : batch[i].need \in Nat
  PROVE  LET e == Ends(batch)
         IN  /\ e \in [0 .. Len(batch) -> Nat] /\ e[0] = HeaderBytes
             /\ \A i \in 1 .. Len(batch) : e[i] = e[i - 1] + batch[i].need
  <1> DEFINE N == Len(batch)
             step == [i \in 1 .. N |-> [b \in Nat |-> b + batch[i].need]]
             Is(f) == f = [i \in 0 .. Len(batch) |->
                             IF i = 0 THEN HeaderBytes ELSE f[i - 1] + batch[i].need]
  <1>1. HeaderBytes \in Nat /\ step \in Steps(Nat, N) /\ N \in Nat
    BY DEF HeaderBytes, Steps
  <1>2. PICK f : Goes(f, Nat, HeaderBytes, N, step)
    <2> HIDE DEF N, step
    <2>1. QED
      BY <1>1, Recursion
  <1>3. Is(f)
    <2>1. ASSUME NEW i \in 0 .. N, i # 0
          PROVE  f[i] = f[i - 1] + batch[i].need
      <3>1. i \in 1 .. N /\ i - 1 \in 0 .. N
        BY <1>1, <2>1
      <3>2. f[i - 1] \in Nat
        BY <1>2, <3>1 DEF Goes
      <3>3. QED
        BY <1>2, <3>1, <3>2 DEF Goes
    <2>2. f \in [0 .. N -> Nat] /\ f[0] = HeaderBytes
      BY <1>2 DEF Goes
    <2>3. QED
      BY <1>1, <2>1, <2>2
  <1>4. Is(Ends(batch))
    BY <1>3 DEF Ends
  <1> DEFINE e == Ends(batch)
  <1>5. DOMAIN e = 0 .. N /\ e[0] = HeaderBytes
    BY <1>1, <1>4
  <1>6. ASSUME NEW i \in 1 .. N PROVE e[i] = e[i - 1] + batch[i].need
    BY <1>4
  <1> HIDE DEF e, Is
  <1>7. e \in [0 .. N -> Nat]
    <2>1. e = [n \in DOMAIN e |-> e[n]]
      BY <1>4, <1>5 DEF Is, e
    <2>2. e[0] \in Nat
      BY <1>1, <1>5
    <2>3. ASSUME NEW i \in 1 .. N, e[i - 1] \in Nat PROVE e[i] \in Nat
      <3>1. batch[i].need \in Nat
        OBVIOUS
      <3>2. QED
        BY <1>6, <2>3, <3>1
    <2> HIDE DEF N
    <2>4. QED
      BY <1>1, <1>5, <2>1, <2>2, <2>3, StaysIn
  <1>8. QED
    BY <1>5, <1>6, <1>7 DEF e

-----------------------------------------------------------------------------
(* What is printed, and how it is read line by line. *)

LineTags == {"R", "T", "E", "X", "A", "M", "DONE"}
Lines == [tag : LineTags, value : Nat]
Results == [tag : ResultTags, value : Nat, mem : Nat]

(* What one more line makes of the results read so far. *)
Read(before, line) ==
  IF line.tag \in ResultTags
  THEN Append(before, Answer(line.tag, line.value, NoDigest))
  ELSE IF line.tag = "M" /\ before # << >>
  THEN [before EXCEPT ![Len(before)] = Answer(@.tag, @.value, line.value)]
  ELSE before

(* r reads the output line by line. *)
Reads(r, output) ==
  /\ DOMAIN r = 0 .. Len(output) /\ r[0] = << >>
  /\ \A k \in 1 .. Len(output) : r[k] = Read(r[k - 1], output[k])

LEMMA ReadTyped ==
  ASSUME NEW before \in Seq(Results), NEW line \in Lines
  PROVE  Read(before, line) \in Seq(Results)
  <1>1. CASE line.tag \in ResultTags
    <2>1. Answer(line.tag, line.value, NoDigest) \in Results
      BY <1>1 DEF Lines, Results, Answer, NoDigest
    <2>2. QED
      BY <1>1, <2>1 DEF Read
  <1>2. CASE line.tag \notin ResultTags /\ line.tag = "M" /\ before # << >>
    <2>1. Len(before) \in 1 .. Len(before)
      BY <1>2
    <2> DEFINE last == before[Len(before)]
    <2>2. Answer(last.tag, last.value, line.value) \in Results
      <3>1. last \in Results
        BY <2>1
      <3>2. QED
        BY <3>1 DEF Lines, Results, Answer
    <2> DEFINE r == Answer(last.tag, last.value, line.value)
    <2>3. Read(before, line) = [before EXCEPT ![Len(before)] = r]
      BY <1>2 DEF Read
    <2> HIDE DEF r
    <2>4. [before EXCEPT ![Len(before)] = r] \in Seq(Results)
      BY <2>1, <2>2 DEF r
    <2>5. QED
      BY <2>3, <2>4
  <1>3. CASE line.tag \notin ResultTags /\ ~ (line.tag = "M" /\ before # << >>)
    BY <1>3 DEF Read
  <1>4. QED
    BY <1>1, <1>2, <1>3

(* ParseResults is such a reading. *)
LEMMA ParseReads ==
  ASSUME NEW output \in Seq(Lines)
  PROVE  \E r : Reads(r, output) /\ ParseResults(output) = r[Len(output)]
  <1> DEFINE N == Len(output)
             V == Seq(Results)
             step == [k \in 1 .. N |-> [b \in V |-> Read(b, output[k])]]
             Is(f) == f = [k \in 0 .. Len(output) |->
                        IF k = 0 THEN << >>
                        ELSE IF output[k].tag \in ResultTags
                             THEN Append(f[k - 1], Answer(output[k].tag, output[k].value, NoDigest))
                             ELSE IF output[k].tag = "M" /\ f[k - 1] # << >>
                             THEN [f[k - 1] EXCEPT ![Len(f[k - 1])] =
                                     Answer(@.tag, @.value, output[k].value)]
                             ELSE f[k - 1]]
  <1>1. N \in Nat /\ << >> \in V /\ step \in Steps(V, N)
    <2>1. ASSUME NEW k \in 1 .. N, NEW b \in V PROVE Read(b, output[k]) \in V
      <3>1. output[k] \in Lines
        OBVIOUS
      <3>2. QED
        BY <3>1, ReadTyped
    <2>2. step \in [1 .. N -> [V -> V]]
      <3> HIDE DEF V, N
      <3>1. QED
        BY <2>1
    <2>3. QED
      BY <2>2 DEF Steps
  <1>2. PICK f : Goes(f, V, << >>, N, step)
    <2> HIDE DEF N, step, V
    <2>1. QED
      BY <1>1, Recursion
  <1>3. f \in [0 .. N -> V] /\ f[0] = << >>
    BY <1>2 DEF Goes
  <1>4. ASSUME NEW k \in 1 .. N PROVE f[k] = Read(f[k - 1], output[k])
    <2>1. k - 1 \in 0 .. N
      BY <1>1
    <2>2. f[k - 1] \in V
      BY <2>1, <1>3
    <2>3. f[k] = step[k][f[k - 1]]
      BY <1>2 DEF Goes
    <2>4. QED
      BY <2>2, <2>3
  <1>5. Is(f)
    <2>1. ASSUME NEW k \in 0 .. N, k # 0
          PROVE  f[k] = Read(f[k - 1], output[k])
      <3>1. k \in 1 .. N
        BY <1>1, <2>1
      <3>2. QED
        BY <3>1, <1>4
    <2>2. QED
      BY <1>3, <2>1 DEF Read
  <1>6. \E g : Is(g) /\ ParseResults(output) = g[Len(output)]
    BY <1>5 DEF ParseResults
  <1>7. PICK g : Is(g) /\ ParseResults(output) = g[Len(output)]
    BY <1>6
  <1>8. DOMAIN g = 0 .. N /\ g[0] = << >>
    BY <1>1, <1>7
  <1>9. ASSUME NEW k \in 1 .. N PROVE g[k] = Read(g[k - 1], output[k])
    <2>1. k \in 0 .. Len(output) /\ k # 0
      BY <1>1
    <2>2. QED
      BY <2>1, <1>7 DEF Read
  <1>10. QED
    BY <1>7, <1>8, <1>9 DEF Reads

(* p joins the sequences of s. *)
Joins(p, s) ==
  /\ p \in [0 .. Len(s) -> Seq(Lines)] /\ p[0] = << >>
  /\ \A i \in 1 .. Len(s) : p[i] = p[i - 1] \o s[i]

(* FlattenSeq is such a joining. *)
LEMMA FlattenJoins ==
  ASSUME NEW s \in Seq(Seq(Lines)), s # << >>
  PROVE  \E p : Joins(p, s) /\ FlattenSeq(s) = p[Len(s)]
  <1> DEFINE N == Len(s)
             V == Seq(Lines)
             step == [i \in 1 .. N |-> [b \in V |-> b \o s[i]]]
             Is(g) == g = [i \in 1 .. Len(s) |-> IF i = 1 THEN s[i] ELSE g[i - 1] \o s[i]]
  <1>1. N \in Nat /\ N # 0 /\ << >> \in V /\ step \in Steps(V, N)
    BY DEF Steps
  <1>2. PICK f : Goes(f, V, << >>, N, step)
    <2> HIDE DEF N, step, V
    <2>1. QED
      BY <1>1, Recursion
  <1>3. f \in [0 .. N -> V] /\ f[0] = << >>
    BY <1>2 DEF Goes
  <1>4. ASSUME NEW i \in 1 .. N PROVE f[i] = f[i - 1] \o s[i] /\ f[i] \in V
    <2>1. i - 1 \in 0 .. N /\ i \in 0 .. N
      BY <1>1
    <2>2. f[i - 1] \in V
      BY <2>1, <1>3
    <2>3. f[i] = step[i][f[i - 1]]
      BY <1>2 DEF Goes
    <2>4. QED
      BY <2>1, <2>2, <2>3, <1>3
  <1> DEFINE h == [i \in 1 .. N |-> f[i]]
  <1>5. ASSUME NEW i \in 1 .. N
        PROVE  h[i] = IF i = 1 THEN s[i] ELSE h[i - 1] \o s[i]
    <2>1. CASE i = 1
      <3>0. 1 \in 1 .. N /\ 1 - 1 = 0
        BY <1>1
      <3>1. s[1] \in Seq(Lines) /\ f[0] = << >> /\ f[1] = f[0] \o s[1]
        <4>1. f[1] = f[1 - 1] \o s[1]
          BY <3>0, <1>4
        <4>2. s[1] \in Seq(Lines)
          BY <3>0
        <4>3. f[1] = f[0] \o s[1]
          BY ONLY <3>0, <4>1
        <4>4. QED
          BY <4>2, <4>3, <1>3
      <3>2. << >> \o s[1] = s[1]
        BY <3>1
      <3>3. QED
        BY <3>1, <3>2, <2>1
    <2>2. CASE i # 1
      <3>1. i - 1 \in 1 .. N
        BY <1>1, <2>2
      <3>2. QED
        BY <3>1, <2>2, <1>4
    <2>3. QED
      BY <2>1, <2>2
  <1>6. Is(h)
    BY <1>5
  <1>7. \E g : Is(g) /\ FlattenSeq(s) = g[Len(s)]
    <2> HIDE DEF h
    <2>1. QED
      BY <1>1, <1>6 DEF FlattenSeq
  <1>8. PICK g : Is(g) /\ FlattenSeq(s) = g[Len(s)]
    BY <1>7
  <1> DEFINE p == [i \in 0 .. N |-> IF i = 0 THEN << >> ELSE g[i]]
  <1>9. ASSUME NEW i \in 1 .. N PROVE p[i] = p[i - 1] \o s[i]
    <2>1. CASE i = 1
      <3>0. 1 \in 1 .. N /\ 1 \in 0 .. N /\ 0 \in 0 .. N /\ 1 - 1 = 0
        BY <1>1
      <3>1. s[1] \in Seq(Lines) /\ p[0] = << >> /\ p[1] = s[1]
        BY <1>8, <3>0
      <3>2. << >> \o s[1] = s[1]
        BY <3>1
      <3>3. p[1] = p[1 - 1] \o s[1]
        BY <3>0, <3>1, <3>2
      <3>4. QED
        BY <3>3, <2>1
    <2>2. CASE i # 1
      <3>1. i - 1 \in 1 .. N /\ i - 1 # 0 /\ i - 1 \in 0 .. N /\ i \in 0 .. N /\ i # 0
        BY <1>1, <2>2
      <3>2. g[i] = g[i - 1] \o s[i]
        BY <2>2, <1>8
      <3>3. QED
        BY <3>1, <3>2
    <2>3. QED
      BY <2>1, <2>2
  <1>10. DOMAIN p = 0 .. N /\ p[0] = << >> /\ p = [i \in DOMAIN p |-> p[i]]
    BY <1>1
  <1>11. \A i \in 1 .. N : s[i] \in Seq(Lines)
    OBVIOUS
  <1>12. p[N] = FlattenSeq(s)
    BY <1>1, <1>8
  <1> HIDE DEF p
  <1>13. p \in [0 .. N -> V]
    <2>1. ASSUME NEW i \in 1 .. N, p[i - 1] \in V PROVE p[i] \in V
      <3> DEFINE a == p[i - 1]
                 b == s[i]
      <3>1. a \in Seq(Lines) /\ b \in Seq(Lines) /\ p[i] = a \o b
        BY <1>9, <1>11, <2>1
      <3> HIDE DEF a, b
      <3>2. QED
        BY <3>1
    <2>2. p[0] \in V
      BY <1>10
    <2> HIDE DEF N, V
    <2>3. QED
      BY <1>1, <1>10, <2>1, <2>2, StaysIn
  <1>14. QED
    BY <1>9, <1>10, <1>12, <1>13 DEF Joins

(* What is printed first stays at the front. *)
LEMMA JoinedPrefix ==
  ASSUME NEW s \in Seq(Seq(Lines)), NEW p, Joins(p, s), NEW i \in 0 .. Len(s), NEW n \in i .. Len(s)
  PROVE  Len(p[i]) <= Len(p[n]) /\ \A k \in 1 .. Len(p[i]) : p[n][k] = p[i][k]
  <1> DEFINE Starts(m) == Len(p[i]) <= Len(p[m]) /\ \A k \in 1 .. Len(p[i]) : p[m][k] = p[i][k]
             S == { d \in Nat : i + d <= Len(s) => Starts(i + d) }
  <1>0. Len(s) \in Nat /\ i \in Nat /\ p \in [0 .. Len(s) -> Seq(Lines)] /\ p[i] \in Seq(Lines)
    BY DEF Joins
  <1>1. 0 \in S
    BY <1>0
  <1>2. ASSUME NEW d \in Nat, d \in S PROVE d + 1 \in S
    <2>1. SUFFICES ASSUME i + (d + 1) <= Len(s) PROVE Starts(i + (d + 1))
      <3> HIDE DEF Starts
      <3>1. QED
        OBVIOUS
    <2> DEFINE m == i + d
    <2>2. m \in 0 .. Len(s) /\ m + 1 \in 1 .. Len(s) /\ (m + 1) - 1 = m /\ i + (d + 1) = m + 1
      BY <2>1, <1>0
    <2>3. Starts(m)
      BY <1>2, <2>1, <1>0
    <2> HIDE DEF m
    <2>4. p[m + 1] = p[m] \o s[m + 1] /\ p[m] \in Seq(Lines) /\ s[m + 1] \in Seq(Lines)
      <3>1. p[m + 1] = p[(m + 1) - 1] \o s[m + 1]
        BY <2>2 DEF Joins
      <3>2. QED
        BY <3>1, <2>2, <1>0
    <2> DEFINE a == p[m]
               b == s[m + 1]
    <2> HIDE DEF a, b
    <2>5. a \in Seq(Lines) /\ b \in Seq(Lines) /\ p[m + 1] = a \o b
          /\ Len(p[i]) <= Len(a) /\ \A k \in 1 .. Len(p[i]) : a[k] = p[i][k]
      BY <2>3, <2>4 DEF a, b
    <2>6. Len(a \o b) = Len(a) + Len(b) /\ Len(a) \in Nat /\ Len(b) \in Nat
          /\ \A k \in 1 .. Len(a) : (a \o b)[k] = a[k]
      BY <2>5
    <2>7. Len(p[i]) \in Nat
      BY <1>0
    <2>8. Starts(m + 1)
      BY <2>5, <2>6, <2>7
    <2>9. QED
      BY <2>8, <2>2
  <1>3. Nat \subseteq S
    <2> HIDE DEF S
    <2>1. QED
      BY <1>1, <1>2, Induct
  <1>4. n - i \in Nat /\ i + (n - i) = n /\ n <= Len(s)
    BY <1>0
  <1>5. n - i \in S
    BY <1>3, <1>4
  <1>6. Starts(i + (n - i))
    BY <1>4, <1>5
  <1>7. QED
    BY <1>4, <1>6

-----------------------------------------------------------------------------
(* A reader follows the runner as long as its programs answer. *)

(* Min is the least element. *)
LEMMA LeastOne ==
  ASSUME NEW S, S \subseteq Nat, S # {}
  PROVE  Min(S) \in S /\ \A k \in S : Min(S) <= k
  <1> DEFINE R == OpToRel(<, Nat)
  <1>1. IsWellFoundedOn(R, Nat)
    BY NatLessThanWellFounded
  <1> HIDE DEF R
  <1>2. PICK m \in S : \A k \in S : ~ (<< k, m >> \in R)
    BY <1>1, WFMin
  <1>3. ASSUME NEW k \in S PROVE m <= k
    <2>1. ~ (<< k, m >> \in R) /\ k \in Nat /\ m \in Nat
      BY <1>2
    <2>2. ~ (k < m)
      BY <2>1 DEF R, OpToRel
    <2>3. QED
      BY <2>1, <2>2
  <1>4. QED
    BY <1>3 DEF Min

(* An answer and its digest are read as the answer that was given. *)
LEMMA ReadAnswer ==
  ASSUME NEW before \in Seq(Results), NEW a \in Answers({"R", "T", "E"})
  PROVE  Read(Read(before, Line(a.tag, a.value)), Line("M", a.mem)) = Append(before, a)
  <1> DEFINE l == Line(a.tag, a.value)
             m == Line("M", a.mem)
             x == Answer(a.tag, a.value, NoDigest)
             once == Append(before, x)
  <1>1. l.tag = a.tag /\ l.value = a.value /\ m.tag = "M" /\ m.value = a.mem
    BY DEF Line
  <1>2. a.tag \in ResultTags /\ "M" \notin ResultTags
    BY DEF Answers, ResultTags
  <1>3. Read(before, l) = once
    BY <1>1, <1>2 DEF Read
  <1>4. x \in Results /\ x.tag = a.tag /\ x.value = a.value
    BY <1>2 DEF Results, Answer, Answers, NoDigest
  <1> HIDE DEF l, m, x
  <1>5. /\ once \in Seq(Results) /\ once # << >> /\ Len(once) = Len(before) + 1
        /\ once[Len(once)] = x
    BY <1>4
  <1>6. Read(once, m) = [once EXCEPT ![Len(once)] = Answer(x.tag, x.value, m.value)]
    BY <1>1, <1>2, <1>5 DEF Read
  <1>7. Answer(x.tag, x.value, m.value) = a
    BY <1>1, <1>4 DEF Answer, Answers
  <1>8. [once EXCEPT ![Len(once)] = a] = Append(before, a)
    <2> DEFINE n == Len(before)
    <2>1. /\ n \in Nat /\ Len(once) = n + 1 /\ DOMAIN once = 1 .. n + 1
          /\ \A k \in 1 .. n : once[k] = before[k]
      BY <1>4
    <2>2. /\ DOMAIN Append(before, a) = 1 .. n + 1 /\ Append(before, a)[n + 1] = a
          /\ \A k \in 1 .. n : Append(before, a)[k] = before[k]
          /\ Append(before, a) = [k \in 1 .. n + 1 |-> Append(before, a)[k]]
      <3>1. a \in Results
        BY DEF Answers, Results, ResultTags
      <3> DEFINE e == Append(before, a)
      <3>2. /\ e \in Seq(Results) /\ Len(e) = n + 1 /\ e[n + 1] = a
            /\ \A k \in 1 .. n : e[k] = before[k]
        BY <3>1
      <3> HIDE DEF e, n
      <3>3. DOMAIN e = 1 .. n + 1 /\ e = [k \in 1 .. n + 1 |-> e[k]]
        BY <3>2
      <3>4. QED
        BY <3>2, <3>3 DEF e
    <2> DEFINE d == [once EXCEPT ![n + 1] = a]
    <2>3. d = [k \in 1 .. n + 1 |-> IF k = n + 1 THEN a ELSE once[k]]
      BY <2>1
    <2> HIDE DEF once, n
    <2>4. \A k \in 1 .. n + 1 : k # n + 1 => k \in 1 .. n
      BY <2>1
    <2>5. \A k \in 1 .. n + 1 : (IF k = n + 1 THEN a ELSE once[k]) = Append(before, a)[k]
      BY <2>1, <2>2, <2>4
    <2>6. d = Append(before, a)
      BY <2>2, <2>3, <2>5
    <2>7. QED
      BY <2>6, <2>1
  <1>9. QED
    BY <1>3, <1>6, <1>7, <1>8 DEF l, m

(* The answers of the first n programs. *)
Targets(batch, n) == [j \in 1 .. n |-> batch[j].target]
Printed(image, batch, i) == Prints(Fate(image, batch, i), batch[i])

(* What the runner prints of each program. *)
LEMMA PrintedAre ==
  ASSUME NEW batch \in Seq(Programs), NEW i \in 1 .. Len(batch), NEW image
  PROVE  LET f == Fate(image, batch, i)
             t == batch[i].target
             lines == Printed(image, batch, i)
         IN  /\ f \in {"rejected", "asserts", "spins", "answers"}
             /\ f = "answers" => /\ lines = << Line(t.tag, t.value), Line("M", t.mem) >>
                                 /\ t \in Answers({"R", "T", "E"})
             /\ f = "rejected" => lines = << Line("X", 0) >>
             /\ f = "asserts" => lines = << Line("A", 0) >>
             /\ f = "spins" => lines = << >>
             /\ lines \in Seq(Lines)
  <1> DEFINE f == Fate(image, batch, i)
             t == batch[i].target
             lines == Printed(image, batch, i)
  <1>1. f \in {"rejected", "asserts", "spins", "answers"}
    BY DEF Fate
  <1>2. t \in Answers(TargetTags)
    <2>1. batch[i] \in Programs
      OBVIOUS
    <2>2. QED
      BY <2>1 DEF Programs
  <1>3. f = "answers" => t.tag # "spins"
    BY DEF Fate
  <1>4. f = "answers" => t \in Answers({"R", "T", "E"})
    BY <1>2, <1>3 DEF Answers, TargetTags
  <1>5. /\ f = "answers" => lines = << Line(t.tag, t.value), Line("M", t.mem) >>
        /\ f = "rejected" => lines = << Line("X", 0) >>
        /\ f = "asserts" => lines = << Line("A", 0) >>
        /\ f = "spins" => lines = << >>
    <2> HIDE DEF f
    <2>1. QED
      BY DEF Printed, Prints, f
  <1>6. lines \in Seq(Lines)
    <2>1. CASE f = "answers"
      <3>1. Line(t.tag, t.value) \in Lines /\ Line("M", t.mem) \in Lines
        BY <1>4, <2>1 DEF Line, Lines, LineTags, Answers
      <3> DEFINE one == Line(t.tag, t.value)
                 two == Line("M", t.mem)
      <3>2. lines = << one, two >>
        BY <2>1, <1>5
      <3> HIDE DEF one, two, lines
      <3>3. one \in Lines /\ two \in Lines
        BY <3>1 DEF one, two
      <3>4. QED
        BY <3>2, <3>3
    <2>2. CASE f # "answers"
      <3>1. Line("X", 0) \in Lines /\ Line("A", 0) \in Lines
        BY DEF Line, Lines, LineTags
      <3>2. lines \in {<< >>, << Line("X", 0) >>, << Line("A", 0) >>}
        BY <1>1, <1>5, <2>2
      <3>3. << Line("X", 0) >> \in Seq(Lines) /\ << Line("A", 0) >> \in Seq(Lines)
            /\ << >> \in Seq(Lines)
        BY <3>1
      <3> HIDE DEF lines
      <3>4. QED
        BY <3>2, <3>3
    <2>3. QED
      BY <2>1, <2>2
  <1>7. QED
    BY <1>1, <1>4, <1>5, <1>6

LEMMA TargetsAppend ==
  ASSUME NEW batch \in Seq(Programs), NEW m \in Nat, m + 1 <= Len(batch)
  PROVE  Targets(batch, m + 1) = Append(Targets(batch, m), batch[m + 1].target)
  <1> DEFINE a == Targets(batch, m)
             t == batch[m + 1].target
  <1>1. Len(a) = m /\ DOMAIN a = 1 .. m /\ \A j \in 1 .. m : a[j] = batch[j].target
    BY DEF Targets
  <1>2. a \in Seq({ batch[j].target : j \in 1 .. Len(batch) })
    BY DEF Targets
  <1>3. t \in { batch[j].target : j \in 1 .. Len(batch) }
    OBVIOUS
  <1> DEFINE c == Append(a, t)
  <1> HIDE DEF a, t
  <1>4. /\ c \in Seq({ batch[j].target : j \in 1 .. Len(batch) }) /\ Len(c) = m + 1
        /\ \A j \in 1 .. m : c[j] = a[j]
        /\ c[m + 1] = t
    BY <1>1, <1>2, <1>3
  <1>5. \A j \in 1 .. m + 1 : c[j] = batch[j].target
    BY <1>1, <1>4 DEF t
  <1>6. c = [j \in 1 .. m + 1 |-> c[j]]
    <2> DEFINE T == { batch[j].target : j \in 1 .. Len(batch) }
    <2>1. c \in Seq(T) /\ Len(c) = m + 1
      BY <1>4
    <2> HIDE DEF T, c
    <2>2. QED
      BY <2>1
  <1> HIDE DEF c
  <1>7. c = [j \in 1 .. m + 1 |-> batch[j].target]
    BY <1>5, <1>6
  <1>8. QED
    BY <1>7 DEF Targets, c, a, t

LEMMA TargetsTyped ==
  ASSUME NEW batch \in Seq(Programs), NEW m \in Nat, m <= Len(batch),
         \A i \in 1 .. m : batch[i].target \in Answers({"R", "T", "E"})
  PROVE  Targets(batch, m) \in Seq(Results) /\ Len(Targets(batch, m)) = m
  <1>1. \A i \in 1 .. m : batch[i].target \in Results
    BY DEF Answers, Results, ResultTags
  <1>2. QED
    BY <1>1 DEF Targets

(* All that has to be given for a reader to follow the first n programs. *)
Follows(batch, image, n, s, p, output, r) ==
  /\ batch \in Seq(Programs) /\ n \in 0 .. Len(batch)
  /\ \A i \in 1 .. n : Fate(image, batch, i) = "answers"
  /\ s \in Seq(Seq(Lines)) /\ n <= Len(s)
  /\ \A i \in 1 .. n : s[i] = Printed(image, batch, i)
  /\ Joins(p, s) /\ output \in Seq(Lines) /\ Reads(r, output)
  /\ Len(p[n]) <= Len(output) /\ \A k \in 1 .. Len(p[n]) : output[k] = p[n][k]

(* After the lines of n programs that answer, their answers have been read. *)
LEMMA Walk ==
  ASSUME NEW batch, NEW image, NEW n, NEW s, NEW p, NEW output, NEW r,
         Follows(batch, image, n, s, p, output, r)
  PROVE  r[Len(p[n])] = Targets(batch, n)
  <1>a. /\ batch \in Seq(Programs) /\ n \in 0 .. Len(batch)
        /\ s \in Seq(Seq(Lines)) /\ n <= Len(s) /\ Joins(p, s)
        /\ output \in Seq(Lines) /\ Reads(r, output) /\ Len(p[n]) <= Len(output)
    BY DEF Follows
  <1>b. \A i \in 1 .. n : Fate(image, batch, i) = "answers" /\ s[i] = Printed(image, batch, i)
    BY DEF Follows
  <1>c. \A k \in 1 .. Len(p[n]) : output[k] = p[n][k]
    BY DEF Follows
  <1> DEFINE S == { m \in Nat : m <= n => r[Len(p[m])] = Targets(batch, m) }
  <1>0. /\ n \in Nat /\ Len(s) \in Nat /\ Len(batch) \in Nat /\ Len(output) \in Nat
        /\ n <= Len(batch) /\ n <= Len(s) /\ Len(p[n]) <= Len(output)
    BY <1>a
  <1>1. 0 \in S
    <2>1. p[0] = << >> /\ r[0] = << >>
      BY <1>a DEF Joins, Reads
    <2>2. Targets(batch, 0) = << >>
      BY DEF Targets
    <2>3. QED
      BY <2>1, <2>2
  <1>2. ASSUME NEW m \in Nat, m \in S PROVE m + 1 \in S
    <2>1. SUFFICES ASSUME m + 1 <= n PROVE r[Len(p[m + 1])] = Targets(batch, m + 1)
      OBVIOUS
    <2> DEFINE i == m + 1
               t == batch[i].target
               L == Len(p[m])
               one == Line(t.tag, t.value)
               two == Line("M", t.mem)
    <2>2. i \in 1 .. n /\ i \in 1 .. Len(batch) /\ i \in 1 .. Len(s) /\ i - 1 = m
          /\ m \in 0 .. Len(s) /\ i \in 0 .. Len(s) /\ n \in i .. Len(s)
      BY <2>1, <1>0
    <2>3. /\ s[i] = << one, two >> /\ t \in Answers({"R", "T", "E"})
          /\ s[i] \in Seq(Lines)
      BY <1>a, <1>b, <2>2, PrintedAre
    <2>4. p[i] = p[m] \o s[i] /\ p[m] \in Seq(Lines) /\ p[i] \in Seq(Lines)
      <3>1. p[i] = p[i - 1] \o s[i]
        BY <1>a, <2>2 DEF Joins
      <3>2. QED
        BY <1>a, <3>1, <2>2 DEF Joins
    <2>5. Len(p[i]) <= Len(p[n]) /\ \A k \in 1 .. Len(p[i]) : p[n][k] = p[i][k]
      <3> HIDE DEF i
      <3>1. QED
        <4>1. s \in Seq(Seq(Lines)) /\ Joins(p, s) /\ i \in 0 .. Len(s) /\ n \in i .. Len(s)
          BY <1>a, <2>2
        <4>2. QED
          BY <4>1, JoinedPrefix
    <2> HIDE DEF i, t, one, two
    <2>6. /\ L \in Nat /\ Len(p[i]) = L + 2
          /\ p[i][L + 1] = one /\ p[i][L + 2] = two
      BY <2>3, <2>4
    <2>7. p[n] \in Seq(Lines)
      <3>1. n \in 0 .. Len(s)
        BY <1>0
      <3>2. QED
        BY <1>a, <3>1 DEF Joins
    <2>8. /\ L + 1 \in 1 .. Len(p[i]) /\ L + 2 \in 1 .. Len(p[i])
          /\ L + 1 \in 1 .. Len(p[n]) /\ L + 2 \in 1 .. Len(p[n])
          /\ L + 1 \in 1 .. Len(output) /\ L + 2 \in 1 .. Len(output)
      <3>1. Len(p[n]) \in Nat /\ Len(p[i]) <= Len(p[n])
        BY <2>5, <2>7
      <3>2. QED
        BY <2>6, <3>1, <1>0
    <2>9. output[L + 1] = one /\ output[L + 2] = two
      BY <1>c, <2>5, <2>6, <2>8
    <2>10. r[L + 1] = Read(r[L], one) /\ r[L + 2] = Read(r[L + 1], two)
      <3>1. /\ r[L + 1] = Read(r[(L + 1) - 1], output[L + 1])
            /\ r[L + 2] = Read(r[(L + 2) - 1], output[L + 2])
        BY <1>a, <2>8 DEF Reads
      <3>2. (L + 1) - 1 = L /\ (L + 2) - 1 = L + 1
        BY <2>6
      <3>3. QED
        BY <3>1, <3>2, <2>9
    <2>11. r[L] = Targets(batch, m)
      BY <1>2, <2>1, <1>0
    <2>12. Targets(batch, m) \in Seq(Results)
      <3>1. \A j \in 1 .. m : batch[j].target \in Answers({"R", "T", "E"})
        <4>1. ASSUME NEW j \in 1 .. m PROVE batch[j].target \in Answers({"R", "T", "E"})
          <5>1. j \in 1 .. n /\ j \in 1 .. Len(batch)
            BY <2>1, <1>0
          <5>2. QED
            BY <1>a, <1>b, <5>1, PrintedAre
        <4>2. QED
          BY <4>1
      <3>2. m <= Len(batch)
        BY <2>1, <1>0
      <3>3. QED
        BY <1>a, <3>1, <3>2, TargetsTyped
    <2>13. r[L + 2] = Append(Targets(batch, m), t)
      BY <2>3, <2>10, <2>11, <2>12, ReadAnswer DEF one, two
    <2>14. Targets(batch, m + 1) = Append(Targets(batch, m), t)
      <3>1. batch \in Seq(Programs) /\ m \in Nat /\ m + 1 <= Len(batch)
        BY <1>a, <2>1, <1>0
      <3>2. QED
        BY <3>1, TargetsAppend DEF t, i
    <2>15. QED
      BY <2>6, <2>13, <2>14 DEF i
  <1>3. Nat \subseteq S
    <2> HIDE DEF S
    <2>1. QED
      BY <1>1, <1>2, Induct
  <1>4. QED
    BY <1>0, <1>3

-----------------------------------------------------------------------------
(* What a tool reads of a whole batch. *)

(* What a tool reads of a batch: all its answers, or those before the program
   that ended the walk and that program's line, or none. *)
Hears(image, batch, run) ==
  \/ /\ \A i \in 1 .. Len(batch) : Fate(image, batch, i) = "answers"
     /\ run.timedOut = FALSE /\ run.results = Targets(batch, Len(batch))
  \/ \E n \in 1 .. Len(batch) :
       /\ \A i \in 1 .. n - 1 : Fate(image, batch, i) = "answers"
       /\ \/ /\ Fate(image, batch, n) = "spins"
             /\ run.timedOut = TRUE /\ run.results = Targets(batch, n - 1)
          \/ /\ Fate(image, batch, n) = "rejected" /\ run.timedOut = FALSE
             /\ run.results = Append(Targets(batch, n - 1), Answer("X", 0, NoDigest))
          \/ /\ Fate(image, batch, n) = "asserts" /\ run.timedOut = FALSE
             /\ run.results = Append(Targets(batch, n - 1), Answer("A", 0, NoDigest))

(* The lines of the first n programs, of which the last one may not answer. *)
LEMMA ReadUpTo ==
  ASSUME NEW batch \in Seq(Programs), NEW image, NEW n \in 1 .. Len(batch),
         \A i \in 1 .. n - 1 : Fate(image, batch, i) = "answers"
  PROVE  LET lines == FlattenSeq([i \in 1 .. n |-> Printed(image, batch, i)])
             fate == Fate(image, batch, n)
             done == Append(lines, Line("DONE", 0))
         IN  /\ fate = "answers" => ParseResults(done) = Targets(batch, n)
             /\ fate = "spins" => ParseResults(lines) = Targets(batch, n - 1)
             /\ fate = "rejected" =>
                  ParseResults(done) = Append(Targets(batch, n - 1), Answer("X", 0, NoDigest))
             /\ fate = "asserts" =>
                  ParseResults(lines) = Append(Targets(batch, n - 1), Answer("A", 0, NoDigest))
  <1> DEFINE s == [i \in 1 .. n |-> Printed(image, batch, i)]
             lines == FlattenSeq(s)
             fate == Fate(image, batch, n)
             end == Line("DONE", 0)
             done == Append(lines, end)
  <1>0. n \in Nat /\ n >= 1 /\ n <= Len(batch) /\ Len(batch) \in Nat
    OBVIOUS
  <1>1. s \in Seq(Seq(Lines)) /\ Len(s) = n /\ s # << >>
    <2>1. \A i \in 1 .. n : Printed(image, batch, i) \in Seq(Lines)
      BY PrintedAre, <1>0
    <2> DEFINE T == Seq(Lines)
    <2>2. s \in [1 .. n -> T]
      BY <2>1
    <2> HIDE DEF s, T
    <2>3. s \in Seq(T) /\ Len(s) = n
      BY <2>2, <1>0
    <2>4. QED
      BY <2>3, <1>0 DEF T
  <1>2. \A i \in 1 .. n : s[i] = Printed(image, batch, i)
    OBVIOUS
  <1> HIDE DEF s
  <1>3. PICK p : Joins(p, s) /\ lines = p[n]
    BY <1>1, FlattenJoins
  <1>4. lines \in Seq(Lines) /\ p[n - 1] \in Seq(Lines) /\ p[n] = p[n - 1] \o s[n]
    <2>1. n \in 0 .. Len(s) /\ n - 1 \in 0 .. Len(s) /\ n \in 1 .. Len(s)
      BY <1>0, <1>1
    <2>2. QED
      BY <2>1, <1>3 DEF Joins
  <1>5. end \in Lines /\ end.tag = "DONE"
    BY DEF Line, Lines, LineTags
  <1> HIDE DEF lines, end
  <1>6. /\ done \in Seq(Lines) /\ Len(done) = Len(lines) + 1 /\ Len(lines) \in Nat
        /\ \A k \in 1 .. Len(lines) : done[k] = lines[k]
        /\ done[Len(done)] = end
    BY <1>4, <1>5
  <1> HIDE DEF done
  <1>7. /\ Len(p[n - 1]) <= Len(lines) /\ Len(p[n - 1]) \in Nat
        /\ \A k \in 1 .. Len(p[n - 1]) : lines[k] = p[n - 1][k]
    <2>1. n - 1 \in 0 .. Len(s) /\ n \in (n - 1) .. Len(s)
      BY <1>0, <1>1
    <2>2. s \in Seq(Seq(Lines)) /\ Joins(p, s)
      BY <1>1, <1>3
    <2>3. /\ Len(p[n - 1]) <= Len(p[n])
          /\ \A k \in 1 .. Len(p[n - 1]) : p[n][k] = p[n - 1][k]
      BY <2>1, <2>2, JoinedPrefix
    <2>4. Len(p[n - 1]) \in Nat
      BY <1>4
    <2>5. QED
      BY <2>3, <2>4, <1>3
  <1>8. /\ s[n] = Printed(image, batch, n) /\ s[n] \in Seq(Lines)
        /\ fate = "rejected" => s[n] = << Line("X", 0) >>
        /\ fate = "asserts" => s[n] = << Line("A", 0) >>
        /\ fate = "spins" => s[n] = << >>
    BY <1>0, <1>2, PrintedAre
  <1> HIDE DEF fate
  (* Reading what was printed for the programs before the n-th. *)
  <1>9. ASSUME NEW output \in Seq(Lines), NEW r, Reads(r, output), Len(lines) <= Len(output),
               \A k \in 1 .. Len(lines) : output[k] = lines[k]
        PROVE  r[Len(p[n - 1])] = Targets(batch, n - 1)
    <2>1. /\ n - 1 \in 0 .. Len(batch) /\ n - 1 <= Len(s)
          /\ \A i \in 1 .. n - 1 : s[i] = Printed(image, batch, i)
      BY <1>0, <1>1, <1>2
    <2>2. /\ Len(p[n - 1]) <= Len(output)
          /\ \A k \in 1 .. Len(p[n - 1]) : output[k] = p[n - 1][k]
      BY <1>6, <1>7, <1>9
    <2>3. Follows(batch, image, n - 1, s, p, output, r)
      BY <2>1, <2>2, <1>1, <1>3, <1>9 DEF Follows
    <2>4. QED
      BY <2>3, Walk
  <1>10. ASSUME NEW output \in Seq(Lines), NEW r, Reads(r, output), Len(lines) <= Len(output),
                \A k \in 1 .. Len(lines) : output[k] = lines[k],
                NEW t \in {"X", "A"}, s[n] = << Line(t, 0) >>
         PROVE  r[Len(lines)] = Append(Targets(batch, n - 1), Answer(t, 0, NoDigest))
    <2> DEFINE L == Len(p[n - 1])
               l == Line(t, 0)
    <2> HIDE DEF l
    <2>1. Len(lines) = L + 1 /\ lines[L + 1] = l /\ L \in Nat
      BY <1>3, <1>4, <1>7, <1>8, <1>10 DEF l
    <2>2. L + 1 \in 1 .. Len(output) /\ (L + 1) - 1 = L /\ L + 1 \in 1 .. Len(lines)
      BY <2>1, <1>10
    <2>3. r[L + 1] = Read(r[(L + 1) - 1], output[L + 1])
      BY <2>2, <1>10 DEF Reads
    <2>4. r[L] = Targets(batch, n - 1)
      BY <1>9, <1>10
    <2>5. r[L + 1] = Read(Targets(batch, n - 1), l)
      BY <2>1, <2>2, <2>3, <2>4, <1>10
    <2>6. l.tag = t /\ l.value = 0 /\ t \in ResultTags
      BY DEF l, Line, ResultTags
    <2>7. QED
      BY <2>1, <2>5, <2>6 DEF Read
  (* The line at the end is no result. *)
  <1>11. ASSUME NEW r, Reads(r, done) PROVE r[Len(done)] = r[Len(lines)]
    <2>1. Len(done) \in 1 .. Len(done) /\ Len(done) - 1 = Len(lines)
      BY <1>6
    <2>2. r[Len(done)] = Read(r[Len(done) - 1], done[Len(done)])
      BY <2>1, <1>11 DEF Reads
    <2>3. end.tag \notin ResultTags /\ end.tag # "M"
      BY <1>5 DEF ResultTags
    <2>4. QED
      BY <2>1, <2>2, <2>3, <1>6 DEF Read
  <1>12. PICK r : Reads(r, lines) /\ ParseResults(lines) = r[Len(lines)]
    BY <1>4, ParseReads
  <1>13. PICK q : Reads(q, done) /\ ParseResults(done) = q[Len(done)]
    BY <1>6, ParseReads
  <1>14. fate = "answers" => ParseResults(done) = Targets(batch, n)
    <2>1. SUFFICES ASSUME fate = "answers" PROVE q[Len(lines)] = Targets(batch, n)
      BY <1>11, <1>13
    <2>2. \A i \in 1 .. n : Fate(image, batch, i) = "answers"
      <3>1. ASSUME NEW i \in 1 .. n PROVE Fate(image, batch, i) = "answers"
        <4>1. i = n \/ i \in 1 .. n - 1
          BY <1>0
        <4>2. QED
          BY <4>1, <2>1 DEF fate
      <3>2. QED
        BY <3>1
    <2>3. n \in 0 .. Len(batch) /\ n <= Len(s) /\ Len(p[n]) = Len(lines)
      BY <1>0, <1>1, <1>3
    <2>4. Len(p[n]) <= Len(done) /\ \A k \in 1 .. Len(p[n]) : done[k] = p[n][k]
      BY <1>3, <1>6
    <2>5. q[Len(p[n])] = Targets(batch, n)
      <3>1. Follows(batch, image, n, s, p, done, q)
        BY <2>2, <2>3, <2>4, <1>1, <1>2, <1>3, <1>6, <1>13 DEF Follows
      <3>2. QED
        BY <3>1, Walk
    <2>6. QED
      BY <2>5, <2>3
  <1>15. fate = "spins" => ParseResults(lines) = Targets(batch, n - 1)
    <2>1. SUFFICES ASSUME fate = "spins" PROVE r[Len(lines)] = Targets(batch, n - 1)
      BY <1>12
    <2>2. Len(lines) = Len(p[n - 1])
      BY <2>1, <1>3, <1>4, <1>8
    <2>3. r[Len(p[n - 1])] = Targets(batch, n - 1)
      BY <1>4, <1>6, <1>9, <1>12
    <2>4. QED
      BY <2>2, <2>3
  <1>16. fate = "rejected" =>
           ParseResults(done) = Append(Targets(batch, n - 1), Answer("X", 0, NoDigest))
    <2>1. SUFFICES ASSUME fate = "rejected"
                   PROVE q[Len(lines)] = Append(Targets(batch, n - 1), Answer("X", 0, NoDigest))
      BY <1>11, <1>13
    <2>2. "X" \in {"X", "A"} /\ s[n] = << Line("X", 0) >> /\ Len(lines) <= Len(done)
      BY <2>1, <1>6, <1>8
    <2>3. QED
      BY <2>2, <1>6, <1>10, <1>13
  <1>17. fate = "asserts" =>
           ParseResults(lines) = Append(Targets(batch, n - 1), Answer("A", 0, NoDigest))
    <2>1. SUFFICES ASSUME fate = "asserts"
                   PROVE r[Len(lines)] = Append(Targets(batch, n - 1), Answer("A", 0, NoDigest))
      BY <1>12
    <2>2. "A" \in {"X", "A"} /\ s[n] = << Line("A", 0) >> /\ Len(lines) <= Len(lines)
      BY <2>1, <1>6, <1>8
    <2>3. QED
      BY <2>2, <1>4, <1>6, <1>10, <1>12
  <1>18. QED
    BY <1>14, <1>15, <1>16, <1>17 DEF fate, lines, done, end, s

(* The result of a batch, whatever is in it. *)
LEMMA Heard ==
  ASSUME NEW batch \in Seq(Programs), batch # << >>, NEW image, NEW run \in Outcome(image, batch)
  PROVE  Hears(image, batch, run)
  <1> DEFINE stops == { i \in 1 .. Len(batch) : Fate(image, batch, i) # "answers" }
             n == IF stops = {} THEN Len(batch) ELSE Min(stops)
             fate == IF stops = {} THEN "answers" ELSE Fate(image, batch, n)
             lines == FlattenSeq([i \in 1 .. n |-> Printed(image, batch, i)])
             done == Append(lines, Line("DONE", 0))
  <1>0. Len(batch) \in Nat /\ Len(batch) >= 1
    OBVIOUS
  <1>1. /\ run.timedOut = (fate = "spins")
        /\ run.results = IF fate \in {"asserts", "spins"} THEN ParseResults(lines)
                         ELSE ParseResults(done)
    <2> DEFINE o == RunQemu(image, batch)
    <2>1. /\ o.timedOut = (fate = "spins")
          /\ o.output = IF fate \in {"asserts", "spins"} THEN lines ELSE done
      BY DEF RunQemu, Printed
    <2> HIDE DEF o, fate, lines, done, n, stops
    <2>2. run = [timedOut |-> o.timedOut, results |-> ParseResults(o.output)]
      BY DEF Outcome, o
    <2>3. QED
      BY <2>1, <2>2
  <1>2. stops = {} \/ (n \in stops /\ \A k \in stops : n <= k)
    <2>1. stops \subseteq Nat
      OBVIOUS
    <2> HIDE DEF stops
    <2>2. QED
      BY <2>1, LeastOne
  <1>3. /\ n \in 1 .. Len(batch) /\ fate = Fate(image, batch, n)
        /\ \A i \in 1 .. n - 1 : Fate(image, batch, i) = "answers"
    <2>1. CASE stops = {}
      BY <2>1, <1>0
    <2>2. CASE stops # {}
      <3>1. n \in stops /\ \A k \in stops : n <= k
        BY <1>2, <2>2
      <3>2. n \in 1 .. Len(batch) /\ fate = Fate(image, batch, n)
        BY <3>1, <2>2
      <3>3. ASSUME NEW i \in 1 .. n - 1 PROVE Fate(image, batch, i) = "answers"
        <4> HIDE DEF n
        <4>1. i \in 1 .. Len(batch) /\ ~ (n <= i)
          BY <3>2
        <4>2. QED
          BY <4>1, <3>1
      <3>4. QED
        BY <3>2, <3>3
    <2>3. QED
      BY <2>1, <2>2
  <1>4. fate \in {"rejected", "asserts", "spins", "answers"}
    BY <1>3 DEF Fate
  <1>5. fate = "answers" => stops = {} /\ n = Len(batch)
    BY <1>2, <1>3
  <1>6. stops = {} => \A i \in 1 .. Len(batch) : Fate(image, batch, i) = "answers"
    OBVIOUS
  <1> HIDE DEF stops, n, fate
  <1>7. /\ fate = "answers" => ParseResults(done) = Targets(batch, n)
        /\ fate = "spins" => ParseResults(lines) = Targets(batch, n - 1)
        /\ fate = "rejected" =>
             ParseResults(done) = Append(Targets(batch, n - 1), Answer("X", 0, NoDigest))
        /\ fate = "asserts" =>
             ParseResults(lines) = Append(Targets(batch, n - 1), Answer("A", 0, NoDigest))
    <2> DEFINE g == Fate(image, batch, n)
    <2>1. n \in 1 .. Len(batch) /\ \A i \in 1 .. n - 1 : Fate(image, batch, i) = "answers"
      BY <1>3
    <2>2. /\ g = "answers" => ParseResults(done) = Targets(batch, n)
          /\ g = "spins" => ParseResults(lines) = Targets(batch, n - 1)
          /\ g = "rejected" =>
               ParseResults(done) = Append(Targets(batch, n - 1), Answer("X", 0, NoDigest))
          /\ g = "asserts" =>
               ParseResults(lines) = Append(Targets(batch, n - 1), Answer("A", 0, NoDigest))
      BY <2>1, ReadUpTo
    <2>3. fate = g
      BY <1>3
    <2> HIDE DEF g, lines, done
    <2>4. QED
      BY ONLY <2>2, <2>3
  <1> HIDE DEF lines, done
  <1>8. CASE fate = "answers"
    BY <1>1, <1>5, <1>6, <1>7, <1>8 DEF Hears
  <1>9. CASE fate = "spins"
    BY <1>1, <1>3, <1>7, <1>9 DEF Hears
  <1>10. CASE fate = "rejected"
    BY <1>1, <1>3, <1>7, <1>10 DEF Hears
  <1>11. CASE fate = "asserts"
    BY <1>1, <1>3, <1>7, <1>11 DEF Hears
  <1>12. QED
    BY <1>4, <1>8, <1>9, <1>10, <1>11

-----------------------------------------------------------------------------
(* The window the runner reads a batch from. *)

Sane == { p \in Programs : IsProgram(p) }

(* No program of a batch the runner could frame is cut off by the window. *)
Fits(batch) == \A i \in 1 .. Len(batch) : batch[i].framed => Ends(batch)[i] <= BatchLimit

LEMMA EndsOf ==
  ASSUME NEW batch \in Seq(Sane)
  PROVE  /\ Ends(batch) \in [0 .. Len(batch) -> Nat] /\ Ends(batch)[0] = HeaderBytes
         /\ \A i \in 1 .. Len(batch) :
              Ends(batch)[i] = Ends(batch)[i - 1] + batch[i].need /\ batch[i].need \in Nat
  <1>1. Len(batch) \in Nat /\ \A i \in 1 .. Len(batch) : batch[i].need \in Nat
    <2>1. ASSUME NEW i \in 1 .. Len(batch) PROVE batch[i].need \in Nat
      <3>1. batch[i] \in Programs
        BY DEF Sane
      <3>2. QED
        BY <3>1 DEF Programs
    <2>2. QED
      BY <2>1
  <1>2. QED
    BY <1>1, EndsFacts

(* A stretch of a batch takes as much room wherever it is. *)
LEMMA EndsShift ==
  ASSUME NEW b \in Seq(Sane), NEW d \in Seq(Sane), NEW k \in Nat, NEW n \in Nat,
         k + n <= Len(b), n <= Len(d), \A i \in 1 .. n : d[i] = b[k + i]
  PROVE  \A i \in 0 .. n : Ends(b)[k + i] + HeaderBytes = Ends(b)[k] + Ends(d)[i]
  <1> DEFINE S == { i \in Nat : i <= n =>
                      Ends(b)[k + i] + HeaderBytes = Ends(b)[k] + Ends(d)[i] }
  <1>0. Len(b) \in Nat /\ Len(d) \in Nat
    OBVIOUS
  <1>1. 0 \in S
    <2>1. k \in 0 .. Len(b) /\ k + 0 = k
      BY <1>0
    <2>2. Ends(b)[k] \in Nat /\ Ends(d)[0] = HeaderBytes
      BY <2>1, EndsOf
    <2>3. QED
      BY <2>1, <2>2 DEF HeaderBytes
  <1>2. ASSUME NEW i \in Nat, i \in S PROVE i + 1 \in S
    <2>1. SUFFICES ASSUME i + 1 <= n
                   PROVE Ends(b)[k + (i + 1)] + HeaderBytes = Ends(b)[k] + Ends(d)[i + 1]
      OBVIOUS
    <2> DEFINE m == k + i
    <2>2. /\ m + 1 \in 1 .. Len(b) /\ m \in 0 .. Len(b) /\ (m + 1) - 1 = m
          /\ k + (i + 1) = m + 1 /\ i + 1 \in 1 .. Len(d) /\ i \in 0 .. Len(d)
          /\ (i + 1) - 1 = i /\ i + 1 \in 1 .. n /\ k \in 0 .. Len(b)
      BY <2>1, <1>0
    <2>3. Ends(b)[m] + HeaderBytes = Ends(b)[k] + Ends(d)[i]
      BY <1>2, <2>1
    <2> HIDE DEF m
    <2>4. Ends(b)[m + 1] = Ends(b)[m] + b[m + 1].need
      BY <2>2, EndsOf
    <2>5. Ends(d)[i + 1] = Ends(d)[i] + d[i + 1].need
      BY <2>2, EndsOf
    <2>6. d[i + 1] = b[m + 1]
      BY <2>2
    <2>7. Ends(b)[m] \in Nat /\ Ends(b)[k] \in Nat /\ Ends(d)[i] \in Nat
          /\ b[m + 1].need \in Nat /\ HeaderBytes \in Nat
      BY <2>2, EndsOf DEF HeaderBytes
    <2>8. Ends(b)[m + 1] + HeaderBytes = Ends(b)[k] + Ends(d)[i + 1]
      <3>1. Ends(d)[i + 1] = Ends(d)[i] + b[m + 1].need
        BY <2>5, <2>6
      <3>2. Ends(b)[k] + Ends(d)[i + 1] = (Ends(b)[k] + Ends(d)[i]) + b[m + 1].need
        BY <3>1, <2>7
      <3>3. (Ends(b)[m] + b[m + 1].need) + HeaderBytes
              = (Ends(b)[m] + HeaderBytes) + b[m + 1].need
        BY <2>7
      <3>4. QED
        BY ONLY <3>2, <3>3, <2>3, <2>4
    <2>9. QED
      BY <2>8, <2>2
  <1>3. Nat \subseteq S
    <2> HIDE DEF S
    <2>1. QED
      BY <1>1, <1>2, Induct
  <1>4. QED
    BY <1>3

LEMMA EndsGrow ==
  ASSUME NEW b \in Seq(Sane), NEW i \in 0 .. Len(b), NEW j \in i .. Len(b)
  PROVE  Ends(b)[i] <= Ends(b)[j]
  <1> DEFINE S == { d \in Nat : i + d <= Len(b) => Ends(b)[i] <= Ends(b)[i + d] }
  <1>0. Len(b) \in Nat /\ i \in Nat /\ Ends(b)[i] \in Nat
    BY EndsOf
  <1>1. 0 \in S
    BY <1>0
  <1>2. ASSUME NEW d \in Nat, d \in S PROVE d + 1 \in S
    <2>1. SUFFICES ASSUME i + (d + 1) <= Len(b)
                   PROVE Ends(b)[i] <= Ends(b)[i + (d + 1)]
      OBVIOUS
    <2> DEFINE m == i + d
    <2>2. m + 1 \in 1 .. Len(b) /\ m \in 0 .. Len(b) /\ (m + 1) - 1 = m /\ i + (d + 1) = m + 1
      BY <2>1, <1>0
    <2>3. Ends(b)[i] <= Ends(b)[m]
      BY <1>2, <2>1, <1>0
    <2> HIDE DEF m
    <2>4. Ends(b)[m + 1] = Ends(b)[m] + b[m + 1].need /\ b[m + 1].need \in Nat
          /\ Ends(b)[m] \in Nat
      BY <2>2, EndsOf
    <2>5. Ends(b)[i] <= Ends(b)[m + 1]
      BY <2>3, <2>4, <1>0
    <2>6. QED
      BY <2>5, <2>2
  <1>3. Nat \subseteq S
    <2> HIDE DEF S
    <2>1. QED
      BY <1>1, <1>2, Induct
  <1>4. j - i \in Nat /\ i + (j - i) = j /\ j <= Len(b)
    BY <1>0
  <1>5. QED
    BY <1>3, <1>4

LEMMA EndsAppend ==
  ASSUME NEW b \in Seq(Sane), NEW e \in Sane
  PROVE  Ends(Append(b, e))[Len(b) + 1] = Ends(b)[Len(b)] + e.need
  <1> DEFINE d == Append(b, e)
             n == Len(b)
  <1>1. /\ d \in Seq(Sane) /\ Len(d) = n + 1 /\ d[n + 1] = e /\ n \in Nat
        /\ \A i \in 1 .. n : b[i] = d[0 + i]
    OBVIOUS
  <1> HIDE DEF d
  <1>2. Ends(d)[0 + n] + HeaderBytes = Ends(d)[0] + Ends(b)[n]
    <2>1. 0 + n <= Len(d) /\ n <= Len(b) /\ n \in 0 .. n
      BY <1>1
    <2> HIDE DEF n
    <2>2. QED
      BY <1>1, <2>1, EndsShift
  <1>3. /\ Ends(d)[0] = HeaderBytes /\ n \in 0 .. Len(d) /\ n + 1 \in 1 .. Len(d)
        /\ n \in 0 .. Len(b) /\ 0 + n = n /\ (n + 1) - 1 = n
    BY <1>1, EndsOf
  <1>4. /\ Ends(d)[n] \in Nat /\ Ends(b)[n] \in Nat
        /\ Ends(d)[n + 1] = Ends(d)[(n + 1) - 1] + d[n + 1].need
    BY <1>1, <1>3, EndsOf
  <1>5. Ends(d)[n] = Ends(b)[n]
    BY <1>2, <1>3, <1>4 DEF HeaderBytes
  <1>6. QED
    BY <1>1, <1>3, <1>4, <1>5 DEF d

(* Putting the tail of a batch into one of its own. *)
LEMMA SuffixFits ==
  ASSUME NEW b \in Seq(Sane), Fits(b), NEW k \in 0 .. Len(b)
  PROVE  Fits(SubSeq(b, k + 1, Len(b)))
  <1> DEFINE d == SubSeq(b, k + 1, Len(b))
             n == Len(b) - k
  <1>1. /\ d \in Seq(Sane) /\ Len(d) = n /\ n \in Nat /\ k \in Nat /\ Len(b) \in Nat
        /\ \A i \in 1 .. n : d[i] = b[k + i]
    OBVIOUS
  <1> HIDE DEF d
  <1>2. \A i \in 0 .. n : Ends(b)[k + i] + HeaderBytes = Ends(b)[k] + Ends(d)[i]
    <2>1. k + n <= Len(b) /\ n <= Len(d)
      BY <1>1
    <2> HIDE DEF n
    <2>2. QED
      BY <1>1, <2>1, EndsShift
  <1>3. ASSUME NEW i \in 1 .. n, d[i].framed PROVE Ends(d)[i] <= BatchLimit
    <2>1. k + i \in 1 .. Len(b) /\ i \in 0 .. n /\ k \in 0 .. Len(b) /\ 0 \in 0 .. Len(b)
          /\ k \in 0 .. Len(b) /\ k + i \in 0 .. Len(b) /\ i \in 0 .. Len(d)
      BY <1>1
    <2>2. Ends(b)[k + i] <= BatchLimit
      BY <1>1, <1>3, <2>1 DEF Fits
    <2>3. HeaderBytes <= Ends(b)[k]
      <3>1. Ends(b)[0] = HeaderBytes
        BY EndsOf
      <3>2. QED
        BY <2>1, <3>1, EndsGrow
    <2>4. Ends(b)[k] \in Nat /\ Ends(b)[k + i] \in Nat /\ Ends(d)[i] \in Nat
      BY <1>1, <2>1, EndsOf
    <2>5. Ends(b)[k + i] + HeaderBytes = Ends(b)[k] + Ends(d)[i]
      BY <1>2, <2>1
    <2>6. QED
      BY <2>2, <2>3, <2>4, <2>5, BatchConstants DEF HeaderBytes
  <1>4. QED
    BY <1>1, <1>3 DEF Fits, d

-----------------------------------------------------------------------------
(* How entries are packed into chunks. *)

(* One more entry. *)
PackStep(c, e, limit) ==
  IF c.bytes + e.need > limit /\ c.current # << >>
  THEN [closed |-> Append(c.closed, c.current),
        current |-> << e >>, bytes |-> HeaderBytes + e.need]
  ELSE [c EXCEPT !.current = Append(@, e), !.bytes = @ + e.need]

Packing(T) == [closed : Seq(Seq(T)), current : Seq(T), bytes : Nat]

(* An entry packed is in one of the chunks. *)
InOneOf(p, chunks) == \E k \in 1 .. Len(chunks) : \E i \in 1 .. Len(chunks[k]) : chunks[k][i] = p
InChunk(p, chunk) == \E i \in 1 .. Len(chunk) : chunk[i] = p

(* u has packed what is in D, and no framed program past its limit. *)
PackedWell(u, D, T, limit) ==
  /\ u \in Packing(T)
  /\ \A k \in 1 .. Len(u.closed) : u.closed[k] # << >> /\ Fits(u.closed[k])
  /\ u.bytes = Ends(u.current)[Len(u.current)]
  /\ Len(u.current) <= 1 \/ u.bytes <= limit
  /\ \A p \in D : InChunk(p, u.current) \/ InOneOf(p, u.closed)

(* The chunk that is still open fits the window: it is one program, or within the
   limit. *)
LEMMA CurrentFits ==
  ASSUME NEW T, T \subseteq Sane, NEW limit \in Nat, limit <= BatchLimit, NEW D, NEW u,
         PackedWell(u, D, T, limit)
  PROVE  Fits(u.current)
  <1> DEFINE c == u.current
             n == Len(c)
  <1>1. c \in Seq(Sane) /\ n \in Nat
    <2>1. c \in Seq(T)
      BY DEF PackedWell, Packing
    <2> HIDE DEF c
    <2>2. QED
      BY <2>1
  <1>2. (n <= 1 \/ u.bytes <= limit) /\ u.bytes = Ends(c)[n]
    BY DEF PackedWell
  <1> HIDE DEF c
  <1>3. ASSUME NEW i \in 1 .. n, c[i].framed PROVE Ends(c)[i] <= BatchLimit
    <2>1. CASE u.bytes <= limit
      <3>1. i \in 0 .. n /\ n \in i .. n /\ n \in 0 .. n
        BY <1>1
      <3>2. Ends(c)[i] <= Ends(c)[n] /\ Ends(c)[i] \in Nat /\ Ends(c)[n] \in Nat
        BY <1>1, <3>1, EndsGrow, EndsOf
      <3>3. QED
        BY <1>2, <2>1, <3>2, BatchConstants
    <2>2. CASE n <= 1
      <3>1. i = 1 /\ 1 \in 1 .. n /\ 1 - 1 = 0
        BY <1>1, <2>2
      <3>2. Ends(c)[1] = Ends(c)[1 - 1] + c[1].need /\ Ends(c)[0] = HeaderBytes
        BY <1>1, <3>1, EndsOf
      <3>3. HeaderBytes + c[1].need <= BatchLimit
        <4>1. c[1] \in Sane
          BY <1>1, <3>1
        <4>2. QED
          BY <4>1, <3>1, <1>3 DEF Sane, IsProgram
      <3>4. QED
        BY <3>1, <3>2, <3>3
    <2>3. QED
      BY <1>2, <2>1, <2>2
  <1>4. QED
    BY <1>3 DEF Fits, c

(* One more entry is in a chunk, and every chunk still fits. *)
LEMMA PackStepKeeps ==
  ASSUME NEW T, T \subseteq Sane, NEW limit \in Nat, limit <= BatchLimit, NEW D, NEW u,
         PackedWell(u, D, T, limit), NEW e \in T
  PROVE  PackedWell(PackStep(u, e, limit), D \cup {e}, T, limit)
  <1> DEFINE t == PackStep(u, e, limit)
             a == u.closed
             c == u.current
  <1>1. /\ a \in Seq(Seq(T)) /\ c \in Seq(T) /\ u.bytes \in Nat /\ u \in Packing(T)
        /\ \A k \in 1 .. Len(a) : a[k] # << >> /\ Fits(a[k])
        /\ u.bytes = Ends(c)[Len(c)]
        /\ \A p \in D : InChunk(p, c) \/ InOneOf(p, a)
    BY DEF PackedWell, Packing
  <1>2. Fits(c)
    BY CurrentFits
  <1>3. e \in Sane /\ e.need \in Nat /\ HeaderBytes \in Nat
    BY DEF Sane, Programs, HeaderBytes
  <1> HIDE DEF a, c
  <1>4. CASE u.bytes + e.need > limit /\ c # << >>
    <2>1. /\ t.closed = Append(a, c) /\ t.current = << e >>
          /\ t.bytes = HeaderBytes + e.need
          /\ t = [closed |-> t.closed, current |-> t.current, bytes |-> t.bytes]
      BY <1>4 DEF PackStep, a, c
    <2> HIDE DEF t
    <2>2. Append(a, c) \in Seq(Seq(T)) /\ << e >> \in Seq(T) /\ HeaderBytes + e.need \in Nat
          /\ Len(<< e >>) = 1 /\ << e >>[1] = e
      BY <1>1, <1>3
    <2>3. t \in Packing(T)
      BY <2>1, <2>2 DEF Packing
    <2>4. /\ Len(Append(a, c)) = Len(a) + 1 /\ Len(a) \in Nat
          /\ \A k \in 1 .. Len(a) : Append(a, c)[k] = a[k]
          /\ Append(a, c)[Len(a) + 1] = c
      BY <1>1
    <2> DEFINE d == Append(a, c)
    <2>5. ASSUME NEW k \in 1 .. Len(d) PROVE d[k] # << >> /\ Fits(d[k])
      <3>1. CASE k = Len(a) + 1
        BY <3>1, <2>4, <1>2, <1>4
      <3>2. CASE k # Len(a) + 1
        <4>1. k \in 1 .. Len(a)
          BY <3>2, <2>4
        <4>2. QED
          BY <4>1, <2>4, <1>1
      <3>3. QED
        BY <3>1, <3>2
    <2>6. t.bytes = Ends(t.current)[Len(t.current)]
      <3> DEFINE o == << e >>
      <3>1. o \in Seq(Sane) /\ Len(o) = 1 /\ o[1] = e
        BY <1>3
      <3> HIDE DEF o
      <3>2. 1 \in 1 .. Len(o) /\ 1 - 1 = 0
        BY <3>1
      <3>3. Ends(o)[1] = Ends(o)[1 - 1] + o[1].need /\ Ends(o)[0] = HeaderBytes
        BY <3>1, <3>2, EndsOf
      <3>4. Ends(o)[Len(o)] = HeaderBytes + e.need
        BY <3>1, <3>2, <3>3
      <3>5. QED
        BY <3>4, <2>1 DEF o
    <2>7. ASSUME NEW p \in D \cup {e} PROVE InChunk(p, t.current) \/ InOneOf(p, t.closed)
      <3>1. CASE p = e
        <4>1. 1 \in 1 .. Len(t.current) /\ t.current[1] = p
          BY <2>1, <2>2, <3>1
        <4>2. QED
          BY <4>1 DEF InChunk
      <3>2. CASE p \in D /\ InChunk(p, c)
        <4>1. Len(a) + 1 \in 1 .. Len(d) /\ d[Len(a) + 1] = c
          BY <2>4
        <4>2. QED
          BY <4>1, <3>2, <2>1 DEF InChunk, InOneOf
      <3>3. CASE p \in D /\ InOneOf(p, a)
        <4>1. PICK k \in 1 .. Len(a) : \E i \in 1 .. Len(a[k]) : a[k][i] = p
          BY <3>3 DEF InOneOf
        <4>2. k \in 1 .. Len(d) /\ d[k] = a[k]
          BY <2>4
        <4>3. QED
          BY <4>1, <4>2, <2>1 DEF InOneOf
      <3>4. QED
        BY <1>1, <3>1, <3>2, <3>3
    <2>8. Len(t.current) <= 1
      BY <2>1, <2>2
    <2>9. \A k \in 1 .. Len(t.closed) : t.closed[k] # << >> /\ Fits(t.closed[k])
      BY <2>1, <2>5
    <2> HIDE DEF d
    <2>10. PackedWell(t, D \cup {e}, T, limit)
      BY <2>3, <2>6, <2>7, <2>8, <2>9 DEF PackedWell
    <2>11. QED
      BY <2>10 DEF t
  <1>5. CASE ~ (u.bytes + e.need > limit /\ c # << >>)
    <2> DEFINE d == Append(c, e)
    <2>1. t = [u EXCEPT !.current = Append(@, e), !.bytes = @ + e.need]
      BY <1>5 DEF PackStep, c
    <2>2. t.closed = a /\ t.current = d /\ t.bytes = u.bytes + e.need
          /\ t = [closed |-> t.closed, current |-> t.current, bytes |-> t.bytes]
      BY <2>1, <1>1 DEF a, c, Packing
    <2>3. /\ d \in Seq(T) /\ Len(d) = Len(c) + 1 /\ Len(c) \in Nat /\ d[Len(c) + 1] = e
          /\ \A i \in 1 .. Len(c) : d[i] = c[i]
      BY <1>1
    <2> HIDE DEF t, d
    <2>4. t \in Packing(T)
      BY <2>2, <2>3, <1>1, <1>3 DEF Packing
    <2>5. t.bytes = Ends(d)[Len(d)]
      <3>1. c \in Seq(Sane)
        BY <1>1
      <3>2. QED
        BY <3>1, <1>1, <1>3, <2>2, <2>3, EndsAppend DEF d
    <2>6. Len(t.current) <= 1 \/ t.bytes <= limit
      <3>1. c = << >> => Len(c) = 0
        OBVIOUS
      <3>2. QED
        BY <3>1, <1>1, <1>3, <1>5, <2>2, <2>3
    <2>7. ASSUME NEW p \in D \cup {e} PROVE InChunk(p, t.current) \/ InOneOf(p, t.closed)
      <3>1. CASE p = e
        <4>1. Len(d) \in 1 .. Len(d) /\ d[Len(d)] = p
          BY <2>3, <3>1
        <4>2. QED
          BY <4>1, <2>2 DEF InChunk
      <3>2. CASE p \in D /\ InChunk(p, c)
        <4>1. PICK i \in 1 .. Len(c) : c[i] = p
          BY <3>2 DEF InChunk
        <4>2. i \in 1 .. Len(d) /\ d[i] = p
          BY <4>1, <2>3
        <4>3. QED
          BY <4>2, <2>2 DEF InChunk
      <3>3. CASE p \in D /\ InOneOf(p, a)
        BY <3>3, <2>2
      <3>4. QED
        BY <1>1, <3>1, <3>2, <3>3
    <2>8. /\ t.bytes = Ends(t.current)[Len(t.current)]
          /\ \A k \in 1 .. Len(t.closed) : t.closed[k] # << >> /\ Fits(t.closed[k])
      BY <1>1, <2>2, <2>5
    <2>9. PackedWell(t, D \cup {e}, T, limit)
      BY <2>4, <2>6, <2>7, <2>8 DEF PackedWell
    <2>10. QED
      BY <2>9 DEF t
  <1>6. QED
    BY <1>4, <1>5

LEMMA PackStepTyped ==
  ASSUME NEW T, T \subseteq Sane, NEW limit, NEW u \in Packing(T), NEW e \in T
  PROVE  PackStep(u, e, limit) \in Packing(T)
  <1> DEFINE t == PackStep(u, e, limit)
             a == u.closed
             c == u.current
             W == Seq(T)
  <1>1. a \in Seq(W) /\ c \in W /\ u.bytes \in Nat /\ e.need \in Nat /\ HeaderBytes \in Nat
    BY DEF Packing, Sane, Programs, HeaderBytes
  <1> HIDE DEF a, c, W
  <1>2. Append(a, c) \in Seq(W)
    BY <1>1
  <1>3. /\ Append(c, e) \in W /\ << e >> \in W
        /\ HeaderBytes + e.need \in Nat /\ u.bytes + e.need \in Nat
    BY <1>1 DEF W
  <1>4. CASE u.bytes + e.need > limit /\ c # << >>
    <2> DEFINE d == Append(a, c)
               o == << e >>
    <2>1. t = [closed |-> d, current |-> o, bytes |-> HeaderBytes + e.need]
      BY <1>4 DEF PackStep, a, c
    <2> HIDE DEF t, d, o
    <2>2. t \in Packing(T)
      BY <2>1, <1>2, <1>3 DEF Packing, W, d, o
    <2>3. QED
      BY <2>2 DEF t
  <1>5. CASE ~ (u.bytes + e.need > limit /\ c # << >>)
    <2> DEFINE d == Append(c, e)
    <2>1. t = [u EXCEPT !.current = Append(@, e), !.bytes = @ + e.need]
      BY <1>5 DEF PackStep, c
    <2>2. t.closed = a /\ t.current = d /\ t.bytes = u.bytes + e.need
          /\ t = [closed |-> t.closed, current |-> t.current, bytes |-> t.bytes]
      BY <2>1, <1>1 DEF a, c, Packing
    <2> HIDE DEF t, d
    <2>3. t \in Packing(T)
      BY <2>2, <1>1, <1>3 DEF Packing, W, d
    <2>4. QED
      BY <2>3 DEF t
  <1>6. QED
    BY <1>4, <1>5

(* Every entry is in a chunk, and no program of a chunk that can be framed is cut
   off by the window. *)
LEMMA Chunked ==
  ASSUME NEW T, T \subseteq Sane, NEW limit \in Nat, limit <= BatchLimit, NEW entries \in Seq(T)
  PROVE  /\ Chunks(entries, limit) \in Seq(Seq(T))
         /\ \A k \in 1 .. Len(Chunks(entries, limit)) :
              Chunks(entries, limit)[k] # << >> /\ Fits(Chunks(entries, limit)[k])
         /\ \A j \in 1 .. Len(entries) : InOneOf(entries[j], Chunks(entries, limit))
  <1> DEFINE N == Len(entries)
             V == Packing(T)
             base == [closed |-> << >>, current |-> << >>, bytes |-> HeaderBytes]
             D(i) == { entries[j] : j \in 1 .. i }
             step == [i \in 1 .. N |-> [c \in V |-> PackStep(c, entries[i], limit)]]
             Is(f) == f = [i \in 0 .. Len(entries) |->
                        IF i = 0
                        THEN [closed |-> << >>, current |-> << >>, bytes |-> HeaderBytes]
                        ELSE IF f[i - 1].bytes + entries[i].need > limit /\ f[i - 1].current # << >>
                             THEN [closed |-> Append(f[i - 1].closed, f[i - 1].current),
                                   current |-> << entries[i] >>,
                                   bytes |-> HeaderBytes + entries[i].need]
                             ELSE [f[i - 1] EXCEPT !.current = Append(@, entries[i]),
                                                   !.bytes = @ + entries[i].need]]
  <1>1. N \in Nat /\ base \in V /\ \A i \in 1 .. N : entries[i] \in T
    BY DEF Packing, HeaderBytes
  <1>2. PackedWell(base, {}, T, limit)
    <2>1. << >> \in Seq(Sane) /\ Len(<< >>) = 0
      OBVIOUS
    <2>2. Ends(<< >>)[0] = HeaderBytes
      BY <2>1, EndsOf
    <2>3. /\ base.closed = << >> /\ base.current = << >> /\ base.bytes = HeaderBytes
      OBVIOUS
    <2> HIDE DEF base
    <2>4. QED
      BY <1>1, <2>1, <2>2, <2>3 DEF PackedWell
  <1>3. ASSUME NEW f, Is(f), NEW i \in 1 .. N PROVE f[i] = PackStep(f[i - 1], entries[i], limit)
    <2>1. i \in 0 .. Len(entries) /\ i # 0
      BY <1>1
    <2>2. QED
      BY <1>3, <2>1 DEF PackStep
  <1>4. ASSUME NEW f, Is(f) PROVE PackedWell(f[N], D(N), T, limit)
    <2> DEFINE S == { i \in Nat : i <= N => PackedWell(f[i], D(i), T, limit) }
    <2>1. 0 \in S
      <3>1. f[0] = base
        <4>1. 0 \in 0 .. Len(entries)
          BY <1>1
        <4> HIDE DEF D, step, V, S
        <4>2. QED
          BY <4>1, <1>4
      <3>2. D(0) = {}
        OBVIOUS
      <3> HIDE DEF D, base
      <3>3. QED
        BY <1>2, <3>1, <3>2
    <2>2. ASSUME NEW i \in Nat, i \in S PROVE i + 1 \in S
      <3>1. SUFFICES ASSUME i + 1 <= N PROVE PackedWell(f[i + 1], D(i + 1), T, limit)
        OBVIOUS
      <3>2. i + 1 \in 1 .. N /\ (i + 1) - 1 = i /\ PackedWell(f[i], D(i), T, limit)
        BY <2>2, <3>1, <1>1
      <3>3. f[i + 1] = PackStep(f[i], entries[i + 1], limit)
        <4>1. f[i + 1] = PackStep(f[(i + 1) - 1], entries[i + 1], limit)
          BY <1>3, <1>4, <3>2
        <4>2. QED
          BY ONLY <4>1, <3>2
      <3>4. D(i + 1) = D(i) \cup {entries[i + 1]}
        <4>1. \A j : j \in 1 .. i + 1 <=> j \in 1 .. i \/ j = i + 1
          BY <2>2
        <4>2. QED
          BY <4>1
      <3>5. entries[i + 1] \in T
        BY <1>1, <3>2
      <3> HIDE DEF D, Is
      <3> DEFINE E == D(i)
                 u == f[i]
                 e == entries[i + 1]
      <3>6. PackedWell(u, E, T, limit) /\ e \in T
        BY <3>2, <3>5
      <3> HIDE DEF E, u, e
      <3>7. PackedWell(PackStep(u, e, limit), E \cup {e}, T, limit)
        BY <3>6, PackStepKeeps
      <3>8. QED
        BY <3>3, <3>4, <3>7 DEF E, u, e
    <2>3. Nat \subseteq S
      <3> HIDE DEF S
      <3>1. QED
        BY <2>1, <2>2, Induct
    <2> HIDE DEF D, Is
    <2>4. QED
      BY <1>1, <2>3
  <1>5. \E f : Is(f)
    <2>1. step \in Steps(V, N)
      <3>1. ASSUME NEW i \in 1 .. N, NEW c \in V PROVE PackStep(c, entries[i], limit) \in V
        BY <1>1, PackStepTyped
      <3>2. step \in [1 .. N -> [V -> V]]
        <4> HIDE DEF N, V
        <4>1. QED
          BY <3>1
      <3>3. QED
        BY <3>2 DEF Steps
    <2>2. PICK f : Goes(f, V, base, N, step)
      <3> HIDE DEF N, V, base, step
      <3>1. QED
        BY <1>1, <2>1, Recursion
    <2>3. f \in [0 .. N -> V] /\ f[0] = base
      BY <2>2 DEF Goes
    <2>4. ASSUME NEW i \in 0 .. N, i # 0 PROVE f[i] = PackStep(f[i - 1], entries[i], limit)
      <3>1. i \in 1 .. N /\ i - 1 \in 0 .. N
        BY <1>1, <2>4
      <3>2. f[i - 1] \in V
        BY <2>3, <3>1
      <3>3. f[i] = step[i][f[i - 1]]
        BY <2>2, <3>1 DEF Goes
      <3> HIDE DEF V
      <3>4. QED
        BY <3>1, <3>2, <3>3
    <2>5. Is(f)
      <3> HIDE DEF V
      <3>1. QED
        BY <2>3, <2>4 DEF PackStep
    <2>6. QED
      BY <2>5
  <1>6. \E f : Is(f) /\ Packed(entries, limit) = f[N]
    <2>1. QED
      BY <1>5 DEF Packed
  <1> DEFINE u == Packed(entries, limit)
             chunks == Chunks(entries, limit)
  <1>7. PackedWell(u, D(N), T, limit)
    <2> HIDE DEF Is, D, N
    <2>1. QED
      BY <1>4, <1>6
  <1>8. \A j \in 1 .. N : entries[j] \in D(N)
    OBVIOUS
  <1> HIDE DEF D, N
  <1>9. /\ u.closed \in Seq(Seq(T)) /\ u.current \in Seq(T)
        /\ \A k \in 1 .. Len(u.closed) : u.closed[k] # << >> /\ Fits(u.closed[k])
        /\ \A p \in D(N) : InChunk(p, u.current) \/ InOneOf(p, u.closed)
    BY <1>7 DEF PackedWell, Packing
  <1>10. Fits(u.current)
    <2> HIDE DEF u
    <2>1. QED
      BY <1>7, CurrentFits
  <1>11. chunks = IF u.current = << >> THEN u.closed ELSE Append(u.closed, u.current)
    BY DEF Chunks
  <1> DEFINE a == u.closed
             c == u.current
  <1> HIDE DEF u, chunks
  <1>12. CASE c = << >>
    <2>1. \A p \in D(N) : InOneOf(p, a)
      BY <1>9, <1>12 DEF InChunk
    <2>2. chunks = a
      BY <1>11, <1>12
    <2>3. QED
      BY <2>1, <2>2, <1>8, <1>9 DEF N, chunks
  <1>13. CASE c # << >>
    <2>1. chunks = Append(a, c) /\ a \in Seq(Seq(T)) /\ c \in Seq(T)
      BY <1>9, <1>11, <1>13
    <2>2. /\ chunks \in Seq(Seq(T)) /\ Len(chunks) = Len(a) + 1 /\ Len(a) \in Nat
          /\ chunks[Len(a) + 1] = c /\ \A k \in 1 .. Len(a) : chunks[k] = a[k]
      <3> DEFINE W == Seq(T)
      <3>1. chunks = Append(a, c) /\ a \in Seq(W) /\ c \in W
        BY <2>1
      <3> HIDE DEF a, c, W
      <3>2. /\ chunks \in Seq(W) /\ Len(chunks) = Len(a) + 1 /\ Len(a) \in Nat
            /\ chunks[Len(a) + 1] = c /\ \A k \in 1 .. Len(a) : chunks[k] = a[k]
        BY <3>1
      <3>3. QED
        BY <3>2 DEF W
    <2>3. ASSUME NEW k \in 1 .. Len(chunks) PROVE chunks[k] # << >> /\ Fits(chunks[k])
      <3>1. CASE k = Len(a) + 1
        BY <3>1, <2>2, <1>10, <1>13
      <3>2. CASE k # Len(a) + 1
        <4>1. k \in 1 .. Len(a)
          BY <3>2, <2>2
        <4>2. QED
          BY <4>1, <2>2, <1>9
      <3>3. QED
        BY <3>1, <3>2
    <2>4. ASSUME NEW p \in D(N) PROVE InOneOf(p, chunks)
      <3>1. CASE InChunk(p, c)
        <4>1. Len(a) + 1 \in 1 .. Len(chunks)
          BY <2>2
        <4>2. QED
          BY <4>1, <3>1, <2>2 DEF InChunk, InOneOf
      <3>2. CASE InOneOf(p, a)
        <4>1. PICK k \in 1 .. Len(a) : \E i \in 1 .. Len(a[k]) : a[k][i] = p
          BY <3>2 DEF InOneOf
        <4>2. k \in 1 .. Len(chunks) /\ chunks[k] = a[k]
          BY <2>2
        <4>3. QED
          BY <4>1, <4>2 DEF InOneOf
      <3>3. QED
        BY <1>9, <3>1, <3>2
    <2>5. QED
      BY <2>2, <2>3, <2>4, <1>8 DEF N, chunks
  <1>14. QED
    BY <1>12, <1>13

-----------------------------------------------------------------------------
(* How the program that crashes the host translator is found. *)

(* One round of the search. *)
Half(part) ==
  IF Len(part) <= 1 THEN part
  ELSE IF HostCrashes(SubSeq(part, 1, Len(part) \div 2))
  THEN SubSeq(part, 1, Len(part) \div 2) ELSE SubSeq(part, (Len(part) \div 2) + 1, Len(part))

LEMMA HalfTyped ==
  ASSUME NEW T, NEW part \in Seq(T)
  PROVE  Half(part) \in Seq(T)
  <1>1. Len(part) \in Nat /\ \A i \in 1 .. Len(part) : part[i] \in T
    OBVIOUS
  <1> DEFINE half == Len(part) \div 2
  <1>2. CASE Len(part) > 1
    <2>1. half \in 1 .. Len(part) /\ half + 1 \in 1 .. Len(part)
      BY <1>1, <1>2
    <2> HIDE DEF half
    <2>2. SubSeq(part, 1, half) \in Seq(T) /\ SubSeq(part, half + 1, Len(part)) \in Seq(T)
      BY <1>1, <2>1
    <2>3. QED
      BY <2>2, <1>2 DEF Half, half
  <1>3. CASE ~ (Len(part) > 1)
    BY <1>1, <1>3 DEF Half
  <1>4. QED
    BY <1>2, <1>3

(* The half that is kept crashes, and is smaller unless it is one program. *)
LEMMA HalfKeeps ==
  ASSUME NEW T, NEW part \in Seq(T), HostCrashes(part)
  PROVE  /\ HostCrashes(Half(part)) /\ Len(Half(part)) >= 1
         /\ Len(Half(part)) = 1 \/ Len(Half(part)) < Len(part)
  <1> DEFINE n == Len(part)
             half == n \div 2
             low == SubSeq(part, 1, half)
             high == SubSeq(part, half + 1, n)
  <1>1. n \in Nat /\ n >= 1
    <2>1. n \in Nat /\ \E i \in 1 .. n : part[i].crashes
      BY DEF HostCrashes
    <2>2. QED
      BY <2>1
  <1>2. CASE n = 1
    BY <1>1, <1>2 DEF Half
  <1>3. CASE n # 1
    <2> HIDE DEF n
    <2>1. half \in 1 .. n /\ half + 1 \in 1 .. n /\ half \in Nat /\ half < n
      BY <1>1, <1>3
    <2> HIDE DEF half
    <2>2. Half(part) = IF HostCrashes(low) THEN low ELSE high
      <3> HIDE DEF low, high
      <3>1. ~ (n <= 1)
        BY <1>1, <1>3
      <3>2. QED
        BY <3>1 DEF Half, low, high, half, n
    <2>3. /\ Len(low) = half /\ \A i \in 1 .. half : low[i] = part[i]
          /\ Len(high) = n - half /\ \A i \in 1 .. n - half : high[i] = part[half + i]
      BY <2>1, <1>1 DEF n
    <2> HIDE DEF low, high
    <2>4. ASSUME ~ HostCrashes(low) PROVE HostCrashes(high)
      <3>1. PICK i \in 1 .. n : part[i].crashes
        BY DEF HostCrashes, n
      <3>2. i \notin 1 .. half
        <4>1. ASSUME i \in 1 .. half PROVE FALSE
          <5>1. low[i] = part[i] /\ i \in 1 .. Len(low)
            BY <4>1, <2>3
          <5>2. QED
            BY <5>1, <3>1, <2>4 DEF HostCrashes
        <4>2. QED
          BY <4>1
      <3>3. i - half \in 1 .. n - half /\ half + (i - half) = i
        BY <3>2, <2>1, <1>1
      <3>4. high[i - half] = part[i] /\ i - half \in 1 .. Len(high)
        BY <3>3, <2>3
      <3>5. QED
        BY <3>1, <3>4 DEF HostCrashes
    <2>5. QED
      BY <2>1, <2>2, <2>3, <2>4, <1>1 DEF n
  <1>4. QED
    BY <1>2, <1>3

(* The search names a program of the batch that crashes. *)
LEMMA Bisected ==
  ASSUME NEW T, NEW batch \in Seq(T), HostCrashes(batch)
  PROVE  Bisect(batch) \in T /\ Bisect(batch).crashes
  <1> DEFINE N == Len(batch)
             V == Seq(T)
             step == [k \in 1 .. N |-> [b \in V |-> Half(b)]]
             Is(f) == f = [k \in 0 .. Len(batch) |->
                        IF k = 0 THEN batch
                        ELSE IF Len(f[k - 1]) <= 1 THEN f[k - 1]
                             ELSE IF HostCrashes(SubSeq(f[k - 1], 1, Len(f[k - 1]) \div 2))
                             THEN SubSeq(f[k - 1], 1, Len(f[k - 1]) \div 2)
                             ELSE SubSeq(f[k - 1], (Len(f[k - 1]) \div 2) + 1, Len(f[k - 1]))]
  <1>1. N \in Nat /\ batch \in V
    OBVIOUS
  <1>2. \E f : Is(f)
    <2>1. step \in Steps(V, N)
      <3>1. ASSUME NEW k \in 1 .. N, NEW b \in V PROVE Half(b) \in V
        BY HalfTyped
      <3> HIDE DEF V, N
      <3>2. QED
        BY <3>1 DEF Steps
    <2>2. PICK f : Goes(f, V, batch, N, step)
      <3> HIDE DEF N, V, step
      <3>1. QED
        BY <1>1, <2>1, Recursion
    <2>3. f \in [0 .. N -> V] /\ f[0] = batch
      BY <2>2 DEF Goes
    <2>4. ASSUME NEW k \in 0 .. N, k # 0 PROVE f[k] = Half(f[k - 1])
      <3>1. k \in 1 .. N /\ k - 1 \in 0 .. N
        BY <1>1, <2>4
      <3>2. f[k - 1] \in V
        BY <2>3, <3>1
      <3>3. f[k] = step[k][f[k - 1]]
        BY <2>2, <3>1 DEF Goes
      <3> HIDE DEF V
      <3>4. QED
        BY <3>1, <3>2, <3>3
    <2>5. Is(f)
      <3> HIDE DEF V
      <3>1. QED
        BY <2>3, <2>4 DEF Half
    <2>6. QED
      BY <2>5
  <1>3. \E f : Is(f) /\ Bisect(batch) = Nth(f[N], 1)
    BY <1>2 DEF Bisect
  <1>4. PICK f : Is(f) /\ Bisect(batch) = Nth(f[N], 1)
    BY <1>3
  <1>5. f[0] = batch /\ \A k \in 1 .. N : f[k] = Half(f[k - 1])
    <2>1. 0 \in 0 .. Len(batch)
      BY <1>1
    <2>2. f[0] = batch
      BY <2>1, <1>4
    <2>3. ASSUME NEW k \in 1 .. N PROVE f[k] = Half(f[k - 1])
      <3>1. k \in 0 .. Len(batch) /\ k # 0
        BY <1>1
      <3>2. QED
        BY <3>1, <1>4 DEF Half
    <2>4. QED
      BY <2>2, <2>3
  <1> DEFINE Left(k) == /\ f[k] \in V /\ HostCrashes(f[k]) /\ Len(f[k]) >= 1
                        /\ Len(f[k]) = 1 \/ Len(f[k]) + k <= N
             S == { k \in Nat : k <= N => Left(k) }
  <1> HIDE DEF Is
  <1>6. 0 \in S
    <2>1. N >= 1
      <3>1. \E i \in 1 .. N : batch[i].crashes
        BY DEF HostCrashes
      <3>2. QED
        BY <3>1, <1>1
    <2>2. QED
      BY <1>1, <1>5, <2>1
  <1>7. ASSUME NEW k \in Nat, k \in S PROVE k + 1 \in S
    <2>1. SUFFICES ASSUME k + 1 <= N PROVE Left(k + 1)
      <3> HIDE DEF Left, N
      <3>1. QED
        OBVIOUS
    <2>2. k + 1 \in 1 .. N /\ (k + 1) - 1 = k /\ Left(k)
      BY <1>1, <1>7, <2>1
    <2>3. f[k + 1] = Half(f[k])
      <3>1. f[k + 1] = Half(f[(k + 1) - 1])
        BY <1>5, <2>2
      <3>2. QED
        BY ONLY <3>1, <2>2
    <2> DEFINE a == f[k]
               h == Half(a)
    <2>4. /\ a \in Seq(T) /\ HostCrashes(a) /\ Len(a) \in Nat /\ Len(a) >= 1
          /\ Len(a) = 1 \/ Len(a) + k <= N
      BY <2>2
    <2> HIDE DEF a
    <2>5. /\ h \in Seq(T) /\ HostCrashes(h) /\ Len(h) >= 1 /\ (Len(h) = 1 \/ Len(h) < Len(a))
      BY <2>4, HalfTyped, HalfKeeps
    <2>6. Len(h) \in Nat
      BY <2>5
    <2> HIDE DEF h
    <2>7. Len(h) = 1 \/ Len(h) + (k + 1) <= N
      BY <2>4, <2>5, <2>6, <1>1
    <2>8. f[k + 1] = h
      BY <2>3 DEF h, a
    <2>9. QED
      BY <2>5, <2>7, <2>8
  <1>8. Nat \subseteq S
    <2> HIDE DEF S
    <2>1. QED
      BY <1>6, <1>7, Induct
  <1>9. Left(N)
    <2> HIDE DEF Left
    <2>1. QED
      BY <1>1, <1>8
  <1> DEFINE last == f[N]
  <1>10. last \in Seq(T) /\ HostCrashes(last) /\ Len(last) \in Nat /\ Bisect(batch) = Nth(last, 1)
         /\ Len(last) >= 1 /\ (Len(last) = 1 \/ Len(last) + N <= N)
    BY <1>4, <1>9
  <1> HIDE DEF last
  <1>11. Len(last) = 1
    BY <1>1, <1>10
  <1>12. Bisect(batch) = last[1] /\ last[1] \in T
    <2>1. 1 \in 1 .. Len(last)
      BY <1>11
    <2>2. QED
      BY <2>1, <1>10 DEF Nth
  <1>13. last[1].crashes
    <2>1. \E i \in 1 .. Len(last) : last[i].crashes
      BY <1>10 DEF HostCrashes
    <2>2. QED
      BY <2>1, <1>11
  <1>14. QED
    BY <1>12, <1>13

-----------------------------------------------------------------------------
(* The invariant. *)

(* What the target's answer to a program must be. *)
TargetRight(p) == p.target = p.vm \/ p.target.tag = "E" \/ ~ p.framed

Known == { p \in Sane : Idle \/ p.framed }
Handed(p) == \E b \in ran : InChunk(p, b)

Typed ==
  /\ phase \in {"calibrating", "drawing", "batch", "last batch", "over", "sweeping"}
  /\ exit \in {"running", "clean", "findings", "uncalibrated", "killed", "stopped"}
  /\ queue \in Seq(Seq(Known))
  /\ \A k \in 1 .. Len(queue) : queue[k] # << >> /\ Fits(queue[k])
  /\ ran \subseteq Seq(Known) /\ pool \in Seq(Known) /\ verified \subseteq Known
  /\ round \in Nat

(* Batches are queued and run where the tools do so, and an exit is final. *)
InStep ==
  /\ phase \notin {"batch", "last batch", "sweeping"} => queue = << >>
  /\ queue = << >> => sink = "target"
  /\ sink # "target" => Head(queue) \in ran
  /\ Idle => verified = {} /\ laneFailure = FALSE /\ sink = "target"
  /\ exit \in {"clean", "findings"} => phase = "over" \/ (Idle /\ queue = << >>)
  /\ exit = "clean" => findings = {} /\ ~ laneFailure
  /\ exit = "stopped" => Idle

(* A verified program waits in the pool, waits in a batch or was handed over. *)
NoneLost ==
  \A p \in verified : Handed(p) \/ InOneOf(p, queue) \/ (phase = "drawing" /\ InChunk(p, pool))

(* tail is what stands behind the first n programs of batch. *)
IsBehind(tail, batch, n) ==
  /\ Len(tail) = Len(batch) - n
  /\ \A j \in 1 .. Len(tail) : tail[j] = batch[n + j]
Waits(batch, i) ==
  \E k \in 1 .. Len(queue) : \E n \in 0 .. i - 1 : IsBehind(queue[k], batch, n)

SettledAt(b, i) ==
  \/ Compared(b[i])
  \/ \E h \in HungAt(b) : Idle => i < h
  \/ Idle /\ Waits(b, i)
Settled ==
  exit # "stopped" => \A b \in ran : \A i \in 1 .. Len(b) : SettledAt(b, i)

(* With no finding, every program handed over was right, and did not crash the
   host unless its batch has still to go there. *)
NothingMissed ==
  findings = {} /\ exit # "stopped" =>
    \A b \in ran : \A i \in 1 .. Len(b) :
      /\ TargetRight(b[i])
      /\ Idle \/ ~ b[i].crashes \/ (sink # "target" /\ b = Head(queue))

BatchInv ==
  Typed /\ InStep /\ NoneLost /\ Settled /\ NothingMissed /\ BlameIsRight

-----------------------------------------------------------------------------

(* What the two tools can make of a run of the image without assertions ... *)
Answered(batch, run, n) ==
  \A i \in 1 .. n : run.results[i] = batch[i].target /\ batch[i].target.tag \in {"R", "T", "E"}
AllAnswered(batch, run) ==
  ~ run.timedOut /\ Len(run.results) = Len(batch) /\ Answered(batch, run, Len(batch))
HangsAt(batch, run, n) ==
  run.timedOut /\ Len(run.results) = n - 1 /\ batch[n].target.tag = "spins"
BreaksOffAt(batch, run, n) ==
  /\ ~ run.timedOut /\ Len(run.results) = n /\ ~ batch[n].framed
  /\ run.results[n].tag = "X" /\ Answered(batch, run, n - 1)

LEMMA AnswersHeard ==
  ASSUME NEW batch \in Seq(Sane), batch # << >>, Fits(batch), NEW run \in Outcome("answer", batch)
  PROVE  \/ AllAnswered(batch, run)
         \/ \E n \in 1 .. Len(batch) : HangsAt(batch, run, n) \/ BreaksOffAt(batch, run, n)
  <1>0. batch \in Seq(Programs) /\ Len(batch) \in Nat
    BY DEF Sane
  <1>1. Hears("answer", batch, run)
    BY <1>0, Heard
  <1>2. \A i \in 1 .. Len(batch) : Fate("answer", batch, i) # "asserts"
    BY DEF Fate
  <1>3. ASSUME NEW i \in 1 .. Len(batch), Fate("answer", batch, i) = "answers"
        PROVE  batch[i].target.tag \in {"R", "T", "E"}
    <2>1. batch[i].target \in Answers({"R", "T", "E"})
      BY <1>0, <1>3, PrintedAre
    <2>2. QED
      BY <2>1 DEF Answers
  <1>4. ASSUME NEW n \in 0 .. Len(batch), \A i \in 1 .. n : Fate("answer", batch, i) = "answers"
        PROVE  /\ Len(Targets(batch, n)) = n /\ Targets(batch, n) \in Seq(Results)
               /\ \A i \in 1 .. n : /\ Targets(batch, n)[i] = batch[i].target
                                    /\ batch[i].target.tag \in {"R", "T", "E"}
    <2>1. ASSUME NEW i \in 1 .. n
          PROVE  batch[i].target \in Answers({"R", "T", "E"})
      <3>1. i \in 1 .. Len(batch)
        BY <1>0
      <3>2. QED
        BY <1>0, <1>4, <3>1, PrintedAre
    <2>2. Targets(batch, n) \in Seq(Results) /\ Len(Targets(batch, n)) = n
      <3>1. n \in Nat /\ n <= Len(batch)
        BY <1>0
      <3>2. QED
        BY <1>0, <2>1, <3>1, TargetsTyped
    <2>3. \A i \in 1 .. n : Targets(batch, n)[i] = batch[i].target
      BY DEF Targets
    <2>4. QED
      BY <2>1, <2>2, <2>3 DEF Answers
  <1>5. CASE /\ \A i \in 1 .. Len(batch) : Fate("answer", batch, i) = "answers"
             /\ run.timedOut = FALSE /\ run.results = Targets(batch, Len(batch))
    <2>1. Len(batch) \in 0 .. Len(batch)
      BY <1>0
    <2>2. AllAnswered(batch, run)
      BY <2>1, <1>4, <1>5 DEF AllAnswered, Answered
    <2>3. QED
      BY <2>2
  <1>6. ASSUME NEW n \in 1 .. Len(batch),
               \A i \in 1 .. n - 1 : Fate("answer", batch, i) = "answers",
               Fate("answer", batch, n) = "spins", run.timedOut = TRUE,
               run.results = Targets(batch, n - 1)
        PROVE  HangsAt(batch, run, n)
    <2>1. n - 1 \in 0 .. Len(batch)
      BY <1>0
    <2>2. batch[n].target.tag = "spins"
      BY <1>6 DEF Fate
    <2>3. QED
      BY <2>1, <2>2, <1>4, <1>6 DEF HangsAt
  <1>7. ASSUME NEW n \in 1 .. Len(batch),
               \A i \in 1 .. n - 1 : Fate("answer", batch, i) = "answers",
               Fate("answer", batch, n) = "rejected", run.timedOut = FALSE,
               run.results = Append(Targets(batch, n - 1), Answer("X", 0, NoDigest))
        PROVE  BreaksOffAt(batch, run, n)
    <2> DEFINE t == Targets(batch, n - 1)
               x == Answer("X", 0, NoDigest)
    <2>1. n - 1 \in 0 .. Len(batch) /\ (n - 1) + 1 = n
      BY <1>0
    <2>2. ~ batch[n].framed
      <3>1. Ends(batch)[n] \in Nat /\ BatchLimit \in Nat
        <4>1. n \in 0 .. Len(batch)
          BY <1>0
        <4>2. QED
          BY <4>1, EndsOf, BatchConstants
      <3>2. Ends(batch)[n] > BatchLimit \/ ~ batch[n].framed
        BY <1>7 DEF Fate
      <3>3. QED
        BY <3>1, <3>2 DEF Fits
    <2>3. /\ Len(t) = n - 1 /\ t \in Seq(Results)
          /\ \A i \in 1 .. n - 1 : t[i] = batch[i].target /\ batch[i].target.tag \in {"R", "T", "E"}
      BY <2>1, <1>4, <1>7
    <2>4. x.tag = "X" /\ x \in Results
      BY DEF Answer, Results, ResultTags, NoDigest
    <2> HIDE DEF t, x
    <2>5. /\ Len(Append(t, x)) = n /\ Append(t, x)[n] = x
          /\ \A i \in 1 .. n - 1 : Append(t, x)[i] = t[i]
      BY <2>1, <2>3, <2>4
    <2>6. run.results = Append(t, x)
      BY <1>7 DEF t, x
    <2>7. QED
      BY <2>2, <2>3, <2>4, <2>5, <2>6, <1>7 DEF BreaksOffAt, Answered
  <1>8. QED
    BY <1>1, <1>2, <1>5, <1>6, <1>7 DEF Hears

(* ... and of the image with assertions, in a campaign. *)
LEMMA AssertionsHeard ==
  ASSUME NEW batch \in Seq(Sane), batch # << >>, Fits(batch), NEW run \in Outcome("debug", batch)
  PROVE  /\ run.timedOut => \E n \in 1 .. Len(batch) : HangsAt(batch, run, n)
         /\ \A i \in 1 .. Len(run.results) :
              run.results[i].tag = "A" => i \in 1 .. Len(batch) /\ batch[i].asserts
  <1>0. batch \in Seq(Programs) /\ Len(batch) \in Nat
    BY DEF Sane
  <1>1. Hears("debug", batch, run)
    BY <1>0, Heard
  <1>2. ASSUME NEW n \in 0 .. Len(batch), \A i \in 1 .. n : Fate("debug", batch, i) = "answers"
        PROVE  /\ Len(Targets(batch, n)) = n /\ Targets(batch, n) \in Seq(Results)
               /\ \A i \in 1 .. n : Targets(batch, n)[i].tag # "A"
    <2>1. ASSUME NEW i \in 1 .. n
          PROVE  batch[i].target \in Answers({"R", "T", "E"})
      <3>1. i \in 1 .. Len(batch)
        BY <1>0
      <3>2. QED
        BY <1>0, <1>2, <3>1, PrintedAre
    <2>2. Targets(batch, n) \in Seq(Results) /\ Len(Targets(batch, n)) = n
      <3>1. n \in Nat /\ n <= Len(batch)
        BY <1>0
      <3>2. QED
        BY <1>0, <2>1, <3>1, TargetsTyped
    <2>3. \A i \in 1 .. n : Targets(batch, n)[i] = batch[i].target
      BY DEF Targets
    <2>4. QED
      BY <2>1, <2>2, <2>3 DEF Answers
  <1>3. CASE /\ \A i \in 1 .. Len(batch) : Fate("debug", batch, i) = "answers"
             /\ run.timedOut = FALSE /\ run.results = Targets(batch, Len(batch))
    <2>1. Len(batch) \in 0 .. Len(batch)
      BY <1>0
    <2>2. QED
      BY <2>1, <1>2, <1>3
  <1>4. ASSUME NEW n \in 1 .. Len(batch),
               \A i \in 1 .. n - 1 : Fate("debug", batch, i) = "answers",
               Fate("debug", batch, n) = "spins", run.timedOut = TRUE,
               run.results = Targets(batch, n - 1)
        PROVE  /\ HangsAt(batch, run, n)
               /\ \A i \in 1 .. Len(run.results) : run.results[i].tag # "A"
    <2>1. n - 1 \in 0 .. Len(batch)
      BY <1>0
    <2>2. batch[n].target.tag = "spins"
      BY <1>4 DEF Fate
    <2>3. QED
      BY <2>1, <2>2, <1>2, <1>4 DEF HangsAt
  <1>5. ASSUME NEW n \in 1 .. Len(batch), NEW c \in {"X", "A"},
               \A i \in 1 .. n - 1 : Fate("debug", batch, i) = "answers",
               Fate("debug", batch, n) = (IF c = "X" THEN "rejected" ELSE "asserts"),
               run.timedOut = FALSE,
               run.results = Append(Targets(batch, n - 1), Answer(c, 0, NoDigest)),
               NEW i \in 1 .. Len(run.results), run.results[i].tag = "A"
        PROVE  i \in 1 .. Len(batch) /\ batch[i].asserts
    <2> DEFINE t == Targets(batch, n - 1)
               x == Answer(c, 0, NoDigest)
    <2>1. n - 1 \in 0 .. Len(batch) /\ (n - 1) + 1 = n
      BY <1>0
    <2>2. Len(t) = n - 1 /\ t \in Seq(Results) /\ \A j \in 1 .. n - 1 : t[j].tag # "A"
      BY <2>1, <1>2, <1>5
    <2>3. x.tag = c /\ x \in Results
      BY DEF Answer, Results, ResultTags, NoDigest
    <2> HIDE DEF t, x
    <2>4. /\ Len(Append(t, x)) = n /\ Append(t, x)[n] = x
          /\ \A j \in 1 .. n - 1 : Append(t, x)[j] = t[j]
      BY <2>1, <2>2, <2>3
    <2>5. run.results = Append(t, x)
      BY <1>5 DEF t, x
    <2>6. i \in 1 .. n /\ (i \in 1 .. n - 1 \/ i = n)
      BY <2>4, <2>5, <1>0
    <2>7. i = n /\ c = "A"
      BY <2>2, <2>3, <2>4, <2>5, <2>6, <1>5
    <2>8. batch[n].asserts
      BY <2>7, <1>5 DEF Fate
    <2>9. QED
      BY <2>7, <2>8
  <1>6. QED
    BY <1>1, <1>3, <1>4, <1>5 DEF Hears

-----------------------------------------------------------------------------
(* What the tools conclude of one program. *)

Numbered(m, n) == [m EXCEPT !.id = n]

(* A number of its own is all that tells a drawn or a saved program from its source. *)
LEMMA NumberedIs ==
  ASSUME NEW m \in Sane, NEW n \in Nat
  PROVE  LET d == Numbered(m, n)
         IN  /\ d \in Sane /\ d.framed = m.framed /\ d.refused = m.refused
             /\ d.ast = m.ast /\ d.vm = m.vm /\ d.target = m.target
             /\ d.crashes = m.crashes /\ d.asserts = m.asserts
  <1> DEFINE d == Numbered(m, n)
  <1>1. m \in Programs /\ IsProgram(m)
    BY DEF Sane
  <1>2. /\ d \in Programs /\ d.framed = m.framed /\ d.refused = m.refused /\ d.need = m.need
        /\ d.ast = m.ast /\ d.vm = m.vm /\ d.target = m.target
        /\ d.crashes = m.crashes /\ d.asserts = m.asserts
    BY <1>1 DEF Programs, Numbered
  <1> HIDE DEF d
  <1>3. IsProgram(d)
    BY <1>1, <1>2 DEF IsProgram
  <1>4. QED
    BY <1>2, <1>3 DEF Sane, d

(* What is named is a program. *)
LEMMA SomeProgram ==
  ASSUME NEW p \in Sane
  PROVE  p # NoProgram
  <1>1. DOMAIN p = {"id", "need", "sig", "small", "framed", "refused", "asserts", "crashes",
                    "ast", "vm", "target"}
    BY DEF Sane, Programs
  <1>2. DOMAIN NoProgram = {"id"}
    BY DEF NoProgram
  <1>3. QED
    BY <1>1, <1>2

LEMMA WrongAnswer ==
  ASSUME NEW p, p.target.tag \in {"R", "T", "E"},
         Comparable(p.target), ~ Agrees(p.target, p.vm)
  PROVE  Guilty("JIT", p) /\ Guilty("MISMATCH", p)
  <1>1. p.target # p.vm /\ p.target.tag # "spins"
    BY DEF Agrees
  <1>2. QED
    BY <1>1 DEF Guilty

LEMMA RightAnswer ==
  ASSUME NEW p \in Sane, p.target.tag \in {"R", "T", "E"},
         ~ (Comparable(p.target) /\ ~ Agrees(p.target, p.vm))
  PROVE  TargetRight(p)
  <1>1. /\ p.target \in Answers(TargetTags) /\ p.vm \in Answers(EngineTags)
        /\ p.target.mem # NoDigest
    BY DEF Sane, Programs, IsProgram
  <1>2. CASE Comparable(p.target)
    <2>1. /\ p.target.tag = p.vm.tag /\ p.target.value = p.vm.value
          /\ p.target.mem = p.vm.mem
      BY <1>1, <1>2 DEF Agrees
    <2> DEFINE t == p.target
               v == p.vm
    <2>2. /\ t = [tag |-> t.tag, value |-> t.value, mem |-> t.mem]
          /\ v = [tag |-> v.tag, value |-> v.value, mem |-> v.mem]
      BY <1>1 DEF Answers
    <2>3. t = v
      BY <2>1, <2>2
    <2>4. QED
      BY <2>3 DEF TargetRight
  <1>3. CASE ~ Comparable(p.target)
    BY <1>3 DEF Comparable, TargetRight
  <1>4. QED
    BY <1>2, <1>3

(* What verify reports of a program is its fault, and what it lets through can be
   framed. *)
LEMMA Verdicts ==
  ASSUME NEW m \in Sane, NEW n \in Nat
  PROVE  /\ Verdict(m) = "verified" => m.framed
         /\ Verdict(m) \notin {"dropped", "verified"} => Guilty(Verdict(m), Numbered(m, n))
  <1> DEFINE d == Numbered(m, n)
  <1>1. /\ d.framed = m.framed /\ d.refused = m.refused /\ d.ast = m.ast /\ d.vm = m.vm
    BY NumberedIs
  <1> HIDE DEF d
  <1>2. Verdict(m) = "verified" => m.framed
    BY DEF Verdict
  <1>3. Verdict(m) \in {"dropped", "verified", "OUT OF PROFILE", "OVER HARNESS CAPACITY",
                        "LOWERER", "VM THREW", "LOWERER/VM"}
    BY DEF Verdict
  <1>4. Verdict(m) = "OUT OF PROFILE" => m.refused = "profile"
    BY DEF Verdict
  <1>5. Verdict(m) = "OVER HARNESS CAPACITY" => m.refused = "capacity" \/ ~ m.framed
    BY DEF Verdict
  <1>6. Verdict(m) = "LOWERER" => m.ast.tag # "unspecified"
    BY DEF Verdict
  <1>7. Verdict(m) = "VM THREW" => m.vm.tag = "threw"
    BY DEF Verdict
  <1>8. Verdict(m) = "LOWERER/VM" => m.ast # m.vm
    BY DEF Verdict
  <1> DEFINE v == Verdict(m)
  <1> HIDE DEF v
  <1>9. v \notin {"dropped", "verified"} => Guilty(v, d)
    BY <1>1, <1>3, <1>4, <1>5, <1>6, <1>7, <1>8 DEF Guilty, v
  <1>10. QED
    BY <1>2, <1>9 DEF v, d

LEMMA CalibrateKeeps ==
  ASSUME BatchInv, Calibrate
  PROVE  BatchInv'
  <1> USE DEF Idle
  <1>1. /\ phase = "calibrating" /\ phase' \in {"drawing", "over"} /\ exit' \in {exit, "uncalibrated"}
        /\ UNCHANGED << queue, findings, answered, ran, round, pool, verified, sink, laneFailure >>
    BY DEF Calibrate, loopVars
  <1>2. Known' = Known
    BY <1>1 DEF Known
  <1>3. Typed'
    BY <1>1, <1>2 DEF BatchInv, Typed
  <1>4. InStep'
    BY <1>1 DEF BatchInv, InStep, Typed
  <1>5. NoneLost'
    BY <1>1 DEF BatchInv, NoneLost, Handed
  <1>6. Settled'
    BY <1>1 DEF BatchInv, Typed, InStep, Settled, SettledAt, Compared, HungAt
  <1>7. NothingMissed'
    BY <1>1 DEF BatchInv, Typed, InStep, NothingMissed
  <1>8. BlameIsRight'
    BY <1>1 DEF BatchInv, BlameIsRight
  <1>9. QED
    BY <1>3, <1>4, <1>5, <1>6, <1>7, <1>8 DEF BatchInv

-----------------------------------------------------------------------------
(* The steps of a campaign that hand nothing over. *)

(* A campaign takes back nothing it has settled. *)
LEMMA StillSettled ==
  ASSUME Settled, exit # "stopped", ~ Idle, ~ Idle', ran' = ran, findings \subseteq findings',
         answered \subseteq answered'
  PROVE  Settled'
  BY DEF Settled, SettledAt, Compared, HungAt

(* A program that was drawn and does not get any further. *)
LEMMA DropKeeps ==
  ASSUME BatchInv, NEW m \in Mutants, Drop(m) \/ Skip(m)
  PROVE  BatchInv'
  <1> USE DEF Idle
  <1>1. /\ phase = "drawing" /\ round' = NextRound
        /\ UNCHANGED << phase, queue, findings, answered, ran, exit, pool, verified, sink, laneFailure >>
    BY DEF Drop, Skip, Ready, sinkVars
  <1>2. Known' = Known
    BY <1>1 DEF Known
  <1>3. round' \in Nat
    <2>1. round \in Nat /\ Rounds \in Nat \ {0}
      BY CampaignConstants DEF BatchInv, Typed
    <2>2. QED
      BY <1>1, <2>1 DEF NextRound
  <1>4. Typed'
    BY <1>1, <1>2, <1>3 DEF BatchInv, Typed
  <1>5. InStep'
    BY <1>1 DEF BatchInv, InStep, Typed
  <1>6. NoneLost'
    BY <1>1 DEF BatchInv, NoneLost, Handed
  <1>7. Settled'
    BY <1>1, StillSettled DEF BatchInv, InStep
  <1>8. NothingMissed'
    BY <1>1 DEF BatchInv, Typed, InStep, NothingMissed
  <1>9. BlameIsRight'
    BY <1>1 DEF BatchInv, BlameIsRight
  <1>10. QED
    BY <1>4, <1>5, <1>6, <1>7, <1>8, <1>9 DEF BatchInv

LEMMA DrawnIs ==
  ASSUME BatchInv, NEW m \in Mutants
  PROVE  m \in Sane /\ round \in Nat /\ Drawn(m) = Numbered(m, round)
  BY CampaignConstants DEF BatchInv, Typed, Sane, IsProgram, Drawn, Numbered

LEMMA DisagreeKeeps ==
  ASSUME BatchInv, NEW m \in Mutants, Disagree(m)
  PROVE  BatchInv'
  <1> USE DEF Idle
  <1> DEFINE new == Finding(Verdict(m), Drawn(m))
  <1>1. /\ phase = "drawing" /\ round' = NextRound /\ findings' = findings \cup {new}
        /\ Verdict(m) \notin {"dropped", "verified"}
        /\ UNCHANGED << phase, queue, answered, ran, exit, pool, verified, sink, laneFailure >>
    BY DEF Disagree, Ready
  <1>2. Known' = Known
    BY <1>1 DEF Known
  <1>3. round' \in Nat
    <2>1. round \in Nat /\ Rounds \in Nat \ {0}
      BY CampaignConstants DEF BatchInv, Typed
    <2>2. QED
      BY <1>1, <2>1 DEF NextRound
  <1>4. /\ new.kind = Verdict(m) /\ new.of = Drawn(m)
        /\ Guilty(Verdict(m), Drawn(m)) /\ Drawn(m) # NoProgram
    <2>1. m \in Sane /\ round \in Nat /\ Drawn(m) = Numbered(m, round)
      BY DrawnIs
    <2>2. Guilty(Verdict(m), Numbered(m, round)) /\ Numbered(m, round) \in Sane
      BY <1>1, <2>1, Verdicts, NumberedIs
    <2>3. QED
      BY <2>1, <2>2, SomeProgram DEF Finding
  <1> HIDE DEF new
  <1>5. Typed'
    BY <1>1, <1>2, <1>3 DEF BatchInv, Typed
  <1>6. InStep'
    BY <1>1 DEF BatchInv, InStep, Typed
  <1>7. NoneLost'
    BY <1>1 DEF BatchInv, NoneLost, Handed
  <1>8. Settled'
    BY <1>1, StillSettled DEF BatchInv, InStep
  <1>9. NothingMissed'
    BY <1>1 DEF BatchInv, Typed, InStep, NothingMissed
  <1>10. BlameIsRight'
    BY <1>1, <1>4 DEF BatchInv, BlameIsRight
  <1>11. QED
    BY <1>5, <1>6, <1>7, <1>8, <1>9, <1>10 DEF BatchInv

(* The pool, and the batch it becomes when it is full. *)
LEMMA KeepKeeps ==
  ASSUME BatchInv, NEW m \in Mutants, Keep(m)
  PROVE  BatchInv'
  <1> USE DEF Idle
  <1> DEFINE d == Drawn(m)
             full == Append(pool, d)
  <1>1. /\ phase = "drawing" /\ round' = NextRound /\ Verdict(m) = "verified"
        /\ pool' = full /\ verified' = verified \cup {d}
        /\ \/ phase' = "batch" /\ queue' = Chunks(full, BatchLimit)
           \/ phase' = phase /\ queue' = queue
        /\ UNCHANGED << findings, answered, ran, exit, sink, laneFailure >>
    BY DEF Keep, Ready
  <1>2. Known' = Known /\ Known \subseteq Sane
    BY <1>1 DEF Known
  <1>3. round' \in Nat
    <2>1. round \in Nat /\ Rounds \in Nat \ {0}
      BY CampaignConstants DEF BatchInv, Typed
    <2>2. QED
      BY <1>1, <2>1 DEF NextRound
  <1>4. d \in Known
    <2>1. m \in Sane /\ round \in Nat /\ d = Numbered(m, round)
      BY DrawnIs
    <2> DEFINE e == Numbered(m, round)
    <2>2. m.framed /\ e \in Sane /\ e.framed = m.framed
      BY <1>1, <2>1, Verdicts, NumberedIs
    <2> HIDE DEF e
    <2>3. e \in Known
      BY <2>2 DEF Known
    <2>4. QED
      BY <2>1, <2>3 DEF e
  <1>5. /\ pool \in Seq(Known) /\ queue = << >> /\ sink = "target" /\ verified \subseteq Known
        /\ queue \in Seq(Seq(Known))
    BY <1>1 DEF BatchInv, Typed, InStep
  <1> HIDE DEF d
  <1>6. /\ full \in Seq(Known) /\ Len(full) = Len(pool) + 1 /\ Len(pool) \in Nat
        /\ full[Len(pool) + 1] = d /\ \A i \in 1 .. Len(pool) : full[i] = pool[i]
    BY <1>4, <1>5
  <1> HIDE DEF full
  <1> DEFINE c == Chunks(full, BatchLimit)
  <1>7. /\ c \in Seq(Seq(Known))
        /\ \A k \in 1 .. Len(c) : c[k] # << >> /\ Fits(c[k])
        /\ \A j \in 1 .. Len(full) : InOneOf(full[j], c)
    <2>1. BatchLimit \in Nat /\ BatchLimit <= BatchLimit
      BY BatchConstants
    <2>2. QED
      BY <1>2, <1>6, <2>1, Chunked
  <1>8. \A p : p \in verified' /\ ~ Handed(p) => InChunk(p, full)
    <2>1. InChunk(d, full)
      <3>1. Len(pool) + 1 \in 1 .. Len(full)
        BY <1>6
      <3>2. QED
        BY <1>6, <3>1 DEF InChunk
    <2>2. ASSUME NEW p \in verified, ~ Handed(p) PROVE InChunk(p, full)
      <3>1. ~ InOneOf(p, queue)
        BY <1>5 DEF InOneOf
      <3>2. InChunk(p, pool)
        BY <2>2, <3>1 DEF BatchInv, NoneLost
      <3>3. PICK i \in 1 .. Len(pool) : pool[i] = p
        BY <3>2 DEF InChunk
      <3>4. i \in 1 .. Len(full) /\ full[i] = p
        BY <3>3, <1>6
      <3>5. QED
        BY <3>4 DEF InChunk
    <2>3. QED
      BY <1>1, <2>1, <2>2
  <1>9. \A p : InChunk(p, full) => InOneOf(p, c)
    BY <1>7 DEF InChunk
  <1> HIDE DEF c
  <1>10. /\ phase' \in {"batch", "drawing"} /\ queue' \in {c, queue}
         /\ phase' = "drawing" => queue' = queue
         /\ phase' = "batch" => queue' = c
    BY <1>1 DEF c
  <1>11. Typed'
    <2>1. /\ queue' \in Seq(Seq(Known))
          /\ \A k \in 1 .. Len(queue') : queue'[k] # << >> /\ Fits(queue'[k])
      BY <1>5, <1>7, <1>10 DEF BatchInv, Typed
    <2>2. verified' \subseteq Known /\ pool' \in Seq(Known)
      BY <1>1, <1>4, <1>5, <1>6
    <2>3. QED
      BY <1>1, <1>2, <1>3, <1>10, <2>1, <2>2 DEF BatchInv, Typed
  <1>12. InStep'
    BY <1>1, <1>5, <1>10 DEF BatchInv, InStep, Typed
  <1>13. NoneLost'
    <2>1. \A p : Handed(p) => Handed(p)'
      BY <1>1 DEF Handed
    <2>2. pool' = full
      BY <1>1
    <2>3. QED
      BY <1>8, <1>9, <1>10, <2>1, <2>2 DEF NoneLost
  <1>14. Settled'
    BY <1>1, <1>10, StillSettled DEF BatchInv, InStep
  <1>15. NothingMissed'
    BY <1>1, <1>5, <1>10 DEF BatchInv, Typed, InStep, NothingMissed
  <1>16. BlameIsRight'
    BY <1>1 DEF BatchInv, BlameIsRight
  <1>17. QED
    BY <1>11, <1>12, <1>13, <1>14, <1>15, <1>16 DEF BatchInv

LEMMA LastBatchKeeps ==
  ASSUME BatchInv, LastBatch
  PROVE  BatchInv'
  <1> USE DEF Idle
  <1> DEFINE c == Chunks(pool, BatchLimit)
  <1>1. /\ phase = "drawing" /\ phase' = "last batch" /\ queue' = c
        /\ UNCHANGED << findings, answered, ran, exit, round, pool, verified, sink, laneFailure >>
    BY DEF LastBatch, loopVars
  <1>2. Known' = Known /\ Known \subseteq Sane
    BY <1>1 DEF Known
  <1>3. pool \in Seq(Known) /\ queue = << >> /\ sink = "target"
    BY <1>1 DEF BatchInv, Typed, InStep
  <1>4. /\ c \in Seq(Seq(Known))
        /\ \A k \in 1 .. Len(c) : c[k] # << >> /\ Fits(c[k])
        /\ \A j \in 1 .. Len(pool) : InOneOf(pool[j], c)
    <2>1. BatchLimit \in Nat /\ BatchLimit <= BatchLimit
      BY BatchConstants
    <2>2. QED
      BY <1>2, <1>3, <2>1, Chunked
  <1> HIDE DEF c
  <1>5. Typed'
    BY <1>1, <1>2, <1>4 DEF BatchInv, Typed
  <1>6. InStep'
    BY <1>1, <1>3 DEF BatchInv, InStep, Typed
  <1>7. NoneLost'
    <2>1. ASSUME NEW p \in verified PROVE Handed(p) \/ InOneOf(p, c)
      <3>1. ~ InOneOf(p, queue)
        BY <1>3 DEF InOneOf
      <3>2. Handed(p) \/ InChunk(p, pool)
        BY <3>1 DEF BatchInv, NoneLost
      <3>3. InChunk(p, pool) => InOneOf(p, c)
        BY <1>4 DEF InChunk
      <3>4. QED
        BY <3>2, <3>3
    <2>2. \A p : Handed(p) => Handed(p)'
      BY <1>1 DEF Handed
    <2>3. QED
      BY <1>1, <2>1, <2>2 DEF NoneLost
  <1>8. Settled'
    BY <1>1, StillSettled DEF BatchInv, InStep
  <1>9. NothingMissed'
    BY <1>1, <1>3 DEF BatchInv, Typed, InStep, NothingMissed
  <1>10. BlameIsRight'
    BY <1>1 DEF BatchInv, BlameIsRight
  <1>11. QED
    BY <1>5, <1>6, <1>7, <1>8, <1>9, <1>10 DEF BatchInv

LEMMA EndBatchKeeps ==
  ASSUME BatchInv, EndBatch
  PROVE  BatchInv'
  <1> USE DEF Idle
  <1>1. /\ phase = "batch" /\ phase' = "drawing" /\ queue = << >> /\ pool' = << >>
        /\ UNCHANGED << queue, findings, answered, ran, exit, round, verified, sink >>
    BY DEF EndBatch, sinkVars
  <1>2. Known' = Known
    BY <1>1 DEF Known
  <1>3. exit \notin {"clean", "findings", "stopped"} /\ sink = "target"
    BY <1>1 DEF BatchInv, InStep
  <1>4. Typed'
    BY <1>1, <1>2 DEF BatchInv, Typed
  <1>5. InStep'
    BY <1>1, <1>3 DEF BatchInv, InStep, Typed
  <1>6. NoneLost'
    BY <1>1 DEF BatchInv, NoneLost, Handed
  <1>7. Settled'
    BY <1>1, <1>3, StillSettled DEF BatchInv
  <1>8. NothingMissed'
    BY <1>1, <1>3 DEF BatchInv, Typed, InStep, NothingMissed
  <1>9. BlameIsRight'
    BY <1>1 DEF BatchInv, BlameIsRight
  <1>10. QED
    BY <1>4, <1>5, <1>6, <1>7, <1>8, <1>9 DEF BatchInv

LEMMA ReportKeeps ==
  ASSUME BatchInv, Report
  PROVE  BatchInv'
  <1> USE DEF Idle
  <1>1. /\ \/ phase = "drawing" /\ pool = << >>
           \/ phase = "last batch" /\ queue = << >>
        /\ phase' = "over"
        /\ exit' = IF findings = {} /\ ~ laneFailure THEN "clean" ELSE "findings"
        /\ UNCHANGED << queue, findings, answered, ran, round, pool, verified, sink, laneFailure >>
    BY DEF Report, loopVars
  <1>2. Known' = Known
    BY <1>1 DEF Known
  <1>3. exit \notin {"clean", "findings", "stopped"} /\ sink = "target" /\ queue = << >>
    BY <1>1 DEF BatchInv, InStep
  <1>4. Typed'
    BY <1>1, <1>2 DEF BatchInv, Typed
  <1>5. InStep'
    BY <1>1, <1>3 DEF BatchInv, InStep, Typed
  <1>6. NoneLost'
    <2>1. \A p : ~ InChunk(p, << >>)
      BY DEF InChunk
    <2>2. QED
      BY <1>1, <2>1 DEF BatchInv, NoneLost, Handed
  <1>7. Settled'
    BY <1>1, <1>3, StillSettled DEF BatchInv
  <1>8. NothingMissed'
    BY <1>1, <1>3 DEF BatchInv, Typed, InStep, NothingMissed
  <1>9. BlameIsRight'
    BY <1>1 DEF BatchInv, BlameIsRight
  <1>10. QED
    BY <1>4, <1>5, <1>6, <1>7, <1>8, <1>9 DEF BatchInv

LEMMA InterruptKeeps ==
  ASSUME BatchInv, Interrupt
  PROVE  BatchInv'
  <1> USE DEF Idle
  <1>1. /\ exit = "running"
        /\ \/ phase = "calibrating" /\ phase' = "over" /\ exit' = "killed"
           \/ /\ phase \in {"drawing", "batch", "last batch"} /\ phase' = phase /\ exit' = exit
        /\ UNCHANGED << queue, findings, answered, ran, round, pool, verified, sink, laneFailure >>
    BY DEF Interrupt, loopVars
  <1>2. Known' = Known
    BY <1>1 DEF Known
  <1>3. Typed'
    BY <1>1, <1>2 DEF BatchInv, Typed
  <1>4. InStep'
    BY <1>1 DEF BatchInv, InStep, Typed
  <1>5. NoneLost'
    BY <1>1 DEF BatchInv, NoneLost, Handed
  <1>6. Settled'
    BY <1>1, StillSettled DEF BatchInv
  <1>7. NothingMissed'
    BY <1>1 DEF BatchInv, Typed, InStep, NothingMissed
  <1>8. BlameIsRight'
    BY <1>1 DEF BatchInv, BlameIsRight
  <1>9. QED
    BY <1>3, <1>4, <1>5, <1>6, <1>7, <1>8 DEF BatchInv

-----------------------------------------------------------------------------
(* The three sinks of a campaign. *)

(* The batch at the head of the queue, and those behind it. *)
LEMMA FirstBatch ==
  ASSUME BatchInv, queue # << >>
  PROVE  LET b == Head(queue)
             rest == Tail(queue)
         IN  /\ b = queue[1] /\ b \in Seq(Known) /\ b \in Seq(Sane) /\ Len(b) \in Nat
             /\ b # << >> /\ Fits(b)
             /\ ~ Idle => \A i \in 1 .. Len(b) : b[i].framed
             /\ Len(queue) \in Nat /\ Len(queue) >= 1 /\ queue \in Seq(Seq(Known))
             /\ rest \in Seq(Seq(Known)) /\ Len(rest) = Len(queue) - 1
             /\ \A k \in 1 .. Len(rest) : rest[k] = queue[k + 1] /\ rest[k] # << >> /\ Fits(rest[k])
  <1> DEFINE W == Seq(Known)
             b == Head(queue)
             rest == Tail(queue)
  <1>1. queue \in Seq(W) /\ \A k \in 1 .. Len(queue) : queue[k] # << >> /\ Fits(queue[k])
    BY DEF BatchInv, Typed
  <1> HIDE DEF W
  <1>2. /\ b = queue[1] /\ Len(queue) \in Nat /\ Len(queue) >= 1 /\ b \in W
        /\ rest \in Seq(W) /\ Len(rest) = Len(queue) - 1
        /\ \A k \in 1 .. Len(rest) : rest[k] = queue[k + 1]
    BY <1>1
  <1>3. 1 \in 1 .. Len(queue) /\ \A k \in 1 .. Len(rest) : k + 1 \in 1 .. Len(queue)
    BY <1>2
  <1> HIDE DEF b, rest
  <1>4. b # << >> /\ Fits(b)
    BY <1>1, <1>2, <1>3
  <1>5. \A k \in 1 .. Len(rest) : rest[k] # << >> /\ Fits(rest[k])
    BY <1>1, <1>2, <1>3
  <1>6. b \in Seq(Known)
    BY <1>2 DEF W
  <1>7. b \in Seq(Sane) /\ Len(b) \in Nat /\ (~ Idle => \A i \in 1 .. Len(b) : b[i].framed)
    BY <1>6 DEF Known
  <1>8. QED
    BY <1>1, <1>2, <1>4, <1>5, <1>6, <1>7 DEF b, rest, W

LEMMA FindingIs ==
  ASSUME NEW kind, NEW p
  PROVE  Finding(kind, p).kind = kind /\ Finding(kind, p).of = p
  BY DEF Finding

(* The answers of a batch are compared, or its first program without one hangs. *)
LEMMA RunTargetKeeps ==
  ASSUME BatchInv, RunTarget
  PROVE  BatchInv'
  <1> USE DEF Idle
  <1> DEFINE b == Head(queue)
             N == Len(b)
  <1>1. /\ phase \in {"batch", "last batch"} /\ queue # << >> /\ sink = "target"
        /\ sink' \in {"debug", "host"} /\ ran' = ran \cup {b}
        /\ UNCHANGED << queue, exit, phase, round, pool, verified, laneFailure >>
    BY DEF RunTarget, AtSink, Feeding, loopVars, Part
  <1>2. /\ b \in Seq(Known) /\ b \in Seq(Sane) /\ N \in Nat /\ b # << >> /\ Fits(b)
        /\ \A i \in 1 .. N : b[i].framed
    BY <1>1, FirstBatch
  <1> DEFINE wrong(run) == { i \in 1 .. N : /\ Comparable(run.results[i])
                                            /\ ~ Agrees(run.results[i], b[i].vm) }
  <1>3. PICK run \in Outcome("answer", b) :
          IF run.timedOut \/ Len(run.results) # N
          THEN /\ findings' = findings \cup
                    {Finding(IF run.timedOut THEN "HANG" ELSE "BATCH STOPPED",
                             Nth(b, Len(run.results) + 1))}
               /\ answered' = answered
          ELSE /\ findings' = findings \cup { Finding("JIT", b[i]) : i \in wrong(run) }
               /\ answered' = answered \cup { b[i] : i \in (1 .. N) \ wrong(run) }
    BY DEF RunTarget, Part, Indices
  <1> HIDE DEF b
  <1>4. AllAnswered(b, run) \/ \E n \in 1 .. N : HangsAt(b, run, n)
    BY <1>2, AnswersHeard DEF BreaksOffAt
  <1>5. ASSUME NEW i \in 1 .. N PROVE b[i] \in Sane /\ b[i] # NoProgram
    BY <1>2, SomeProgram
  (* What is reported is right, and the batch is settled. *)
  <1>6. /\ findings \subseteq findings' /\ answered \subseteq answered'
        /\ \A f \in findings' \ findings : f.of # NoProgram /\ Guilty(f.kind, f.of)
        /\ \/ \A i \in 1 .. N : Compared(b[i])'
           \/ \E h \in 1 .. N : Finding("HANG", b[h]) \in findings'
        /\ findings' = {} => \A i \in 1 .. N : TargetRight(b[i])
    <2>1. CASE AllAnswered(b, run)
      <3>1. ~ run.timedOut /\ Len(run.results) = N
            /\ \A i \in 1 .. N : run.results[i] = b[i].target /\ b[i].target.tag \in {"R", "T", "E"}
        BY <2>1 DEF AllAnswered, Answered
      <3>2. /\ findings' = findings \cup { Finding("JIT", b[i]) : i \in wrong(run) }
            /\ answered' = answered \cup { b[i] : i \in (1 .. N) \ wrong(run) }
        BY <1>3, <3>1
      <3>3. ASSUME NEW i \in wrong(run)
            PROVE  /\ i \in 1 .. N /\ Guilty("JIT", b[i]) /\ Finding("JIT", b[i]) \in findings'
        BY <3>1, <3>2, WrongAnswer
      <3>4. ASSUME NEW i \in 1 .. N, i \notin wrong(run) PROVE TargetRight(b[i]) /\ b[i] \in answered'
        <4>1. b[i] \in answered'
          BY <3>2, <3>4
        <4>2. ~ (Comparable(b[i].target) /\ ~ Agrees(b[i].target, b[i].vm))
          BY <3>1, <3>4
        <4>3. b[i] \in Sane /\ b[i].target.tag \in {"R", "T", "E"}
          BY <3>1, <1>5
        <4> DEFINE p == b[i]
        <4> HIDE DEF p
        <4>4. p \in Sane /\ p.target.tag \in {"R", "T", "E"}
              /\ ~ (Comparable(p.target) /\ ~ Agrees(p.target, p.vm))
          BY <4>2, <4>3 DEF p
        <4>5. TargetRight(p)
          BY <4>4, RightAnswer
        <4>6. QED
          BY <4>1, <4>5 DEF p
      <3> DEFINE w == wrong(run)
      <3> HIDE DEF w, wrong
      <3>5. \A f \in findings' \ findings : f.of # NoProgram /\ Guilty(f.kind, f.of)
        <4>1. ASSUME NEW f \in findings' \ findings PROVE f.of # NoProgram /\ Guilty(f.kind, f.of)
          <5>1. PICK i \in w : f = Finding("JIT", b[i])
            BY <3>2 DEF w
          <5>2. i \in 1 .. N /\ Guilty("JIT", b[i])
            BY <3>3 DEF w
          <5>3. f.kind = "JIT" /\ f.of = b[i]
            BY <5>1, FindingIs
          <5>4. QED
            BY <5>2, <5>3, <1>5
        <4>2. QED
          BY <4>1
      <3>6. ASSUME NEW i \in 1 .. N PROVE Compared(b[i])'
        <4>1. CASE i \in wrong(run)
          <5>1. Finding("JIT", b[i]) \in findings' /\ Finding("JIT", b[i]).of = b[i]
            BY <3>3, <4>1, FindingIs
          <5>2. QED
            BY <5>1, <1>1 DEF Compared, b
        <4>2. CASE i \notin wrong(run)
          BY <3>4, <4>2, <1>1 DEF Compared, b
        <4>3. QED
          BY <4>1, <4>2
      <3>7. findings' = {} => \A i \in 1 .. N : TargetRight(b[i])
        BY <3>3, <3>4
      <3>8. QED
        BY <3>2, <3>5, <3>6, <3>7
    <2>2. ASSUME NEW n \in 1 .. N, HangsAt(b, run, n)
          PROVE  /\ findings' = findings \cup {Finding("HANG", b[n])} /\ answered' = answered
                 /\ Guilty("HANG", b[n])
      <3>1. /\ run.timedOut /\ Len(run.results) + 1 = n /\ b[n].target.tag = "spins"
        <4>1. (n - 1) + 1 = n
          BY <1>2
        <4>2. QED
          BY <4>1, <2>2 DEF HangsAt
      <3>2. Nth(b, n) = b[n]
        BY DEF Nth
      <3>3. Guilty("HANG", b[n])
        BY <3>1 DEF Guilty
      <3>4. QED
        BY <1>3, <3>1, <3>2, <3>3
    <2>3. CASE \E n \in 1 .. N : HangsAt(b, run, n)
      <3>1. PICK n \in 1 .. N : HangsAt(b, run, n)
        BY <2>3
      <3>2. /\ findings' = findings \cup {Finding("HANG", b[n])} /\ answered' = answered
            /\ Guilty("HANG", b[n])
        BY <2>2, <3>1
      <3>3. Finding("HANG", b[n]).kind = "HANG" /\ Finding("HANG", b[n]).of = b[n]
        BY FindingIs
      <3>4. QED
        BY <3>2, <3>3, <1>5
    <2>4. QED
      BY <1>4, <2>1, <2>3
  <1>7. b' = b
    BY <1>1 DEF b
  <1>8. Known' = Known
    BY <1>1 DEF Known
  <1>9. Typed'
    BY <1>1, <1>2, <1>8 DEF BatchInv, Typed
  <1>10. InStep'
    <2>1. Head(queue') \in ran'
      BY <1>1 DEF b
    <2>2. exit \notin {"clean", "findings", "stopped"}
      BY <1>1 DEF BatchInv, InStep
    <2>3. QED
      BY <1>1, <2>1, <2>2 DEF InStep
  <1>11. NoneLost'
    BY <1>1 DEF BatchInv, NoneLost, Handed
  <1>12. Settled'
    <2>1. ASSUME NEW a \in ran, NEW i \in 1 .. Len(a) PROVE SettledAt(a, i)'
      <3>1. exit # "stopped"
        BY <1>1 DEF BatchInv, InStep
      <3>2. SettledAt(a, i)
        BY <2>1, <3>1 DEF BatchInv, Settled
      <3>3. QED
        BY <3>2, <1>1, <1>6 DEF SettledAt, Compared, HungAt
    <2>2. ASSUME NEW i \in 1 .. N PROVE SettledAt(b, i)'
      <3>1. CASE Compared(b[i])'
        BY <3>1, <1>7 DEF SettledAt, Compared
      <3>2. CASE \E h \in 1 .. N : Finding("HANG", b[h]) \in findings'
        BY <3>2, <1>1, <1>7 DEF SettledAt, HungAt
      <3>3. QED
        BY <1>6, <3>1, <3>2
    <2>3. \A a \in ran' : a \in ran \/ a = b
      BY <1>1
    <2>4. \A a \in ran' : \A i \in 1 .. Len(a) : SettledAt(a, i)'
      BY <2>1, <2>2, <2>3, <1>7
    <2>5. QED
      BY <2>4 DEF Settled
  <1>13. NothingMissed'
    <2>1. SUFFICES ASSUME findings' = {}, NEW a \in ran', NEW i \in 1 .. Len(a)
                   PROVE TargetRight(a[i]) /\ (~ a[i].crashes \/ a = b)
      BY <1>1 DEF NothingMissed, b
    <2>2. findings = {} /\ exit # "stopped"
      BY <1>1, <1>6, <2>1 DEF BatchInv, InStep
    <2>3. CASE a = b
      BY <1>6, <2>1, <2>3
    <2>4. CASE a \in ran
      BY <2>1, <2>2, <2>4, <1>1 DEF BatchInv, NothingMissed
    <2>5. QED
      BY <1>1, <2>1, <2>3, <2>4
  <1>14. BlameIsRight'
    BY <1>6 DEF BatchInv, BlameIsRight
  <1>15. QED
    BY <1>9, <1>10, <1>11, <1>12, <1>13, <1>14 DEF BatchInv

(* The line of a firing assertion stands where its program does. *)
LEMMA RunTargetDbgKeeps ==
  ASSUME BatchInv, RunTargetDbg
  PROVE  BatchInv'
  <1> USE DEF Idle
  <1> DEFINE b == Head(queue)
             N == Len(b)
  <1>1. /\ phase \in {"batch", "last batch"} /\ queue # << >> /\ sink = "debug"
        /\ sink' = "host"
        /\ UNCHANGED << queue, exit, phase, round, pool, verified, laneFailure, ran, answered >>
    BY DEF RunTargetDbg, AtSink, Feeding, loopVars, Part
  <1>2. /\ b \in Seq(Known) /\ b \in Seq(Sane) /\ N \in Nat /\ b # << >> /\ Fits(b)
    BY <1>1, FirstBatch
  <1>3. PICK run \in Outcome("debug", b) :
          findings' = findings \cup
            (IF run.timedOut THEN {Finding("DBG HANG", Nth(b, Len(run.results) + 1))}
             ELSE { Finding("TARGET ASSERT", Nth(b, i)) :
                      i \in { k \in 1 .. Len(run.results) : run.results[k].tag = "A" } })
    BY DEF RunTargetDbg, Part, Indices
  <1> HIDE DEF b
  <1>4. /\ run.timedOut => \E n \in 1 .. N : HangsAt(b, run, n)
        /\ \A i \in 1 .. Len(run.results) :
             run.results[i].tag = "A" => i \in 1 .. N /\ b[i].asserts
    BY <1>2, AssertionsHeard
  <1>5. ASSUME NEW i \in 1 .. N PROVE b[i] \in Sane /\ b[i] # NoProgram /\ Nth(b, i) = b[i]
    BY <1>2, SomeProgram DEF Nth
  <1>6. ASSUME NEW f \in findings' \ findings PROVE f.of # NoProgram /\ Guilty(f.kind, f.of)
    <2>1. CASE run.timedOut
      <3>1. PICK n \in 1 .. N : HangsAt(b, run, n)
        BY <1>4, <2>1
      <3>2. Len(run.results) + 1 = n /\ b[n].target.tag = "spins"
        <4>1. (n - 1) + 1 = n
          BY <1>2
        <4>2. QED
          BY <4>1, <3>1 DEF HangsAt
      <3>3. f = Finding("DBG HANG", b[n])
        BY <1>3, <1>5, <1>6, <2>1, <3>2
      <3>4. f.kind = "DBG HANG" /\ f.of = b[n]
        BY <3>3, FindingIs
      <3>5. QED
        BY <3>2, <3>4, <1>5 DEF Guilty
    <2>2. CASE ~ run.timedOut
      <3>1. PICK i \in { k \in 1 .. Len(run.results) : run.results[k].tag = "A" } :
              f = Finding("TARGET ASSERT", Nth(b, i))
        BY <1>3, <1>6, <2>2
      <3>2. i \in 1 .. N /\ b[i].asserts
        BY <3>1, <1>4
      <3>3. f.kind = "TARGET ASSERT" /\ f.of = b[i]
        <4>1. Nth(b, i) = b[i]
          BY <3>2, <1>5
        <4>2. f = Finding("TARGET ASSERT", Nth(b, i))
          BY <3>1
        <4>3. QED
          BY <4>1, <4>2, FindingIs
      <3>4. QED
        BY <3>2, <3>3, <1>5 DEF Guilty
    <2>3. QED
      BY <2>1, <2>2
  <1>7. findings \subseteq findings'
    BY <1>3
  <1>8. Known' = Known
    BY <1>1 DEF Known
  <1>9. Typed'
    BY <1>1, <1>8 DEF BatchInv, Typed
  <1>10. exit \notin {"clean", "findings", "stopped"}
    BY <1>1 DEF BatchInv, InStep
  <1>11. InStep'
    BY <1>1, <1>10 DEF BatchInv, InStep
  <1>12. NoneLost'
    BY <1>1 DEF BatchInv, NoneLost, Handed
  <1>13. Settled'
    BY <1>1, <1>7, <1>10, StillSettled DEF BatchInv
  <1>14. NothingMissed'
    <2>1. findings' = {} => findings = {}
      BY <1>7
    <2>2. QED
      BY <1>1, <2>1 DEF BatchInv, NothingMissed
  <1>15. BlameIsRight'
    BY <1>6 DEF BatchInv, BlameIsRight
  <1>16. QED
    BY <1>9, <1>11, <1>12, <1>13, <1>14, <1>15 DEF BatchInv

(* The batch leaves the queue, and has been handed over. *)
LEMMA RunHostKeeps ==
  ASSUME BatchInv, RunHost
  PROVE  BatchInv'
  <1> USE DEF Idle
  <1> DEFINE b == Head(queue)
             N == Len(b)
             rest == Tail(queue)
  <1>1. /\ phase \in {"batch", "last batch"} /\ queue # << >> /\ sink = "host"
        /\ sink' = "target" /\ queue' = rest
        /\ findings' = findings \cup
             (IF HostCrashes(b) THEN {Finding("CRASH", Bisect(b))} ELSE {})
        /\ UNCHANGED << exit, phase, round, pool, verified, laneFailure, ran, answered >>
    BY DEF RunHost, AtSink, Feeding, loopVars, Part
  <1>2. /\ b = queue[1] /\ b \in Seq(Sane) /\ N \in Nat
        /\ Len(queue) \in Nat /\ Len(queue) >= 1 /\ rest \in Seq(Seq(Known))
        /\ Len(rest) = Len(queue) - 1
        /\ \A k \in 1 .. Len(rest) : rest[k] = queue[k + 1] /\ rest[k] # << >> /\ Fits(rest[k])
    BY <1>1, FirstBatch
  <1>3. b \in ran /\ exit \notin {"clean", "findings", "stopped"}
    BY <1>1 DEF BatchInv, InStep
  <1> HIDE DEF b, rest
  <1>4. ASSUME NEW f \in findings' \ findings PROVE f.of # NoProgram /\ Guilty(f.kind, f.of)
    <2>1. HostCrashes(b) /\ f = Finding("CRASH", Bisect(b))
      BY <1>1, <1>4
    <2>2. Bisect(b) \in Sane /\ Bisect(b).crashes
      BY <1>2, <2>1, Bisected
    <2>3. f.kind = "CRASH" /\ f.of = Bisect(b)
      BY <2>1, FindingIs
    <2>4. QED
      BY <2>2, <2>3, SomeProgram DEF Guilty
  <1>5. findings \subseteq findings' /\ (findings' = {} => findings = {} /\ ~ HostCrashes(b))
    BY <1>1
  <1>6. Known' = Known
    BY <1>1 DEF Known
  <1>7. Typed'
    BY <1>1, <1>2, <1>6 DEF BatchInv, Typed
  <1>8. InStep'
    BY <1>1, <1>3 DEF BatchInv, InStep
  <1>9. NoneLost'
    <2>1. ASSUME NEW p, InOneOf(p, queue) PROVE InOneOf(p, rest) \/ InChunk(p, b)
      <3>1. PICK k \in 1 .. Len(queue) : \E i \in 1 .. Len(queue[k]) : queue[k][i] = p
        BY <2>1 DEF InOneOf
      <3>2. CASE k = 1
        BY <3>1, <3>2, <1>2 DEF InChunk
      <3>3. CASE k # 1
        <4>1. k - 1 \in 1 .. Len(rest) /\ (k - 1) + 1 = k
          BY <3>3, <1>2
        <4>2. rest[k - 1] = queue[(k - 1) + 1]
          BY <4>1, <1>2
        <4>3. rest[k - 1] = queue[k]
          BY ONLY <4>1, <4>2
        <4>4. QED
          BY <3>1, <4>1, <4>3 DEF InOneOf
      <3>4. QED
        BY <3>2, <3>3
    <2>2. \A p : InChunk(p, b) => Handed(p)
      BY <1>3 DEF Handed
    <2>3. \A p : Handed(p) => Handed(p)'
      BY <1>1 DEF Handed
    <2>4. QED
      BY <1>1, <2>1, <2>2, <2>3 DEF BatchInv, NoneLost
  <1>10. Settled'
    BY <1>1, <1>3, <1>5, StillSettled DEF BatchInv
  <1>11. NothingMissed'
    <2>1. SUFFICES ASSUME findings' = {}, NEW a \in ran, NEW i \in 1 .. Len(a)
                   PROVE TargetRight(a[i]) /\ ~ a[i].crashes
      BY <1>1 DEF NothingMissed
    <2>2. TargetRight(a[i]) /\ (~ a[i].crashes \/ a = b)
      BY <1>1, <1>3, <1>5, <2>1 DEF BatchInv, NothingMissed, b
    <2>3. a = b => ~ a[i].crashes
      BY <1>5, <2>1 DEF HostCrashes
    <2>4. QED
      BY <2>2, <2>3
  <1>12. BlameIsRight'
    BY <1>4 DEF BatchInv, BlameIsRight
  <1>13. QED
    BY <1>7, <1>8, <1>9, <1>10, <1>11, <1>12 DEF BatchInv

-----------------------------------------------------------------------------
(* The sweep. *)

LEMMA BehindBehind ==
  ASSUME NEW T, NEW a \in Seq(T), NEW b \in Seq(T), NEW q \in Seq(T), NEW m \in Nat, NEW n \in Nat,
         IsBehind(b, a, m), IsBehind(q, b, n)
  PROVE  IsBehind(q, a, m + n)
  <1>1. /\ Len(a) \in Nat /\ Len(b) \in Nat /\ Len(q) \in Nat
        /\ Len(b) = Len(a) - m /\ Len(q) = Len(b) - n
        /\ \A j \in 1 .. Len(b) : b[j] = a[m + j]
        /\ \A j \in 1 .. Len(q) : q[j] = b[n + j]
    BY DEF IsBehind
  <1>2. Len(q) = Len(a) - (m + n)
    BY <1>1
  <1>3. ASSUME NEW j \in 1 .. Len(q) PROVE q[j] = a[(m + n) + j]
    <2>1. n + j \in 1 .. Len(b) /\ m + (n + j) = (m + n) + j
      BY <1>1
    <2>2. b[n + j] = a[m + (n + j)] /\ q[j] = b[n + j]
      BY <1>1, <2>1
    <2>3. QED
      BY ONLY <2>1, <2>2
  <1>4. QED
    BY <1>2, <1>3 DEF IsBehind

(* What has become of a tail has become of the programs of the batch it is the
   tail of. *)
LEMMA SettledBehind ==
  ASSUME NEW T, NEW a \in Seq(T), NEW b \in Seq(T), NEW m \in Nat, IsBehind(b, a, m),
         NEW j \in 1 .. Len(b), SettledAt(b, j)', Idle', queue' \in Seq(Seq(T))
  PROVE  SettledAt(a, m + j)'
  <1>1. /\ Len(a) \in Nat /\ Len(b) \in Nat /\ Len(b) = Len(a) - m
        /\ \A k \in 1 .. Len(b) : b[k] = a[m + k]
    BY DEF IsBehind
  <1>2. m + j \in 1 .. Len(a) /\ b[j] = a[m + j]
    BY <1>1
  <1>3. CASE Compared(b[j])'
    BY <1>2, <1>3 DEF SettledAt, Compared
  <1>4. CASE \E h \in HungAt(b)' : j < h
    <2>1. PICK h \in 1 .. Len(b) : Finding("HANG", b[h]) \in findings' /\ j < h
      BY <1>4 DEF HungAt
    <2>2. m + h \in 1 .. Len(a) /\ b[h] = a[m + h] /\ m + j < m + h
      BY <1>1, <2>1
    <2>3. Finding("HANG", a[m + h]) \in findings'
      BY <2>1, <2>2
    <2>4. m + h \in HungAt(a)'
      BY <2>2, <2>3 DEF HungAt
    <2>5. QED
      BY <2>2, <2>4 DEF SettledAt
  <1>5. CASE Waits(b, j)'
    <2>1. PICK k \in 1 .. Len(queue'), n \in 0 .. j - 1 : IsBehind(queue'[k], b, n)
      BY <1>5 DEF Waits
    <2> DEFINE q == queue'[k]
    <2>2. q \in Seq(T)
      <3> DEFINE W == Seq(T)
      <3>1. queue' \in Seq(W)
        OBVIOUS
      <3> HIDE DEF W
      <3>2. q \in W
        BY <2>1, <3>1
      <3>3. QED
        BY <3>2 DEF W
    <2> HIDE DEF q
    <2>3. n \in Nat /\ IsBehind(q, b, n)
      BY <2>1 DEF q
    <2>4. IsBehind(q, a, m + n)
      BY <2>2, <2>3, BehindBehind
    <2>5. m + n \in 0 .. (m + j) - 1
      BY <1>1, <2>1
    <2>6. Waits(a, m + j)'
      BY <2>1, <2>4, <2>5 DEF Waits, q
    <2>7. QED
      BY <2>6 DEF SettledAt
  <1>6. QED
    BY <1>3, <1>4, <1>5 DEF SettledAt

(* The batches a sweep has run stay settled: those it settled already, and
   those of which the current batch is the tail. *)
LEMMA SweepSettles ==
  ASSUME BatchInv, Idle, Idle', exit = "running", queue # << >>,
         findings \subseteq findings', answered \subseteq answered',
         NEW b, b = Head(queue), NEW rest, rest = Tail(queue),
         ran' = ran \cup {b}, queue' \in Seq(Seq(Known)),
         \A k \in 1 .. Len(rest) : \E n \in 1 .. Len(queue') : queue'[n] = rest[k],
         \A j \in 1 .. Len(b) : SettledAt(b, j)'
  PROVE  Settled'
  <1>1. /\ b = queue[1] /\ b \in Seq(Known) /\ Len(b) \in Nat /\ Len(queue) \in Nat /\ Len(queue) >= 1
        /\ Len(rest) = Len(queue) - 1 /\ \A k \in 1 .. Len(rest) : rest[k] = queue[k + 1]
    BY FirstBatch
  <1>2. ran \subseteq Seq(Known)
    BY DEF BatchInv, Typed
  <1>3. ASSUME NEW a \in ran, NEW i \in 1 .. Len(a) PROVE SettledAt(a, i)'
    <2>1. SettledAt(a, i)
      BY <1>3 DEF BatchInv, Settled
    <2>2. a \in Seq(Known) /\ Len(a) \in Nat
      BY <1>2, <1>3
    <2>3. CASE Compared(a[i])
      BY <2>3 DEF SettledAt, Compared
    <2>4. CASE \E h \in HungAt(a) : i < h
      BY <2>4 DEF SettledAt, HungAt
    <2>5. CASE Waits(a, i)
      <3>1. PICK k \in 1 .. Len(queue), m \in 0 .. i - 1 : IsBehind(queue[k], a, m)
        BY <2>5 DEF Waits
      <3>2. CASE k = 1
        <4>1. IsBehind(b, a, m) /\ m \in Nat
          BY <3>1, <3>2, <1>1
        <4>2. i - m \in 1 .. Len(b) /\ m + (i - m) = i
          BY <4>1, <2>2, <3>1, <1>1 DEF IsBehind
        <4>3. SettledAt(b, i - m)'
          BY <4>2
        <4> DEFINE j == i - m
        <4> HIDE DEF j
        <4>4. j \in 1 .. Len(b) /\ SettledAt(b, j)' /\ m + j = i
          BY <4>2, <4>3 DEF j
        <4>5. SettledAt(a, m + j)'
          BY <4>1, <4>4, <2>2, <1>1, SettledBehind
        <4>6. QED
          BY <4>4, <4>5
      <3>3. CASE k # 1
        <4>1. k - 1 \in 1 .. Len(rest) /\ (k - 1) + 1 = k
          BY <3>3, <1>1
        <4>2. rest[k - 1] = queue[(k - 1) + 1]
          BY <4>1, <1>1
        <4>3. rest[k - 1] = queue[k]
          BY ONLY <4>1, <4>2
        <4>4. PICK n \in 1 .. Len(queue') : queue'[n] = queue[k]
          BY <4>1, <4>3
        <4>5. Waits(a, i)'
          BY <3>1, <4>4 DEF Waits
        <4>6. QED
          BY <4>5 DEF SettledAt
      <3>4. QED
        BY <3>2, <3>3
    <2>6. QED
      BY <2>1, <2>3, <2>4, <2>5 DEF SettledAt
  <1>4. QED
    BY <1>3 DEF Settled

(* The program that hangs is named, and what stands behind it waits. *)
LEMMA StepOverKeeps ==
  ASSUME BatchInv, Idle, StepOver, UNCHANGED campaignVars
  PROVE  BatchInv'
  <1>0. PICK b, rest : b = Head(queue) /\ rest = Tail(queue)
    OBVIOUS
  <1> DEFINE N == Len(b)
  <1>1. /\ queue # << >> /\ exit = "running" /\ ran' = ran \cup {b}
        /\ UNCHANGED << answered, exit, phase, round, pool, verified, sink, laneFailure >>
    BY <1>0 DEF StepOver, Sweeping, Current, campaignVars, loopVars
  <1>2. /\ b \in Seq(Known) /\ b \in Seq(Sane) /\ N \in Nat /\ b # << >> /\ Fits(b)
        /\ rest \in Seq(Seq(Known)) /\ Len(rest) \in Nat
        /\ \A k \in 1 .. Len(rest) : rest[k] # << >> /\ Fits(rest[k])
    BY <1>0, <1>1, FirstBatch
  <1>3. PICK run \in Outcome("answer", b) :
          /\ run.timedOut
          /\ findings' = findings \cup {Finding("HANG", Nth(b, Len(run.results) + 1))}
          /\ queue' = rest \o IF Behind(b, Len(run.results)) = << >> THEN << >>
                              ELSE << Behind(b, Len(run.results)) >>
    BY <1>0 DEF StepOver, Current
  <1>4. PICK n \in 1 .. N : HangsAt(b, run, n)
    BY <1>2, <1>3, AnswersHeard DEF AllAnswered, BreaksOffAt
  <1>5. Len(run.results) = n - 1 /\ (n - 1) + 1 = n /\ (n - 1) + 2 = n + 1 /\ b[n].target.tag = "spins"
    BY <1>2, <1>4 DEF HangsAt
  <1> DEFINE tail == SubSeq(b, n + 1, N)
             more == IF tail = << >> THEN << >> ELSE << tail >>
  <1>6. /\ findings' = findings \cup {Finding("HANG", b[n])} /\ queue' = rest \o more
    <2>1. Behind(b, Len(run.results)) = tail
      BY <1>5 DEF Behind
    <2>2. Nth(b, Len(run.results) + 1) = b[n]
      BY <1>5 DEF Nth
    <2> HIDE DEF tail
    <2>3. QED
      BY <1>3, <2>1, <2>2
  <1>7. /\ tail \in Seq(Known) /\ Fits(tail) /\ Len(tail) = N - n
        /\ \A j \in 1 .. Len(tail) : tail[j] = b[n + j]
    <2>1. n \in 0 .. N
      BY <1>2
    <2>2. Fits(tail)
      BY <1>2, <2>1, SuffixFits
    <2>3. QED
      BY <1>2, <2>2
  <1>8. IsBehind(tail, b, n)
    BY <1>7 DEF IsBehind
  <1> HIDE DEF tail
  <1>9. /\ queue' \in Seq(Seq(Known))
        /\ \A k \in 1 .. Len(rest) : k \in 1 .. Len(queue') /\ queue'[k] = rest[k]
        /\ tail # << >> => Len(rest) + 1 \in 1 .. Len(queue') /\ queue'[Len(rest) + 1] = tail
        /\ \A k \in 1 .. Len(queue') : queue'[k] # << >> /\ Fits(queue'[k])
    <2> DEFINE W == Seq(Known)
    <2>1. rest \in Seq(W) /\ tail \in W /\ Len(rest) \in Nat
      BY <1>2, <1>7
    <2>2. CASE tail = << >>
      <3>1. queue' = rest
        BY <1>6, <2>1, <2>2
      <3>2. QED
        BY <3>1, <2>1, <2>2, <1>2
    <2>3. CASE tail # << >>
      <3> HIDE DEF W
      <3>1. queue' = rest \o << tail >>
        BY <1>6, <2>3
      <3>2. /\ queue' \in Seq(W) /\ Len(queue') = Len(rest) + 1
            /\ \A k \in 1 .. Len(rest) : queue'[k] = rest[k]
            /\ queue'[Len(rest) + 1] = tail
        BY <3>1, <2>1
      <3>3. ASSUME NEW k \in 1 .. Len(queue') PROVE queue'[k] # << >> /\ Fits(queue'[k])
        <4>1. k \in 1 .. Len(rest) \/ k = Len(rest) + 1
          BY <3>2, <2>1
        <4>2. QED
          BY <4>1, <3>2, <1>2, <1>7, <2>3
      <3>4. /\ \A k \in 1 .. Len(rest) : k \in 1 .. Len(queue')
            /\ Len(rest) + 1 \in 1 .. Len(queue')
        BY <3>2, <2>1
      <3>5. QED
        BY <3>2, <3>3, <3>4 DEF W
    <2>4. QED
      BY <2>2, <2>3
  <1>10. Known' = Known /\ Idle'
    BY <1>1 DEF Known, Idle
  <1>11. Finding("HANG", b[n]).kind = "HANG" /\ Finding("HANG", b[n]).of = b[n]
         /\ Finding("HANG", b[n]) \in findings'
    BY <1>6, FindingIs
  <1>12. ASSUME NEW j \in 1 .. N PROVE SettledAt(b, j)'
    <2>1. CASE j < n
      <3>1. n \in HungAt(b)'
        BY <1>11 DEF HungAt
      <3>2. QED
        BY <2>1, <3>1 DEF SettledAt
    <2>2. CASE j = n
      BY <2>2, <1>11 DEF SettledAt, Compared
    <2>3. CASE j > n
      <3>1. tail # << >> /\ n \in 0 .. j - 1
        <4>1. Len(tail) # 0
          BY <2>3, <1>2, <1>7
        <4>2. QED
          BY <4>1, <2>3, <1>2
      <3>2. Waits(b, j)'
        BY <3>1, <1>8, <1>9 DEF Waits
      <3>3. QED
        BY <3>2, <1>10 DEF SettledAt
    <2>4. QED
      BY <2>1, <2>2, <2>3, <1>2
  <1>13. findings \subseteq findings'
    BY <1>6
  <1>14. Typed'
    BY <1>1, <1>2, <1>9, <1>10 DEF BatchInv, Typed
  <1>15. InStep'
    BY <1>1, <1>10 DEF BatchInv, InStep, Idle
  <1>16. NoneLost'
    BY <1>1 DEF BatchInv, InStep, NoneLost
  <1>17. Settled'
    <2>1. \A k \in 1 .. Len(rest) : \E m \in 1 .. Len(queue') : queue'[m] = rest[k]
      BY <1>9
    <2>2. /\ b = Head(queue) /\ rest = Tail(queue) /\ queue # << >> /\ exit = "running"
          /\ ran' = ran \cup {b} /\ Idle' /\ queue' \in Seq(Seq(Known))
          /\ findings \subseteq findings' /\ answered \subseteq answered'
      BY <1>0, <1>1, <1>9, <1>10, <1>13
    <2>3. \A j \in 1 .. Len(b) : SettledAt(b, j)'
      BY <1>12
    <2>4. QED
      BY <2>1, <2>2, <2>3, SweepSettles
  <1>18. NothingMissed'
    BY <1>11 DEF NothingMissed
  <1>19. BlameIsRight'
    <2>1. b[n] \in Sane /\ Guilty("HANG", b[n])
      BY <1>2, <1>5 DEF Guilty
    <2>2. QED
      BY <2>1, <1>6, <1>11, SomeProgram DEF BatchInv, BlameIsRight
  <1>20. QED
    BY <1>14, <1>15, <1>16, <1>17, <1>18, <1>19 DEF BatchInv

LEMMA StopShortKeeps ==
  ASSUME BatchInv, Idle, StopShort, UNCHANGED campaignVars
  PROVE  BatchInv'
  <1>1. /\ queue # << >> /\ exit = "running" /\ exit' = "stopped"
        /\ ran' = ran \cup {Head(queue)}
        /\ UNCHANGED << queue, findings, answered, phase, round, pool, verified, sink, laneFailure >>
    BY DEF StopShort, Sweeping, Current, campaignVars, loopVars
  <1>2. Head(queue) \in Seq(Known)
    BY <1>1, FirstBatch
  <1>3. Known' = Known /\ Idle'
    BY <1>1 DEF Known, Idle
  <1>4. Typed'
    BY <1>1, <1>2, <1>3 DEF BatchInv, Typed
  <1>5. InStep'
    BY <1>1, <1>3 DEF BatchInv, InStep, Idle
  <1>6. NoneLost'
    BY <1>1 DEF BatchInv, InStep, NoneLost
  <1>7. Settled' /\ NothingMissed'
    BY <1>1 DEF Settled, NothingMissed
  <1>8. BlameIsRight'
    BY <1>1 DEF BatchInv, BlameIsRight
  <1>9. QED
    BY <1>4, <1>5, <1>6, <1>7, <1>8 DEF BatchInv

LEMMA SummarizeKeeps ==
  ASSUME BatchInv, Idle, Summarize, UNCHANGED campaignVars
  PROVE  BatchInv'
  <1>1. /\ queue = << >> /\ exit = "running"
        /\ exit' = IF findings = {} THEN "clean" ELSE "findings"
        /\ UNCHANGED << queue, findings, answered, ran, phase, round, pool, verified, sink,
                        laneFailure >>
    BY DEF Summarize, campaignVars, loopVars
  <1>2. Known' = Known /\ Idle'
    BY <1>1 DEF Known, Idle
  <1>3. Typed'
    BY <1>1, <1>2 DEF BatchInv, Typed
  <1>4. InStep'
    BY <1>1, <1>2 DEF BatchInv, InStep, Idle
  <1>5. NoneLost'
    BY <1>1 DEF BatchInv, InStep, NoneLost
  <1>6. Settled'
    BY <1>1, <1>2 DEF BatchInv, Settled, SettledAt, Compared, HungAt, Waits
  <1>7. NothingMissed'
    BY <1>1, <1>2 DEF BatchInv, NothingMissed
  <1>8. BlameIsRight'
    BY <1>1 DEF BatchInv, BlameIsRight
  <1>9. QED
    BY <1>3, <1>4, <1>5, <1>6, <1>7, <1>8 DEF BatchInv

(* Every program of the batch is compared, the last perhaps because it is none the
   runner can frame. *)
LEMMA CompareKeeps ==
  ASSUME BatchInv, Idle, Compare, UNCHANGED campaignVars
  PROVE  BatchInv'
  <1>0. PICK b, rest : b = Head(queue) /\ rest = Tail(queue)
    OBVIOUS
  <1> DEFINE N == Len(b)
  <1>1. /\ queue # << >> /\ exit = "running" /\ ran' = ran \cup {b} /\ queue' = rest
        /\ UNCHANGED << exit, phase, round, pool, verified, sink, laneFailure >>
    BY <1>0 DEF Compare, Sweeping, Current, campaignVars, loopVars
  <1>2. /\ b \in Seq(Known) /\ b \in Seq(Sane) /\ N \in Nat /\ b # << >> /\ Fits(b)
        /\ rest \in Seq(Seq(Known)) /\ Len(rest) \in Nat
        /\ \A k \in 1 .. Len(rest) : rest[k] # << >> /\ Fits(rest[k])
    <2>1. b = Head(queue) /\ rest = Tail(queue) /\ queue # << >>
      BY <1>0, <1>1
    <2>2. /\ Head(queue) \in Seq(Known) /\ Head(queue) \in Seq(Sane)
          /\ Len(Head(queue)) \in Nat /\ Head(queue) # << >> /\ Fits(Head(queue))
          /\ Tail(queue) \in Seq(Seq(Known)) /\ Len(Tail(queue)) = Len(queue) - 1
          /\ Len(queue) \in Nat /\ Len(queue) >= 1
          /\ \A k \in 1 .. Len(Tail(queue)) : Tail(queue)[k] # << >> /\ Fits(Tail(queue)[k])
      BY <2>1, FirstBatch
    <2>3. Len(rest) \in Nat
      BY <2>1, <2>2
    <2>4. QED
      BY ONLY <2>1, <2>2, <2>3
  <1> DEFINE wrong(run) == { i \in 1 .. N : /\ Comparable(run.results[i])
                                            /\ ~ Agrees(run.results[i], b[i].vm) }
  <1>3. PICK run \in Outcome("answer", b) :
          /\ ~ run.timedOut /\ Len(run.results) = N
          /\ findings' = findings \cup { Finding("MISMATCH", b[i]) : i \in wrong(run) }
          /\ answered' = answered \cup { b[i] : i \in (1 .. N) \ wrong(run) }
    <2> DEFINE C(a) == \E run \in Outcome("answer", a) :
          LET w == { i \in 1 .. Len(a) : /\ Comparable(run.results[i])
                                         /\ ~ Agrees(run.results[i], a[i].vm) }
          IN  /\ ~ run.timedOut /\ Len(run.results) = Len(a)
              /\ findings' = findings \cup { Finding("MISMATCH", a[i]) : i \in w }
              /\ answered' = answered \cup { a[i] : i \in (1 .. Len(a)) \ w }
    <2>1. C(Head(queue))
      BY DEF Compare, Current
    <2>2. C(b)
      <3> HIDE DEF C
      <3>1. QED
        BY <1>0, <2>1
    <2>3. QED
      BY <2>2
  <1>4. ASSUME NEW i \in 1 .. N PROVE b[i] \in Sane /\ b[i] # NoProgram
    BY <1>2, SomeProgram
  (* The last program may be one the runner could not frame. *)
  <1>5. ASSUME NEW i \in 1 .. N
        PROVE  \/ run.results[i] = b[i].target /\ b[i].target.tag \in {"R", "T", "E"}
               \/ ~ b[i].framed /\ ~ Comparable(run.results[i])
    <2>1. CASE AllAnswered(b, run)
      BY <2>1 DEF AllAnswered, Answered
    <2>2. CASE \E n \in 1 .. N : BreaksOffAt(b, run, n)
      <3>1. PICK n \in 1 .. N : BreaksOffAt(b, run, n)
        BY <2>2
      <3>2. /\ n = N /\ ~ b[n].framed /\ run.results[n].tag = "X"
            /\ \A j \in 1 .. n - 1 : run.results[j] = b[j].target /\ b[j].target.tag \in {"R", "T", "E"}
        BY <3>1, <1>3 DEF BreaksOffAt, Answered
      <3>3. i = n \/ i \in 1 .. n - 1
        BY <3>2, <1>2
      <3>4. QED
        BY <3>2, <3>3 DEF Comparable
    <2>3. QED
      BY <2>1, <2>2, <1>2, <1>3, AnswersHeard DEF HangsAt
  <1>6. ASSUME NEW i \in wrong(run)
        PROVE  i \in 1 .. N /\ Guilty("MISMATCH", b[i]) /\ Finding("MISMATCH", b[i]) \in findings'
    <2>1. i \in 1 .. N /\ Finding("MISMATCH", b[i]) \in findings'
      BY <1>3, <1>6
    <2>2. /\ b[i].target.tag \in {"R", "T", "E"}
          /\ Comparable(b[i].target) /\ ~ Agrees(b[i].target, b[i].vm)
      BY <2>1, <1>5, <1>6
    <2> DEFINE p == b[i]
    <2> HIDE DEF p
    <2>3. Guilty("MISMATCH", p)
      <3>1. p.target.tag \in {"R", "T", "E"} /\ Comparable(p.target) /\ ~ Agrees(p.target, p.vm)
        BY <2>2 DEF p
      <3>2. QED
        BY <3>1, WrongAnswer
    <2>4. QED
      BY <2>1, <2>3 DEF p
  <1>7. ASSUME NEW i \in 1 .. N, i \notin wrong(run) PROVE TargetRight(b[i]) /\ b[i] \in answered'
    <2>1. b[i] \in answered'
      BY <1>3, <1>7
    <2> DEFINE p == b[i]
    <2>2. CASE ~ p.framed
      BY <2>1, <2>2 DEF TargetRight
    <2>3. CASE p.framed
      <3>1. p \in Sane /\ p.target.tag \in {"R", "T", "E"}
            /\ ~ (Comparable(p.target) /\ ~ Agrees(p.target, p.vm))
        BY <2>3, <1>4, <1>5, <1>7
      <3> HIDE DEF p
      <3>2. TargetRight(p)
        BY <3>1, RightAnswer
      <3>3. QED
        BY <2>1, <3>2 DEF p
    <2>4. QED
      BY <2>2, <2>3
  <1> DEFINE w == wrong(run)
  <1> HIDE DEF w, wrong
  <1>8. findings \subseteq findings' /\ answered \subseteq answered'
        /\ findings' = findings \cup { Finding("MISMATCH", b[i]) : i \in w }
    BY <1>3 DEF w
  <1>9. ASSUME NEW f \in findings' \ findings PROVE f.of # NoProgram /\ Guilty(f.kind, f.of)
    <2>1. PICK i \in w : f = Finding("MISMATCH", b[i])
      BY <1>8, <1>9
    <2>2. i \in 1 .. N /\ Guilty("MISMATCH", b[i])
      BY <1>6 DEF w
    <2>3. f.kind = "MISMATCH" /\ f.of = b[i]
      BY <2>1, FindingIs
    <2>4. QED
      BY <2>2, <2>3, <1>4
  <1>10. ASSUME NEW i \in 1 .. N PROVE SettledAt(b, i)'
    <2>1. CASE i \in wrong(run)
      <3>1. Finding("MISMATCH", b[i]) \in findings' /\ Finding("MISMATCH", b[i]).of = b[i]
        BY <1>6, <2>1, FindingIs
      <3>2. QED
        BY <3>1 DEF SettledAt, Compared
    <2>2. CASE i \notin wrong(run)
      BY <1>7, <2>2 DEF SettledAt, Compared
    <2>3. QED
      BY <2>1, <2>2
  <1>11. Known' = Known /\ Idle'
    BY <1>1 DEF Known, Idle
  <1>12. Typed'
    BY <1>1, <1>2, <1>11 DEF BatchInv, Typed
  <1>13. InStep'
    BY <1>1, <1>11 DEF BatchInv, InStep, Idle
  <1>14. NoneLost'
    BY <1>1 DEF BatchInv, InStep, NoneLost
  <1>15. Settled'
    <2>1. \A k \in 1 .. Len(rest) : \E m \in 1 .. Len(queue') : queue'[m] = rest[k]
      BY <1>1
    <2>2. /\ b = Head(queue) /\ rest = Tail(queue) /\ queue # << >> /\ exit = "running"
          /\ ran' = ran \cup {b} /\ Idle' /\ queue' \in Seq(Seq(Known))
          /\ findings \subseteq findings' /\ answered \subseteq answered'
      BY <1>0, <1>1, <1>2, <1>8, <1>11
    <2>3. \A j \in 1 .. Len(b) : SettledAt(b, j)'
      BY <1>10
    <2>4. QED
      BY <2>1, <2>2, <2>3, SweepSettles
  <1>16. NothingMissed'
    <2>1. SUFFICES ASSUME findings' = {}, NEW a \in ran', NEW i \in 1 .. Len(a)
                   PROVE TargetRight(a[i])
      BY <1>11 DEF NothingMissed
    <2>2. findings = {} /\ exit # "stopped"
      BY <1>1, <1>8, <2>1
    <2>3. CASE a = b
      BY <1>6, <1>7, <2>1, <2>3
    <2>4. CASE a \in ran
      BY <2>1, <2>2, <2>4 DEF BatchInv, NothingMissed
    <2>5. QED
      BY <1>1, <2>1, <2>3, <2>4
  <1>17. BlameIsRight'
    BY <1>9 DEF BatchInv, BlameIsRight
  <1>18. QED
    BY <1>12, <1>13, <1>14, <1>15, <1>16, <1>17 DEF BatchInv

LEMMA SweepStarts ==
  ASSUME SweepInit, CampaignIdle
  PROVE  BatchInv
  <1>0. PICK n \in 1 .. MaxSaved :
          \E files \in [1 .. n -> { p \in Saved : Runnable(p) }] :
            queue = Chunks([i \in 1 .. n |-> [files[i] EXCEPT !.id = i]], SweepLimit)
    BY DEF SweepInit
  <1>1. PICK files \in [1 .. n -> { p \in Saved : Runnable(p) }] :
          queue = Chunks([i \in 1 .. n |-> [files[i] EXCEPT !.id = i]], SweepLimit)
    BY <1>0
  <1>2. /\ phase = "sweeping" /\ round = 0 /\ pool = << >> /\ verified = {} /\ sink = "target"
        /\ laneFailure = FALSE /\ findings = {} /\ ran = {} /\ exit = "running"
    BY DEF SweepInit, CampaignIdle
  <1> DEFINE entries == [i \in 1 .. n |-> [files[i] EXCEPT !.id = i]]
  <1>3. n \in Nat /\ SweepLimit \in Nat /\ SweepLimit <= BatchLimit
    BY SweepConstants
  <1>4. ASSUME NEW i \in 1 .. n PROVE [files[i] EXCEPT !.id = i] \in Sane
    <2>1. files[i] \in Sane /\ i \in Nat
      BY <1>3, SweepConstants DEF Sane, IsProgram
    <2>2. Numbered(files[i], i) \in Sane
      BY <2>1, NumberedIs
    <2>3. QED
      BY <2>2 DEF Numbered
  <1>5. entries \in Seq(Sane)
    <2> DEFINE T == Sane
    <2>1. entries \in [1 .. n -> T]
      <3> HIDE DEF T
      <3>1. QED
        BY <1>4 DEF T
    <2> HIDE DEF entries, T
    <2>2. entries \in Seq(T)
      BY <1>3, <2>1
    <2>3. QED
      BY <2>2 DEF T
  <1>6. Known = Sane /\ Idle
    BY <1>2 DEF Known, Idle
  <1> HIDE DEF entries
  <1>7. /\ queue \in Seq(Seq(Known))
        /\ \A k \in 1 .. Len(queue) : queue[k] # << >> /\ Fits(queue[k])
    <2>1. queue = Chunks(entries, SweepLimit)
      BY <1>1 DEF entries
    <2>2. QED
      BY <2>1, <1>3, <1>5, <1>6, Chunked
  <1>8. Typed
    BY <1>2, <1>7 DEF Typed
  <1>9. InStep
    BY <1>2, <1>6 DEF InStep
  <1>10. QED
    BY <1>2, <1>8, <1>9 DEF BatchInv, NoneLost, Settled, NothingMissed, BlameIsRight

LEMMA CampaignStarts ==
  ASSUME CampaignInit
  PROVE  BatchInv
  <1>1. /\ queue = << >> /\ findings = {} /\ ran = {} /\ exit = "running" /\ phase = "calibrating"
        /\ round = 0 /\ pool = << >> /\ verified = {} /\ sink = "target" /\ laneFailure = FALSE
    BY DEF CampaignInit
  <1>2. Typed
    BY <1>1 DEF Typed
  <1>3. InStep
    BY <1>1 DEF InStep, Idle
  <1>4. QED
    BY <1>1, <1>2, <1>3 DEF BatchInv, NoneLost, Settled, NothingMissed, BlameIsRight

LEMMA StutterKeeps ==
  ASSUME BatchInv, UNCHANGED vars
  PROVE  BatchInv'
  <1>1. /\ UNCHANGED << queue, findings, answered, ran, exit, phase, round, pool, verified, sink,
                        laneFailure >>
    BY DEF vars, sinkVars, campaignVars, loopVars
  <1>2. Known' = Known
    BY <1>1 DEF Known, Idle
  <1>3. Typed' /\ InStep'
    BY <1>1, <1>2 DEF BatchInv, Typed, InStep, Idle
  <1>4. NoneLost' /\ NothingMissed' /\ BlameIsRight'
    BY <1>1 DEF BatchInv, NoneLost, Handed, NothingMissed, BlameIsRight, Idle
  <1>5. Settled'
    BY <1>1 DEF BatchInv, Settled, SettledAt, Compared, HungAt, Waits, Idle
  <1>6. QED
    BY <1>3, <1>4, <1>5 DEF BatchInv

-----------------------------------------------------------------------------
(* The theorems. *)

(* The invariant holds in every state of either tool. *)
THEOREM BatchesInvariant == Spec => []BatchInv
  <1>1. Init => BatchInv
    BY SweepStarts, CampaignStarts DEF Init
  <1>2. BatchInv /\ [Next]_vars => BatchInv'
    <2>1. SUFFICES ASSUME BatchInv, [Next]_vars PROVE BatchInv'
      OBVIOUS
    <2>2. CASE Calibrate
      BY <2>1, <2>2, CalibrateKeeps
    <2>3. CASE \E m \in Mutants : Drop(m) \/ Disagree(m) \/ Skip(m) \/ Keep(m)
      BY <2>1, <2>3, DropKeeps, DisagreeKeeps, KeepKeeps
    <2>4. CASE RunTarget
      BY <2>1, <2>4, RunTargetKeeps
    <2>5. CASE RunTargetDbg
      BY <2>1, <2>5, RunTargetDbgKeeps
    <2>6. CASE RunHost
      BY <2>1, <2>6, RunHostKeeps
    <2>7. CASE EndBatch
      BY <2>1, <2>7, EndBatchKeeps
    <2>8. CASE LastBatch
      BY <2>1, <2>8, LastBatchKeeps
    <2>9. CASE Report
      BY <2>1, <2>9, ReportKeeps
    <2>10. CASE Interrupt
      BY <2>1, <2>10, InterruptKeeps
    <2>11. CASE Idle /\ StepOver /\ UNCHANGED campaignVars
      BY <2>1, <2>11, StepOverKeeps
    <2>12. CASE Idle /\ StopShort /\ UNCHANGED campaignVars
      BY <2>1, <2>12, StopShortKeeps
    <2>13. CASE Idle /\ Compare /\ UNCHANGED campaignVars
      BY <2>1, <2>13, CompareKeeps
    <2>14. CASE Idle /\ Summarize /\ UNCHANGED campaignVars
      BY <2>1, <2>14, SummarizeKeeps
    <2>15. CASE UNCHANGED vars
      BY <2>1, <2>15, StutterKeeps
    <2>16. QED
      BY <2>1, <2>2, <2>3, <2>4, <2>5, <2>6, <2>7, <2>8, <2>9, <2>10, <2>11, <2>12, <2>13,
         <2>14, <2>15 DEF Next, CampaignStep
  <1>3. QED
    BY <1>1, <1>2, PTL DEF Spec

(* Whatever is drawn or saved, a finding names the program whose fault it is. *)
THEOREM BlameIsAlwaysRight == Spec => []BlameIsRight
  <1>1. BatchInv => BlameIsRight
    BY DEF BatchInv
  <1>2. QED
    BY <1>1, BatchesInvariant, PTL

(* A tool that ends without a finding has seen only programs whose answers are
   right, and in a campaign none that crashes the host translator. *)
THEOREM CleanAlwaysMeansClean == Spec => []CleanExitMeansClean
  <1>1. BatchInv => CleanExitMeansClean
    <2>1. SUFFICES ASSUME BatchInv, exit = "clean"
                   PROVE  /\ \A p \in verified \cup UNION { Elements(b) : b \in ran } : Healthy(p)
                          /\ ~ laneFailure
      BY DEF CleanExitMeansClean
    <2>2. /\ findings = {} /\ ~ laneFailure /\ sink = "target"
          /\ Idle \/ (phase = "over" /\ queue = << >>)
      BY <2>1 DEF BatchInv, InStep
    <2>3. ASSUME NEW b \in ran, NEW i \in 1 .. Len(b) PROVE Healthy(b[i])
      <3>1. TargetRight(b[i]) /\ (Idle \/ ~ b[i].crashes)
        BY <2>1, <2>2, <2>3 DEF BatchInv, NothingMissed
      <3>2. QED
        BY <3>1 DEF Healthy, TargetRight
    <2>4. ASSUME NEW p \in verified PROVE Healthy(p)
      <3>1. ~ Idle
        BY <2>1, <2>4 DEF BatchInv, InStep
      <3>2. ~ InOneOf(p, queue) /\ phase # "drawing"
        BY <2>2, <3>1 DEF InOneOf
      <3>3. PICK b \in ran : InChunk(p, b)
        BY <2>1, <2>4, <3>2 DEF BatchInv, NoneLost, Handed
      <3>4. QED
        BY <2>3, <3>3 DEF InChunk
    <2>5. ASSUME NEW p \in UNION { Elements(b) : b \in ran } PROVE Healthy(p)
      <3>1. PICK b \in ran : p \in Elements(b)
        BY <2>5
      <3>2. QED
        BY <3>1, <2>3 DEF Elements
    <2>6. QED
      BY <2>2, <2>4, <2>5
  <1>2. QED
    BY <1>1, BatchesInvariant, PTL

(* When a tool has ended, every verified program was handed to the target, and each
   program handed over is compared or stands before one that hangs, in a campaign
   anywhere beside one. *)
THEOREM AlwaysAccounted == Spec => []Accounted
  <1>1. BatchInv => Accounted
    <2>1. SUFFICES ASSUME BatchInv, exit \in {"clean", "findings"}
                   PROVE  /\ verified \subseteq UNION { Elements(b) : b \in ran }
                          /\ \A b \in ran : \A i \in 1 .. Len(b) :
                               \/ Compared(b[i])
                               \/ \E h \in HungAt(b) : Idle => i < h
      BY DEF Accounted
    <2>2. queue = << >> /\ (Idle \/ phase = "over") /\ exit # "stopped"
      BY <2>1 DEF BatchInv, InStep
    <2>3. ASSUME NEW p \in verified PROVE p \in UNION { Elements(b) : b \in ran }
      <3>1. ~ Idle
        BY <2>1, <2>3 DEF BatchInv, InStep
      <3>2. ~ InOneOf(p, queue) /\ phase # "drawing"
        BY <2>2, <3>1 DEF InOneOf
      <3>3. PICK b \in ran : InChunk(p, b)
        BY <2>1, <2>3, <3>2 DEF BatchInv, NoneLost, Handed
      <3>4. p \in Elements(b)
        BY <3>3 DEF InChunk, Elements
      <3>5. QED
        BY <3>4
    <2>4. ASSUME NEW b \in ran, NEW i \in 1 .. Len(b)
          PROVE  Compared(b[i]) \/ \E h \in HungAt(b) : Idle => i < h
      <3>1. ~ Waits(b, i)
        BY <2>2 DEF Waits
      <3>2. QED
        BY <2>1, <2>2, <2>4, <3>1 DEF BatchInv, Settled, SettledAt
    <2>5. QED
      BY <2>3, <2>4
  <1>2. QED
    BY <1>1, BatchesInvariant, PTL
=============================================================================
